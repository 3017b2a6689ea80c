-------------------------- MODULE UsbfnDwc3_proofs --------------------------
(***************************************************************************)
(* TLAPS proofs about UsbfnDwc3 for every number of endpoints, every ring  *)
(* depth that exceeds it, and every choice of host and client behaviour:   *)
(* lemmas about the endpoint table, then the message ring, the buffers,    *)
(* what the client knows of the bus, and the bulk transfers.               *)
(***************************************************************************)
EXTENDS UsbfnDwc3, SequenceTheorems, TLAPS

(* Every operation of Dwc3Endpoint maps endpoint tables to endpoint tables. *)

\* EP0 OUT and EP0 IN exist, and the endpoints above them are bulk endpoints.
LEMMA EpsFacts ==
    /\ EP0_OUT \in Eps /\ EP0_IN \in Eps
    /\ Bulk \subseteq Eps
    /\ \A n \in Eps : Pool(n) \in Eps
BY EndpointAssumption DEF Eps, EP0_OUT, EP0_IN, Bulk, Pool

\* NULL is a buffer number.
LEMMA NullBuffer == NULL \in Buffers
BY EndpointAssumption DEF NULL, Buffers

\* A zeroed endpoint is an endpoint.
LEMMA ZeroEndpointType == ZeroEndpoint \in Endpoint /\ ZeroTrb \in Trbs
BY NullBuffer DEF ZeroEndpoint, Endpoint, ZeroTrb, Trbs, RunTypes, TrbTypes

\* Dwc3EndTransfer on one endpoint.
LEMMA EndedType ==
    ASSUME NEW e \in Endpoint
    PROVE  Ended(e) \in Endpoint
BY ZeroEndpointType, NullBuffer DEF Ended, Endpoint, RunTypes

\* Dwc3EndTransfer on the table, with the TRB pool EP0 IN shares.
LEMMA EndTransferType ==
    ASSUME NEW E \in EndpointTable, NEW n \in Eps
    PROVE  EndTransfer(E, n) \in EndpointTable
<1>1. Ended(E[n]) \in Endpoint
  BY EndedType DEF EndpointTable
<1>2. \A e \in Endpoint : [e EXCEPT !.Trb = ZeroTrb] \in Endpoint
  BY ZeroEndpointType DEF Endpoint
<1> QED
  BY <1>1, <1>2, EpsFacts DEF EndTransfer, EndpointTable

\* Dwc3StartTransfer, whether or not STARTTRANSFER succeeded.
LEMMA StartTransferType ==
    ASSUME NEW E \in EndpointTable, NEW n \in Eps, NEW type \in TrbTypes,
           NEW id \in Buffers, NEW ok \in BOOLEAN
    PROVE  StartTransfer(E, n, type, id, ok) \in EndpointTable
<1>1. EndTransfer(E, n) \in EndpointTable /\ Pool(n) \in Eps
  BY EndTransferType, EpsFacts
<1>2. [type |-> type, hwo |-> TRUE] \in Trbs /\ ZeroTrb \in Trbs
  BY ZeroEndpointType DEF Trbs
<1>3. ASSUME NEW e \in Endpoint, NEW t \in Trbs
      PROVE  [e EXCEPT !.Trb = t] \in Endpoint
  BY DEF Endpoint
<1>4. ASSUME NEW F \in EndpointTable, NEW t \in Trbs
      PROVE  WithTrb(F, n, t) \in EndpointTable
  BY <1>1, <1>3 DEF WithTrb, EndpointTable
<1>5. \A e \in Endpoint : Running(e, type, id) \in Endpoint
  BY DEF Running, Endpoint, RunTypes
<1>6. \A F \in EndpointTable : [F EXCEPT ![n] = Running(F[n], type, id)] \in EndpointTable
  BY <1>5 DEF EndpointTable
<1> QED
  BY <1>1, <1>2, <1>4, <1>6 DEF StartTransfer

\* Dwc3EnableEndpoint, for any set of endpoints.
LEMMA EnableEndpointsType ==
    ASSUME NEW E \in EndpointTable, NEW S
    PROVE  EnableEndpoints(E, S) \in EndpointTable
<1>1. \A e \in Endpoint, n \in Eps : EnabledEndpoint(e, n) \in Endpoint
  BY ZeroEndpointType DEF EnabledEndpoint, Endpoint
<1> QED
  BY <1>1 DEF EnableEndpoints, EndpointTable

\* Dwc3DisableEndpoint on all endpoints.
LEMMA DisableAllType ==
    ASSUME NEW E \in EndpointTable
    PROVE  DisableAll(E) \in EndpointTable
<1>1. \A e \in Endpoint : [e EXCEPT !.Enabled = FALSE, !.TransferBuffer = NULL] \in Endpoint
  BY NullBuffer DEF Endpoint
<1>2. \A e \in Endpoint : DisabledEndpoint(e) \in Endpoint
  BY <1>1, EndedType DEF DisabledEndpoint
<1>3. \A e \in Endpoint : [e EXCEPT !.Trb = ZeroTrb] \in Endpoint
  BY ZeroEndpointType DEF Endpoint
<1> QED
  BY <1>2, <1>3 DEF DisableAll, EndpointTable

\* Dwc3SetHalt.
LEMMA SetHaltType ==
    ASSUME NEW E \in EndpointTable, NEW n \in Eps, NEW stall \in BOOLEAN,
           NEW ok \in BOOLEAN
    PROVE  SetHalt(E, n, stall, ok) \in EndpointTable
<1>1. \A e \in Endpoint : [e EXCEPT !.Stalled = IF ok THEN stall ELSE e.Stalled] \in Endpoint
  BY DEF Endpoint
<1> QED
  BY <1>1 DEF SetHalt, EndpointTable

\* Dwc3Ep0OutStart.
LEMMA Ep0ArmedType ==
    ASSUME NEW E \in EndpointTable, NEW ok \in BOOLEAN
    PROVE  Ep0Armed(E, ok) \in EndpointTable
BY EndTransferType, StartTransferType, EpsFacts, NullBuffer
   DEF Ep0Armed, Ep0Ended, TrbTypes

\* The flags Dwc3Ep0StallAndRestart clears.
LEMMA Ep0UnstalledType ==
    ASSUME NEW E \in EndpointTable
    PROVE  Ep0Unstalled(E) \in EndpointTable
<1>1. \A e \in Endpoint : [e EXCEPT !.Stalled = FALSE] \in Endpoint
  BY DEF Endpoint
<1> QED
  BY <1>1, EpsFacts DEF Ep0Unstalled, EndpointTable

\* The RESET event on the table.
LEMMA ResetTableType ==
    ASSUME NEW E \in EndpointTable, NEW F
    PROVE  ResetTable(E, F) \in EndpointTable
<1>1. \A e \in Endpoint : /\ [e EXCEPT !.Stalled = FALSE] \in Endpoint
                          /\ [e EXCEPT !.TransferBuffer = NULL] \in Endpoint
  BY NullBuffer DEF Endpoint
<1>2. ASSUME NEW e \in Endpoint, NEW n \in Eps, NEW h
      PROVE  ResetEndpoint(e, n, h) \in Endpoint
  BY <1>1, EndedType DEF ResetEndpoint
<1>3. HaltsAndBulkReset(E, F) \in EndpointTable
  BY <1>2 DEF HaltsAndBulkReset, EndpointTable
<1> QED
  BY <1>3, EndTransferType, EpsFacts DEF ResetTable

\* One round of Dwc3ResetNonControlEndpoints.
LEMMA ReconfigureType ==
    ASSUME NEW E \in EndpointTable, NEW n \in Eps, NEW ok \in BOOLEAN
    PROVE  Reconfigure(E, n, ok) \in EndpointTable
<1>1. \A e \in Endpoint : [e EXCEPT !.TransferBuffer = NULL] \in Endpoint
  BY NullBuffer DEF Endpoint
<1>2. \A e \in Endpoint : EnabledEndpoint(e, n) \in Endpoint
  BY ZeroEndpointType DEF EnabledEndpoint, Endpoint
<1> QED
  BY <1>1, <1>2, EndedType DEF Reconfigure, EndpointTable

\* The controller completes a transfer or moves the payload of a chained one.
LEMMA HardwareType ==
    ASSUME NEW E \in EndpointTable, NEW n \in Eps
    PROVE  Completed(E, n) \in EndpointTable /\ PayloadMoved(E, n) \in EndpointTable
<1>1. \A e \in Endpoint : Released(e) \in Endpoint /\ Idled(e) \in Endpoint
  BY NullBuffer DEF Released, Idled, Endpoint, Trbs, RunTypes
<1>2. \A e \in Endpoint : [e EXCEPT !.run = "zlp"] \in Endpoint
  BY DEF Endpoint, RunTypes
<1> QED
  BY <1>1, <1>2, EpsFacts DEF Completed, PayloadMoved, EndpointTable

-----------------------------------------------------------------------------
(* Which operations may make an endpoint hold another buffer, or make a     *)
(* bulk endpoint wait: none of those below (only Dwc3Transfer does).        *)

Kept(E, F) ==
    /\ \A m \in Eps : F[m].TransferBuffer \in {E[m].TransferBuffer, NULL}
    /\ \A m \in Bulk : F[m].TransferStarted =>
          E[m].TransferStarted /\ F[m].TransferBuffer = E[m].TransferBuffer

\* Kept is reflexive and transitive.
LEMMA KeptOrder ==
    ASSUME NEW E, NEW F, NEW G
    PROVE  Kept(E, E) /\ (Kept(E, F) /\ Kept(F, G) => Kept(E, G))
BY EpsFacts DEF Kept

\* The same for one entry; a table whose entries are kept is kept.
KeptEntry(e, f) ==
    /\ f.TransferBuffer \in {e.TransferBuffer, NULL}
    /\ f.TransferStarted => e.TransferStarted /\ f.TransferBuffer = e.TransferBuffer

\* Lifts KeptEntry to a table changed in one entry.
LEMMA KeptOne ==
    ASSUME NEW E \in EndpointTable, NEW n \in Eps, NEW f,
           KeptEntry(E[n], f)
    PROVE  Kept(E, [E EXCEPT ![n] = f])
BY EpsFacts DEF KeptEntry, Kept, EndpointTable

\* Dwc3EndTransfer keeps the buffer and clears TransferStarted.
LEMMA EndedKept ==
    ASSUME NEW e \in Endpoint
    PROVE  Ended(e).TransferBuffer = e.TransferBuffer /\ ~Ended(e).TransferStarted
BY DEF Ended, Endpoint

\* Dwc3EndTransfer on the table.
LEMMA EndTransferKept ==
    ASSUME NEW E \in EndpointTable, NEW n \in Eps
    PROVE  Kept(E, EndTransfer(E, n))
<1>1. \A m \in Eps : E[m] \in Endpoint
  BY DEF EndpointTable
<1>2. \A m \in Eps : /\ EndTransfer(E, n)[m].TransferBuffer = E[m].TransferBuffer
                     /\ EndTransfer(E, n)[m].TransferStarted => E[m].TransferStarted
  <2> SUFFICES ASSUME NEW m \in Eps
               PROVE  /\ EndTransfer(E, n)[m].TransferBuffer = E[m].TransferBuffer
                      /\ EndTransfer(E, n)[m].TransferStarted => E[m].TransferStarted
    OBVIOUS
  <2>1. \/ EndTransfer(E, n)[m] = Ended(E[m])
        \/ EndTransfer(E, n)[m] = E[m]
        \/ EndTransfer(E, n)[m] = [E[m] EXCEPT !.Trb = ZeroTrb]
    BY EpsFacts DEF EndTransfer, EndpointTable, EP0_IN, EP0_OUT
  <2>2. KeptEntry(E[m], [E[m] EXCEPT !.Trb = ZeroTrb])
    BY <1>1 DEF KeptEntry, Endpoint
  <2>3. [E[m] EXCEPT !.Trb = ZeroTrb].TransferBuffer = E[m].TransferBuffer
    BY <1>1 DEF Endpoint
  <2> QED BY <1>1, <2>1, <2>2, <2>3, EndedKept DEF KeptEntry
<1> QED BY <1>2, EpsFacts DEF Kept

\* Lifts KeptEntry to a table whose entries all change.
LEMMA KeptAll ==
    ASSUME NEW E, NEW F, \A m \in Eps : KeptEntry(E[m], F[m])
    PROVE  Kept(E, F)
BY EpsFacts DEF KeptEntry, Kept

\* Dwc3StartTransfer on EP0: bulk endpoints are not touched.
LEMMA StartTransferEp0Kept ==
    ASSUME NEW E \in EndpointTable, NEW n \in {EP0_OUT, EP0_IN}, NEW type \in TrbTypes,
           NEW id \in Buffers, NEW ok \in BOOLEAN
    PROVE  Kept(E, StartTransfer(E, n, type, id, ok))
<1> DEFINE F == EndTransfer(E, n)
<1>1. F \in EndpointTable /\ Kept(E, F) /\ n \in Eps /\ Pool(n) \in Eps
  BY EndTransferType, EndTransferKept, EpsFacts
<1>2. n \notin Bulk
  BY DEF Bulk, EP0_OUT, EP0_IN
<1>3. ASSUME NEW t \in Trbs
      PROVE  WithTrb(F, n, t) \in EndpointTable /\ Kept(F, WithTrb(F, n, t))
  <2> HIDE DEF F
  <2> DEFINE f == [F[Pool(n)] EXCEPT !.Trb = t]
  <2>1. F[Pool(n)] \in Endpoint
    BY <1>1 DEF EndpointTable
  <2>2. KeptEntry(F[Pool(n)], f)
    BY <2>1 DEF KeptEntry, Endpoint
  <2>3. f \in Endpoint
    BY <2>1 DEF Endpoint
  <2>4. WithTrb(F, n, t) = [F EXCEPT ![Pool(n)] = f]
    BY DEF WithTrb
  <2> HIDE DEF f
  <2>5. [F EXCEPT ![Pool(n)] = f] \in EndpointTable
    BY <1>1, <2>3 DEF EndpointTable
  <2>6. Kept(F, [F EXCEPT ![Pool(n)] = f])
    BY <1>1, <2>2, KeptOne
  <2> QED BY <2>4, <2>5, <2>6
<1>4. ASSUME NEW G \in EndpointTable
      PROVE  Kept(G, [G EXCEPT ![n] = Running(G[n], type, id)])
  <2>1. G[n] \in Endpoint
    BY <1>1 DEF EndpointTable
  <2>2. Running(G[n], type, id).TransferBuffer = G[n].TransferBuffer
    BY <2>1 DEF Running, Endpoint
  <2> QED BY <1>1, <1>2, <2>2, EpsFacts DEF Kept, EndpointTable
<1>5. [type |-> type, hwo |-> TRUE] \in Trbs /\ ZeroTrb \in Trbs
  BY ZeroEndpointType DEF Trbs
<1> DEFINE G == WithTrb(F, n, [type |-> type, hwo |-> TRUE])
           H == [G EXCEPT ![n] = Running(G[n], type, id)]
           Z == WithTrb(F, n, ZeroTrb)
<1>6. Kept(F, G) /\ Kept(G, H) /\ Kept(F, Z)
  BY <1>3, <1>4, <1>5
<1>7. StartTransfer(E, n, type, id, ok) = IF ok THEN H ELSE Z
  BY DEF StartTransfer
<1> HIDE DEF F, G, H, Z
<1>8. Kept(E, H) /\ Kept(E, Z)
  BY <1>1, <1>6, KeptOrder
<1> QED BY <1>7, <1>8

\* Dwc3Ep0OutStart.
LEMMA Ep0ArmedKept ==
    ASSUME NEW E \in EndpointTable, NEW ok \in BOOLEAN
    PROVE  Kept(E, Ep0Armed(E, ok))
<1> DEFINE F == EndTransfer(E, EP0_IN)
           G == EndTransfer(F, EP0_OUT)
<1>1. F \in EndpointTable /\ Kept(E, F)
  BY EndTransferType, EndTransferKept, EpsFacts
<1>2. G \in EndpointTable /\ Kept(F, G)
  BY <1>1, EndTransferType, EndTransferKept, EpsFacts
<1>3. Kept(G, Ep0Armed(E, ok))
  BY <1>2, StartTransferEp0Kept, NullBuffer DEF Ep0Armed, Ep0Ended, TrbTypes
<1> HIDE DEF F, G
<1> QED BY <1>1, <1>2, <1>3, KeptOrder

\* Dwc3EnableEndpoint, Dwc3DisableEndpoint.
LEMMA EnableDisableKept ==
    ASSUME NEW E \in EndpointTable, NEW S
    PROVE  Kept(E, EnableEndpoints(E, S)) /\ Kept(E, DisableAll(E))
<1>1. ASSUME NEW e \in Endpoint, NEW n
      PROVE  KeptEntry(e, e) /\ KeptEntry(e, EnabledEndpoint(e, n))
  BY DEF KeptEntry, EnabledEndpoint, Endpoint
<1>2. ASSUME NEW e \in Endpoint
      PROVE  KeptEntry(e, DisabledEndpoint(e))
             /\ KeptEntry(e, [DisabledEndpoint(e) EXCEPT !.Trb = ZeroTrb])
  <2> DEFINE f == [Ended(e) EXCEPT !.Enabled = FALSE, !.TransferBuffer = NULL]
  <2>1. Ended(e) \in Endpoint /\ ~Ended(e).TransferStarted
    BY EndedType, EndedKept
  <2>2. f \in Endpoint /\ f.TransferBuffer = NULL /\ ~f.TransferStarted
    <3>1. \A g \in Endpoint : ~g.TransferStarted =>
             /\ [g EXCEPT !.Enabled = FALSE, !.TransferBuffer = NULL] \in Endpoint
             /\ [g EXCEPT !.Enabled = FALSE, !.TransferBuffer = NULL].TransferBuffer = NULL
             /\ ~[g EXCEPT !.Enabled = FALSE, !.TransferBuffer = NULL].TransferStarted
      BY NullBuffer DEF Endpoint
    <3> QED BY <2>1, <3>1
  <2>3. DisabledEndpoint(e) = f \/ DisabledEndpoint(e) = e
    BY DEF DisabledEndpoint
  <2> HIDE DEF f
  <2>4. ASSUME NEW g \in Endpoint
        PROVE  /\ [g EXCEPT !.Trb = ZeroTrb].TransferBuffer = g.TransferBuffer
               /\ [g EXCEPT !.Trb = ZeroTrb].TransferStarted = g.TransferStarted
    BY DEF Endpoint
  <2>5. KeptEntry(e, f) /\ KeptEntry(e, e)
    BY <2>2 DEF KeptEntry
  <2>6. KeptEntry(e, [f EXCEPT !.Trb = ZeroTrb]) /\ KeptEntry(e, [e EXCEPT !.Trb = ZeroTrb])
    BY <2>2, <2>4 DEF KeptEntry
  <2> QED BY <2>3, <2>5, <2>6
<1>3. \A m \in Eps : E[m] \in Endpoint
  BY DEF EndpointTable
<1>4. \A m \in Eps : KeptEntry(E[m], EnableEndpoints(E, S)[m])
  BY <1>1, <1>3 DEF EnableEndpoints
<1>5. \A m \in Eps : KeptEntry(E[m], DisableAll(E)[m])
  BY <1>2, <1>3 DEF DisableAll
<1> QED BY <1>4, <1>5, KeptAll

\* Dwc3SetHalt and the flags of Dwc3Ep0StallAndRestart.
LEMMA HaltKept ==
    ASSUME NEW E \in EndpointTable, NEW n \in Eps, NEW stall \in BOOLEAN, NEW ok \in BOOLEAN
    PROVE  Kept(E, SetHalt(E, n, stall, ok)) /\ Kept(E, Ep0Unstalled(E))
<1>1. \A m \in Eps : E[m] \in Endpoint
  BY DEF EndpointTable
<1>2. ASSUME NEW e \in Endpoint, NEW b
      PROVE  KeptEntry(e, e) /\ KeptEntry(e, [e EXCEPT !.Stalled = b])
  BY DEF KeptEntry, Endpoint
<1>3. \A m \in Eps : KeptEntry(E[m], SetHalt(E, n, stall, ok)[m])
  BY <1>1, <1>2 DEF SetHalt, EndpointTable
<1>4. \A m \in Eps : KeptEntry(E[m], Ep0Unstalled(E)[m])
  BY <1>1, <1>2, EpsFacts DEF Ep0Unstalled, EndpointTable, EP0_IN, EP0_OUT
<1> QED BY <1>3, <1>4, KeptAll

\* The RESET event.
LEMMA ResetTableKept ==
    ASSUME NEW E \in EndpointTable, NEW F
    PROVE  Kept(E, ResetTable(E, F))
<1> DEFINE H == HaltsAndBulkReset(E, F)
<1>1. ASSUME NEW e \in Endpoint, NEW n, NEW h
      PROVE  /\ ResetEndpoint(e, n, h) \in Endpoint
             /\ KeptEntry(e, ResetEndpoint(e, n, h))
  <2> DEFINE c == IF e.Enabled /\ ~h THEN [e EXCEPT !.Stalled = FALSE] ELSE e
             f == [Ended(c) EXCEPT !.TransferBuffer = NULL]
  <2>1. c \in Endpoint /\ KeptEntry(e, c)
    BY DEF KeptEntry, Endpoint
  <2>2. \A g \in Endpoint : ~g.TransferStarted =>
           /\ [g EXCEPT !.TransferBuffer = NULL] \in Endpoint
           /\ [g EXCEPT !.TransferBuffer = NULL].TransferBuffer = NULL
           /\ ~[g EXCEPT !.TransferBuffer = NULL].TransferStarted
    BY NullBuffer DEF Endpoint
  <2>3. ResetEndpoint(e, n, h) = f \/ ResetEndpoint(e, n, h) = c
    BY DEF ResetEndpoint
  <2> HIDE DEF c
  <2>4. f \in Endpoint /\ KeptEntry(e, f)
    BY <2>1, <2>2, EndedType, EndedKept DEF KeptEntry
  <2> QED BY <2>1, <2>3, <2>4
<1>2. H \in EndpointTable /\ \A m \in Eps : KeptEntry(E[m], H[m])
  BY <1>1 DEF HaltsAndBulkReset, EndpointTable
<1>3. Kept(E, H)
  BY <1>2, KeptAll
<1>4. Kept(H, ResetTable(E, F))
  BY <1>2, EndTransferKept, EpsFacts DEF ResetTable
<1> HIDE DEF H
<1> QED BY <1>3, <1>4, KeptOrder

\* One round of Dwc3ResetNonControlEndpoints; a transfer it aborts is forgotten.
LEMMA ReconfigureKept ==
    ASSUME NEW E \in EndpointTable, NEW n \in Bulk, NEW ok \in BOOLEAN
    PROVE  /\ Kept(E, Reconfigure(E, n, ok))
           /\ AbortsTransfer(E, n) => Reconfigure(E, n, ok)[n].TransferBuffer = NULL
           /\ \A m \in Eps \ {n} : Reconfigure(E, n, ok)[m] = E[m]
<1> DEFINE a == [Ended(E[n]) EXCEPT !.TransferBuffer = NULL]
           f == IF AbortsTransfer(E, n) THEN a ELSE E[n]
           g == IF E[n].Enabled /\ ok THEN EnabledEndpoint(f, n) ELSE f
<1>1. E[n] \in Endpoint /\ Ended(E[n]) \in Endpoint /\ ~Ended(E[n]).TransferStarted /\ n \in Eps
  BY EpsFacts, EndedType, EndedKept DEF EndpointTable
<1>2. \A e \in Endpoint : ~e.TransferStarted =>
         /\ [e EXCEPT !.TransferBuffer = NULL] \in Endpoint
         /\ [e EXCEPT !.TransferBuffer = NULL].TransferBuffer = NULL
         /\ ~[e EXCEPT !.TransferBuffer = NULL].TransferStarted
  BY NullBuffer DEF Endpoint
<1>3. a \in Endpoint /\ a.TransferBuffer = NULL /\ ~a.TransferStarted
  BY <1>1, <1>2
<1>4. Reconfigure(E, n, ok) = [E EXCEPT ![n] = g]
  BY DEF Reconfigure
<1>5. ASSUME NEW e \in Endpoint
      PROVE  /\ EnabledEndpoint(e, n).TransferBuffer = e.TransferBuffer
             /\ ~EnabledEndpoint(e, n).TransferStarted
  BY DEF EnabledEndpoint, Endpoint
<1> HIDE DEF a
<1>6. /\ f \in Endpoint /\ KeptEntry(E[n], f)
      /\ AbortsTransfer(E, n) => f.TransferBuffer = NULL
  BY <1>1, <1>3 DEF KeptEntry
<1> HIDE DEF f
<1>7. KeptEntry(E[n], g) /\ (AbortsTransfer(E, n) => g.TransferBuffer = NULL)
  BY <1>5, <1>6 DEF KeptEntry
<1> HIDE DEF g
<1>8. Kept(E, [E EXCEPT ![n] = g])
  BY <1>1, <1>7, KeptOne
<1> QED BY <1>1, <1>4, <1>7, <1>8 DEF EndpointTable

\* The controller's own steps.
LEMMA HardwareKept ==
    ASSUME NEW E \in EndpointTable, NEW n \in Eps
    PROVE  Kept(E, Completed(E, n)) /\ Kept(E, PayloadMoved(E, n))
<1>1. ASSUME NEW e \in Endpoint
      PROVE  /\ Released(e) \in Endpoint /\ KeptEntry(e, Released(e))
             /\ Idled(e) \in Endpoint /\ KeptEntry(e, Idled(e))
  BY NullBuffer DEF Released, Idled, KeptEntry, Endpoint, Trbs, RunTypes
<1>2. ASSUME NEW e \in Endpoint PROVE KeptEntry(e, [Released(e) EXCEPT !.run = "zlp"])
  <2>1. \A f \in Endpoint : /\ [f EXCEPT !.run = "zlp"].TransferBuffer = f.TransferBuffer
                            /\ [f EXCEPT !.run = "zlp"].TransferStarted = f.TransferStarted
    BY DEF Endpoint
  <2> QED BY <1>1, <2>1 DEF KeptEntry
<1> DEFINE F == [E EXCEPT ![Pool(n)] = Released(E[Pool(n)])]
<1>3. F \in EndpointTable /\ Kept(E, F)
  BY <1>1, KeptOne, EpsFacts DEF EndpointTable
<1>4. Completed(E, n) = [F EXCEPT ![n] = Idled(F[n])]
  BY DEF Completed
<1> HIDE DEF F
<1>5. Kept(F, Completed(E, n))
  BY <1>1, <1>3, <1>4, KeptOne DEF EndpointTable
<1>6. Kept(E, PayloadMoved(E, n))
  BY <1>2, KeptOne DEF PayloadMoved, EndpointTable
<1> QED BY <1>3, <1>5, <1>6, KeptOrder

\* Dwc3StartTransfer leaves the buffers of the other endpoints alone and makes
\* none of them wait.
LEMMA StartTransferOthers ==
    ASSUME NEW E \in EndpointTable, NEW n \in Eps, NEW type \in TrbTypes,
           NEW id \in Buffers, NEW ok \in BOOLEAN
    PROVE  \A m \in Eps \ {n} :
              /\ StartTransfer(E, n, type, id, ok)[m].TransferBuffer = E[m].TransferBuffer
              /\ m \in Bulk => (StartTransfer(E, n, type, id, ok)[m].TransferStarted
                                  => E[m].TransferStarted)
<1> SUFFICES ASSUME NEW m \in Eps \ {n}
             PROVE  /\ StartTransfer(E, n, type, id, ok)[m].TransferBuffer = E[m].TransferBuffer
                    /\ m \in Bulk => (StartTransfer(E, n, type, id, ok)[m].TransferStarted
                                        => E[m].TransferStarted)
  OBVIOUS
<1> DEFINE F == EndTransfer(E, n)
<1>1. F \in EndpointTable /\ Pool(n) \in Eps /\ E[m] \in Endpoint
  BY EndTransferType, EpsFacts DEF EndpointTable
<1>2. F[m] = E[m] \/ F[m] = [E[m] EXCEPT !.Trb = ZeroTrb]
  BY EpsFacts DEF EndTransfer, EndpointTable
<1>3. F[m].TransferBuffer = E[m].TransferBuffer /\ F[m].TransferStarted = E[m].TransferStarted
  <2>1. /\ [E[m] EXCEPT !.Trb = ZeroTrb].TransferBuffer = E[m].TransferBuffer
        /\ [E[m] EXCEPT !.Trb = ZeroTrb].TransferStarted = E[m].TransferStarted
    BY <1>1 DEF Endpoint
  <2> HIDE DEF F
  <2> QED BY <1>2, <2>1
<1>4. ASSUME NEW t PROVE /\ WithTrb(F, n, t)[m].TransferBuffer = F[m].TransferBuffer
                         /\ WithTrb(F, n, t)[m].TransferStarted = F[m].TransferStarted
                         /\ DOMAIN WithTrb(F, n, t) = Eps
  <2> HIDE DEF F
  <2>1. F[m] \in Endpoint
    BY <1>1 DEF EndpointTable
  <2>2. /\ [F[m] EXCEPT !.Trb = t].TransferBuffer = F[m].TransferBuffer
        /\ [F[m] EXCEPT !.Trb = t].TransferStarted = F[m].TransferStarted
    BY <2>1 DEF Endpoint
  <2>3. WithTrb(F, n, t)[m] \in {F[m], [F[m] EXCEPT !.Trb = t]} /\ DOMAIN WithTrb(F, n, t) = Eps
    BY <1>1 DEF WithTrb, EndpointTable
  <2> QED BY <2>2, <2>3
<1>5. StartTransfer(E, n, type, id, ok)[m] \in
         {WithTrb(F, n, [type |-> type, hwo |-> TRUE])[m], WithTrb(F, n, ZeroTrb)[m]}
  BY <1>4 DEF StartTransfer
<1> HIDE DEF F
<1> QED BY <1>3, <1>4, <1>5

\* After a STARTTRANSFER that failed the endpoint does not wait.
LEMMA StartTransferFails ==
    ASSUME NEW E \in EndpointTable, NEW n \in Eps, NEW type \in TrbTypes,
           NEW id \in Buffers, NEW ok \in BOOLEAN, n \in Bulk, ~ok
    PROVE  ~StartTransfer(E, n, type, id, ok)[n].TransferStarted
<1> DEFINE F == EndTransfer(E, n)
<1>1. F \in EndpointTable /\ F[n] = Ended(E[n]) /\ E[n] \in Endpoint
  <2>1. n # EP0_IN
    BY DEF Bulk, EP0_IN
  <2>2. F[n] = Ended(E[n])
    BY <2>1 DEF EndTransfer, EndpointTable
  <2> QED BY <2>2, EndTransferType DEF EndpointTable
<1>2. ~F[n].TransferStarted /\ F[n] \in Endpoint
  BY <1>1, EndedKept, EndedType
<1>3. Pool(n) = n
  BY DEF Pool, Bulk, EP0_IN
<1>4. StartTransfer(E, n, type, id, ok) = WithTrb(F, n, ZeroTrb)
  BY DEF StartTransfer
<1> HIDE DEF F
<1>5. WithTrb(F, n, ZeroTrb)[n] = [F[n] EXCEPT !.Trb = ZeroTrb]
  BY <1>1, <1>3 DEF WithTrb, EndpointTable
<1>6. [F[n] EXCEPT !.Trb = ZeroTrb].TransferStarted = F[n].TransferStarted
  BY <1>2 DEF Endpoint
<1> QED BY <1>2, <1>4, <1>5, <1>6

-----------------------------------------------------------------------------
(* What the operations do to the entry of a bulk endpoint.                  *)

\* Bulk endpoints are endpoints other than EP0, each with a pool of its own.
LEMMA BulkFacts ==
    \A n \in Bulk : n \in Eps /\ n # EP0_OUT /\ n # EP0_IN /\ Pool(n) = n
BY EpsFacts DEF Bulk, EP0_OUT, EP0_IN, Pool

\* The fields that tell how far a transfer is are the same.
SameWork(e, f) ==
    /\ f.Enabled <=> e.Enabled
    /\ f.TransferStarted <=> e.TransferStarted
    /\ f.ResourceIndex = e.ResourceIndex
    /\ f.TransferBuffer = e.TransferBuffer
    /\ f.ZeroLengthTermination <=> e.ZeroLengthTermination
    /\ f.Trb = e.Trb
    /\ f.run = e.run /\ f.id = e.id

\* The driver no longer waits; the controller may have been stopped.
Stopped(e, f) ==
    /\ ~f.TransferStarted
    /\ f.run \in {e.run, "idle"}
    /\ f.ZeroLengthTermination <=> e.ZeroLengthTermination

\* The driver no longer waits, and has stopped the controller if it could.
Ends(e, f) == Stopped(e, f) /\ (e.ResourceIndex # 0 => f.run = "idle")

\* Dwc3EndTransfer, also with what its callers clear after it.
LEMMA EndedEnds ==
    ASSUME NEW e \in Endpoint
    PROVE  /\ Ends(e, Ended(e))
           /\ Ends(e, [Ended(e) EXCEPT !.TransferBuffer = NULL])
           /\ Ends(e, [Ended(e) EXCEPT !.Enabled = FALSE, !.TransferBuffer = NULL])
           /\ Ends(e, [Ended(e) EXCEPT !.Trb = ZeroTrb])
           /\ Ends(e, [[Ended(e) EXCEPT !.Trb = ZeroTrb] EXCEPT !.TransferBuffer = NULL])
<1>1. Ended(e) \in Endpoint
  BY EndedType
<1>2. Ends(e, Ended(e))
  BY DEF Ends, Stopped, Ended, Endpoint
<1>3. ASSUME NEW g \in Endpoint, Ends(e, g)
      PROVE  /\ Ends(e, [g EXCEPT !.TransferBuffer = NULL])
             /\ Ends(e, [g EXCEPT !.Enabled = FALSE, !.TransferBuffer = NULL])
             /\ [g EXCEPT !.Trb = ZeroTrb] \in Endpoint /\ Ends(e, [g EXCEPT !.Trb = ZeroTrb])
  BY <1>3, ZeroEndpointType DEF Ends, Stopped, Endpoint
<1> QED BY <1>1, <1>2, <1>3

\* Dwc3EndTransfer touches no other bulk endpoint.
LEMMA BulkEndTransfer ==
    ASSUME NEW E \in EndpointTable, NEW n \in Eps, NEW m \in Bulk
    PROVE  EndTransfer(E, n)[m] = IF m = n THEN Ended(E[m]) ELSE E[m]
BY BulkFacts DEF EndTransfer, EndpointTable

\* Dwc3StartTransfer on EP0 touches no bulk endpoint.
LEMMA BulkEp0Start ==
    ASSUME NEW E \in EndpointTable, NEW n \in {EP0_OUT, EP0_IN}, NEW type, NEW id, NEW ok \in BOOLEAN,
           NEW m \in Bulk
    PROVE  StartTransfer(E, n, type, id, ok)[m] = E[m]
<1> DEFINE F == EndTransfer(E, n)
<1>1. F \in EndpointTable /\ F[m] = E[m] /\ n \in Eps /\ Pool(n) \in Eps /\ m # n /\ m # Pool(n)
      /\ m \in Eps
  BY EndTransferType, BulkEndTransfer, BulkFacts, EpsFacts DEF Pool
<1> HIDE DEF F
<1>2. \A t : WithTrb(F, n, t)[m] = E[m] /\ DOMAIN WithTrb(F, n, t) = Eps
  BY <1>1 DEF WithTrb, EndpointTable
<1>3. \A G, x : DOMAIN G = Eps => [G EXCEPT ![n] = x][m] = G[m]
  BY <1>1
<1> QED BY <1>2, <1>3 DEF StartTransfer, F

\* Dwc3Ep0OutStart and Dwc3Ep0StallAndRestart touch no bulk endpoint.
LEMMA BulkEp0Armed ==
    ASSUME NEW E \in EndpointTable, NEW ok \in BOOLEAN, NEW m \in Bulk
    PROVE  Ep0Armed(E, ok)[m] = E[m] /\ Ep0Unstalled(E)[m] = E[m]
<1> DEFINE F == EndTransfer(E, EP0_IN)
           G == EndTransfer(F, EP0_OUT)
<1>1. F \in EndpointTable /\ F[m] = E[m]
  BY EndTransferType, BulkEndTransfer, BulkFacts, EpsFacts
<1>2. G \in EndpointTable /\ G[m] = F[m]
  BY <1>1, EndTransferType, BulkEndTransfer, BulkFacts, EpsFacts
<1>3. Ep0Armed(E, ok) = StartTransfer(G, EP0_OUT, "setup", NULL, ok)
  BY DEF Ep0Armed, Ep0Ended
<1> HIDE DEF F, G
<1>4. Ep0Armed(E, ok)[m] = E[m]
  BY <1>1, <1>2, <1>3, BulkEp0Start
<1>5. Ep0Unstalled(E)[m] = E[m]
  BY BulkFacts, EpsFacts DEF Ep0Unstalled, EndpointTable
<1> QED BY <1>4, <1>5

\* The TRB of the entry is one of this type that the controller owns.
Owns(e, type) == e.Trb = [type |-> type, hwo |-> TRUE]

\* What Dwc3Transfer makes of the entry when STARTTRANSFER succeeds.
Begins(e, f, type, id) ==
    /\ f.TransferStarted /\ f.ResourceIndex = 1 /\ f.Trb.hwo /\ Owns(f, type)
    /\ f.run = type /\ f.id = id /\ f.TransferBuffer = id
    /\ f.Enabled <=> e.Enabled
    /\ f.ZeroLengthTermination <=> e.ZeroLengthTermination

\* The table after Dwc3Transfer: the endpoint remembers the buffer, or none.
Submitted(E, n, type, id, ok) ==
    [StartTransfer(E, n, type, id, ok) EXCEPT ![n].TransferBuffer = IF ok THEN id ELSE NULL]

\* Dwc3Transfer on a bulk endpoint: no other bulk endpoint is touched, and a
\* transfer that does not begin leaves the endpoint ended.
LEMMA BulkTransfer ==
    ASSUME NEW E \in EndpointTable, NEW n \in Bulk, NEW type \in TrbTypes, NEW id \in Buffers,
           NEW ok \in BOOLEAN, NEW m \in Bulk
    PROVE  /\ m # n => Submitted(E, n, type, id, ok)[m] = E[m]
           /\ ok => Begins(E[n], Submitted(E, n, type, id, ok)[n], type, id)
           /\ ~ok => Ends(E[n], Submitted(E, n, type, id, ok)[n])
<1> DEFINE T == Submitted(E, n, type, id, ok)
           F == EndTransfer(E, n)
           trb == [type |-> type, hwo |-> TRUE]
<1>1. /\ F \in EndpointTable /\ F[n] = Ended(E[n]) /\ n \in Eps /\ m \in Eps /\ Pool(n) = n
      /\ E[n] \in Endpoint /\ F[n] \in Endpoint
      /\ m # n => F[m] = E[m]
  BY EndTransferType, BulkEndTransfer, BulkFacts DEF EndpointTable
<1>2. StartTransfer(E, n, type, id, ok) =
         IF ok THEN [WithTrb(F, n, trb) EXCEPT ![n] = Running(WithTrb(F, n, trb)[n], type, id)]
               ELSE WithTrb(F, n, ZeroTrb)
  BY DEF StartTransfer
<1>3. ASSUME NEW e \in Endpoint PROVE e.Trb \in Trbs /\ trb.hwo
  BY DEF Endpoint
<1> HIDE DEF F
<1>4. ASSUME NEW t PROVE /\ WithTrb(F, n, t)[n] = [F[n] EXCEPT !.Trb = t]
                         /\ m # n => WithTrb(F, n, t)[m] = E[m]
                         /\ DOMAIN WithTrb(F, n, t) = Eps
  BY <1>1 DEF WithTrb, EndpointTable
<1>5. CASE ok
  <2> DEFINE g == Running([F[n] EXCEPT !.Trb = trb], type, id)
             f == [g EXCEPT !.TransferBuffer = id]
  <2>1. T[n] = f /\ (m # n => T[m] = E[m])
    BY <1>1, <1>2, <1>4, <1>5 DEF Submitted
  <2>2. (Ended(E[n]).Enabled <=> E[n].Enabled)
        /\ (Ended(E[n]).ZeroLengthTermination <=> E[n].ZeroLengthTermination)
    BY <1>1 DEF Ended, Endpoint
  <2>3. ASSUME NEW e \in Endpoint, NEW t
        PROVE  LET h == [Running([e EXCEPT !.Trb = t], type, id) EXCEPT !.TransferBuffer = id]
               IN  /\ h.TransferStarted /\ h.ResourceIndex = 1 /\ h.Trb = t
                   /\ h.run = type /\ h.id = id /\ h.TransferBuffer = id
                   /\ h.Enabled <=> e.Enabled
                   /\ h.ZeroLengthTermination <=> e.ZeroLengthTermination
    BY DEF Running, Endpoint
  <2>4. f.Trb = trb /\ trb.hwo /\ f.TransferStarted /\ f.ResourceIndex = 1
        /\ f.run = type /\ f.id = id /\ f.TransferBuffer = id
        /\ (f.Enabled <=> F[n].Enabled) /\ (f.ZeroLengthTermination <=> F[n].ZeroLengthTermination)
    BY <1>1, <2>3
  <2> HIDE DEF g, f
  <2>5. Owns(f, type)
    BY <2>4 DEF Owns
  <2> HIDE DEF trb
  <2>6. Begins(E[n], f, type, id)
    BY <1>1, <2>2, <2>4, <2>5 DEF Begins
  <2> QED BY <1>5, <2>1, <2>6
<1>6. CASE ~ok
  <2>1. T[n] = [[Ended(E[n]) EXCEPT !.Trb = ZeroTrb] EXCEPT !.TransferBuffer = NULL]
        /\ (m # n => T[m] = E[m])
    BY <1>1, <1>2, <1>4, <1>6 DEF Submitted
  <2> QED BY <1>1, <1>6, <2>1, EndedEnds
<1> QED BY <1>5, <1>6

\* Dwc3EnableEndpoint stops nothing, Dwc3DisableEndpoint ends the transfer, the
\* RESET event does so on enabled endpoints.
LEMMA BulkConfigured ==
    ASSUME NEW E \in EndpointTable, NEW S, NEW m \in Bulk
    PROVE  /\ EnableEndpoints(E, S)[m] = E[m] \/ Stopped(E[m], EnableEndpoints(E, S)[m])
           /\ (DisableAll(E)[m] = E[m] /\ ~E[m].Enabled) \/ Ends(E[m], DisableAll(E)[m])
           /\ (ResetTable(E, S)[m] = E[m] /\ ~E[m].Enabled) \/ Ends(E[m], ResetTable(E, S)[m])
<1>1. E[m] \in Endpoint /\ m \in Eps /\ m # EP0_OUT
  BY BulkFacts DEF EndpointTable
<1>2. Stopped(E[m], EnabledEndpoint(E[m], m))
  BY <1>1 DEF Stopped, EnabledEndpoint, Endpoint
<1>3. EnableEndpoints(E, S)[m] = E[m] \/ Stopped(E[m], EnableEndpoints(E, S)[m])
  BY <1>1, <1>2 DEF EnableEndpoints
<1>4. (DisableAll(E)[m] = E[m] /\ ~E[m].Enabled) \/ Ends(E[m], DisableAll(E)[m])
  BY <1>1, EndedEnds DEF DisableAll, DisabledEndpoint
<1>5. (ResetEndpoint(E[m], m, m \in S) = E[m] /\ ~E[m].Enabled)
      \/ Ends(E[m], ResetEndpoint(E[m], m, m \in S))
  <2> DEFINE c == IF E[m].Enabled /\ ~(m \in S) THEN [E[m] EXCEPT !.Stalled = FALSE] ELSE E[m]
  <2>1. CASE ~E[m].Enabled
    BY <1>1, <2>1 DEF ResetEndpoint
  <2>2. CASE E[m].Enabled
    <3>1. c \in Endpoint /\ SameWork(E[m], c)
      BY <1>1 DEF Endpoint, SameWork
    <3>2. ResetEndpoint(E[m], m, m \in S) = [Ended(c) EXCEPT !.TransferBuffer = NULL]
      BY <2>2 DEF ResetEndpoint
    <3> HIDE DEF c
    <3>3. Ends(c, ResetEndpoint(E[m], m, m \in S))
      BY <3>1, <3>2, EndedEnds
    <3> QED BY <3>1, <3>3 DEF Ends, Stopped, SameWork
  <2> QED BY <2>1, <2>2
<1>6. HaltsAndBulkReset(E, S) \in EndpointTable
      /\ HaltsAndBulkReset(E, S)[m] = ResetEndpoint(E[m], m, m \in S)
  <2>1. \A h : \A e \in Endpoint, n \in Eps : ResetEndpoint(e, n, h) \in Endpoint
    <3>1. \A e \in Endpoint : /\ [e EXCEPT !.Stalled = FALSE] \in Endpoint
                              /\ [e EXCEPT !.TransferBuffer = NULL] \in Endpoint
      BY NullBuffer DEF Endpoint
    <3> QED BY <3>1, EndedType DEF ResetEndpoint
  <2> QED BY <1>1, <2>1 DEF HaltsAndBulkReset, EndpointTable
<1>7. ResetTable(E, S)[m] = ResetEndpoint(E[m], m, m \in S)
  BY <1>6, BulkEndTransfer, BulkFacts, EpsFacts DEF ResetTable
<1> QED BY <1>3, <1>4, <1>5, <1>7

\* One round of Dwc3ResetNonControlEndpoints ends the transfer it finds, and
\* configures an idle endpoint.
LEMMA BulkReconfigure ==
    ASSUME NEW E \in EndpointTable, NEW n \in Bulk, NEW ok \in BOOLEAN, NEW m \in Bulk
    PROVE  /\ m # n => Reconfigure(E, n, ok)[m] = E[m]
           /\ \/ Reconfigure(E, n, ok)[n] = E[n] /\ ~AbortsTransfer(E, n)
              \/ Stopped(E[n], Reconfigure(E, n, ok)[n])
           /\ AbortsTransfer(E, n) => Ends(E[n], Reconfigure(E, n, ok)[n])
<1> DEFINE a == [Ended(E[n]) EXCEPT !.TransferBuffer = NULL]
           g == IF AbortsTransfer(E, n) THEN a ELSE E[n]
<1>1. E[n] \in Endpoint /\ n \in Eps /\ m \in Eps
  BY BulkFacts DEF EndpointTable
<1>2. Ended(E[n]) \in Endpoint /\ Ends(E[n], a)
  BY <1>1, EndedType, EndedEnds
<1>3. a \in Endpoint
  BY <1>2, NullBuffer DEF Endpoint
<1>4. Reconfigure(E, n, ok) = [E EXCEPT ![n] = IF E[n].Enabled /\ ok THEN EnabledEndpoint(g, n) ELSE g]
  BY DEF Reconfigure
<1>5. ASSUME NEW e \in Endpoint PROVE Stopped(e, EnabledEndpoint(e, n)) /\ EnabledEndpoint(e, n).run = e.run
  BY DEF Stopped, EnabledEndpoint, Endpoint
<1> HIDE DEF a
<1>6. ASSUME AbortsTransfer(E, n) PROVE Ends(E[n], Reconfigure(E, n, ok)[n])
  <2>1. g = a
    BY <1>6
  <2>2. Ends(E[n], EnabledEndpoint(a, n))
    BY <1>2, <1>3, <1>5 DEF Ends, Stopped
  <2> HIDE DEF g
  <2> QED BY <1>1, <1>2, <1>4, <2>1, <2>2 DEF EndpointTable
<1>7. ASSUME ~AbortsTransfer(E, n)
      PROVE  Reconfigure(E, n, ok)[n] = E[n] \/ Stopped(E[n], Reconfigure(E, n, ok)[n])
  <2>1. g = E[n]
    BY <1>7
  <2> HIDE DEF g
  <2> QED BY <1>1, <1>4, <1>5, <2>1 DEF EndpointTable
<1>8. m # n => Reconfigure(E, n, ok)[m] = E[m]
  BY <1>1, <1>4 DEF EndpointTable
<1> QED BY <1>6, <1>7, <1>8 DEF Ends

\* Dwc3SetHalt.
LEMMA BulkHalt ==
    ASSUME NEW E \in EndpointTable, NEW n \in Bulk, NEW stall, NEW ok, NEW m \in Bulk
    PROVE  SameWork(E[m], SetHalt(E, n, stall, ok)[m])
<1>1. E[m] \in Endpoint /\ n \in Eps
  BY BulkFacts DEF EndpointTable
<1>2. \A x : SameWork(E[m], [E[m] EXCEPT !.Stalled = x]) /\ SameWork(E[m], E[m])
  BY <1>1 DEF SameWork, Endpoint
<1>3. \E x : SetHalt(E, n, stall, ok)[m] \in {E[m], [E[m] EXCEPT !.Stalled = x]}
  BY <1>1, BulkFacts DEF SetHalt, EndpointTable
<1> QED BY <1>2, <1>3

\* The controller leaves the driver's fields alone, gives the TRB back, and
\* runs what is left.
Releases(e, f, run) ==
    /\ f.Enabled <=> e.Enabled
    /\ f.TransferStarted <=> e.TransferStarted
    /\ f.ResourceIndex = e.ResourceIndex
    /\ f.TransferBuffer = e.TransferBuffer
    /\ f.ZeroLengthTermination <=> e.ZeroLengthTermination
    /\ ~f.Trb.hwo
    /\ f.run = run /\ (run # "idle" => f.id = e.id)

\* The controller's own steps on a bulk endpoint.
LEMMA BulkHardware ==
    ASSUME NEW E \in EndpointTable, NEW n \in Eps, NEW m \in Bulk
    PROVE  /\ m # n => Completed(E, n)[m] = E[m]
           /\ m = n => Releases(E[m], Completed(E, n)[m], "idle")
           /\ n \in Bulk /\ m # n => PayloadMoved(E, n)[m] = E[m]
           /\ m = n => Releases(E[m], PayloadMoved(E, n)[m], "zlp")
<1>1. E[m] \in Endpoint /\ m \in Eps /\ Pool(n) \in Eps /\ (m # n => m # Pool(n))
      /\ (m = n => Pool(n) = m)
  BY BulkFacts, EpsFacts DEF EndpointTable, Pool
<1>2. ASSUME NEW e \in Endpoint
      PROVE  /\ Released(e) \in Endpoint
             /\ Releases(e, Idled(Released(e)), "idle")
             /\ Releases(e, [Released(e) EXCEPT !.run = "zlp"], "zlp")
  <2>1. Released(e) \in Endpoint /\ ~Released(e).Trb.hwo
    BY DEF Released, Endpoint, Trbs
  <2>2. /\ Released(e).Enabled <=> e.Enabled
        /\ Released(e).TransferStarted <=> e.TransferStarted
        /\ Released(e).ResourceIndex = e.ResourceIndex
        /\ Released(e).TransferBuffer = e.TransferBuffer
        /\ Released(e).ZeroLengthTermination <=> e.ZeroLengthTermination
        /\ Released(e).id = e.id
    BY DEF Released, Endpoint
  <2>3. ASSUME NEW g \in Endpoint, ~g.Trb.hwo
        PROVE  Releases(g, Idled(g), "idle") /\ Releases(g, [g EXCEPT !.run = "zlp"], "zlp")
    BY <2>3 DEF Releases, Idled, Endpoint
  <2> QED BY <2>1, <2>2, <2>3 DEF Releases
<1>3. m = n => Completed(E, n)[m] = Idled(Released(E[m]))
  BY <1>1 DEF Completed, EndpointTable
<1>4. m # n => Completed(E, n)[m] = E[m]
  BY <1>1 DEF Completed, EndpointTable
<1>5. m = n => PayloadMoved(E, n)[m] = [Released(E[m]) EXCEPT !.run = "zlp"]
  BY <1>1 DEF PayloadMoved, EndpointTable
<1>6. m # n => PayloadMoved(E, n)[m] = E[m]
  BY <1>1 DEF PayloadMoved, EndpointTable
<1> QED BY <1>1, <1>2, <1>3, <1>4, <1>5, <1>6

-----------------------------------------------------------------------------
(* What the operations do to the entries of EP0.                            *)

\* How far the driver and the controller are with an endpoint: nothing is
\* going on, the controller is done and its event not yet taken, it executes a
\* TRB that the driver can end, or the driver has lost hold of it.
Stage(e) ==
    IF e.run = "idle" THEN (IF e.TransferStarted THEN "done" ELSE "quiet")
    ELSE IF e.TransferStarted /\ e.ResourceIndex # 0 THEN e.run ELSE "lost"

\* The stage and the configuration of the endpoint are the same.
Like(e, f) == Stage(f) = Stage(e) /\ (f.Enabled <=> e.Enabled)

\* Fields that say nothing of the stage.
LEMMA LikeFields ==
    ASSUME NEW e \in Endpoint
    PROVE  /\ Like(e, e) /\ Like(e, Released(e))
           /\ \A t : Like(e, [e EXCEPT !.Trb = t])
           /\ \A t : Like(e, [e EXCEPT !.Stalled = t])
           /\ \A t : Like(e, [e EXCEPT !.TransferBuffer = t])
<1>1. /\ \A t : Like(e, [e EXCEPT !.Trb = t])
      /\ \A t : Like(e, [e EXCEPT !.Stalled = t])
      /\ \A t : Like(e, [e EXCEPT !.TransferBuffer = t])
  BY DEF Like, Stage, Endpoint
<1>2. \E t : Released(e) = [e EXCEPT !.Trb = t]
  BY DEF Released, Endpoint
<1> QED BY <1>1, <1>2 DEF Like

\* Ended by the driver.
LEMMA EndedStage ==
    ASSUME NEW e \in Endpoint
    PROVE  /\ Stage(e) # "lost" => Stage(Ended(e)) = "quiet"
           /\ Ended(e).Enabled <=> e.Enabled
BY DEF Stage, Ended, Endpoint

\* The driver takes the event, and the controller is done.
LEMMA TakenStage ==
    ASSUME NEW e \in Endpoint
    PROVE  /\ e.run = "idle" => Stage([e EXCEPT !.TransferStarted = FALSE]) = "quiet"
           /\ [e EXCEPT !.TransferStarted = FALSE].Enabled <=> e.Enabled
           /\ e.TransferStarted => Stage(Idled(e)) = "done"
           /\ Idled(e).Enabled <=> e.Enabled
BY DEF Stage, Idled, Endpoint

\* The other direction of EP0.
Ep0Other(n) == IF n = EP0_OUT THEN EP0_IN ELSE EP0_OUT

\* The two directions are endpoints, and not the same one.
LEMMA Ep0Pair ==
    ASSUME NEW n \in {EP0_OUT, EP0_IN}
    PROVE  /\ n \in Eps /\ Ep0Other(n) \in Eps /\ Ep0Other(n) # n /\ Pool(n) = EP0_OUT
           /\ Ep0Other(n) \in {EP0_OUT, EP0_IN} /\ EP0_OUT # EP0_IN
           /\ n \notin Bulk
BY EpsFacts, BulkFacts DEF Ep0Other, EP0_OUT, EP0_IN, Pool

\* Dwc3EndTransfer on one direction, which does not disturb the other.
LEMMA Ep0EndTransfer ==
    ASSUME NEW E \in EndpointTable, NEW n \in {EP0_OUT, EP0_IN}, Stage(E[n]) # "lost"
    PROVE  /\ EndTransfer(E, n) \in EndpointTable
           /\ Stage(EndTransfer(E, n)[n]) = "quiet"
           /\ EndTransfer(E, n)[n].Enabled <=> E[n].Enabled
           /\ Like(E[Ep0Other(n)], EndTransfer(E, n)[Ep0Other(n)])
<1>1. E[n] \in Endpoint /\ E[Ep0Other(n)] \in Endpoint
  BY Ep0Pair DEF EndpointTable
<1>2. EndTransfer(E, n)[n] = Ended(E[n])
  BY Ep0Pair DEF EndTransfer, EndpointTable
<1>3. \/ EndTransfer(E, n)[Ep0Other(n)] = E[Ep0Other(n)]
      \/ EndTransfer(E, n)[Ep0Other(n)] = [E[Ep0Other(n)] EXCEPT !.Trb = ZeroTrb]
  <2>1. CASE n = EP0_IN /\ E[n].ResourceIndex # 0
    <3>1. Ep0Other(n) = EP0_OUT /\ EP0_OUT # EP0_IN
      BY <2>1, Ep0Pair DEF Ep0Other
    <3> QED BY <2>1, <3>1, EpsFacts DEF EndTransfer, EndpointTable
  <2>2. CASE ~(n = EP0_IN /\ E[n].ResourceIndex # 0)
    BY <2>2, Ep0Pair DEF EndTransfer, EndpointTable
  <2> QED BY <2>1, <2>2
<1>4. Like(E[Ep0Other(n)], EndTransfer(E, n)[Ep0Other(n)])
  BY <1>1, <1>3, LikeFields
<1>5. n \in Eps
  BY Ep0Pair
<1> QED BY <1>1, <1>2, <1>4, <1>5, EndedStage, EndTransferType

\* Dwc3StartTransfer on one direction, when STARTTRANSFER succeeds.
LEMMA Ep0StartTransfer ==
    ASSUME NEW E \in EndpointTable, NEW n \in {EP0_OUT, EP0_IN}, Stage(E[n]) # "lost",
           NEW type \in {"setup", "data", "status"}, NEW id \in Buffers
    PROVE  /\ StartTransfer(E, n, type, id, TRUE) \in EndpointTable
           /\ Stage(StartTransfer(E, n, type, id, TRUE)[n]) = type
           /\ StartTransfer(E, n, type, id, TRUE)[n].Enabled <=> E[n].Enabled
           /\ Like(E[Ep0Other(n)], StartTransfer(E, n, type, id, TRUE)[Ep0Other(n)])
<1> DEFINE F == EndTransfer(E, n)
           trb == [type |-> type, hwo |-> TRUE]
           G == WithTrb(F, n, trb)
           m == Ep0Other(n)
<1>1. /\ F \in EndpointTable /\ (F[n].Enabled <=> E[n].Enabled) /\ Like(E[m], F[m])
  BY Ep0EndTransfer
<1>2. n \in Eps /\ m \in Eps /\ m # n /\ Pool(n) \in Eps /\ type \in TrbTypes
  BY Ep0Pair, EpsFacts DEF TrbTypes
<1>3. StartTransfer(E, n, type, id, TRUE) = [G EXCEPT ![n] = Running(G[n], type, id)]
  BY DEF StartTransfer
<1> HIDE DEF F
<1>4. ASSUME NEW k \in Eps PROVE G[k] \in {F[k], [F[k] EXCEPT !.Trb = trb]}
  BY <1>1, <1>2, <1>4 DEF WithTrb, EndpointTable
<1>5. DOMAIN G = Eps
  BY <1>1 DEF WithTrb, EndpointTable
<1>6. trb \in Trbs
  BY <1>2 DEF Trbs
<1>7. ASSUME NEW k \in Eps PROVE G[k] \in Endpoint /\ Like(F[k], G[k])
  <2>1. F[k] \in Endpoint
    BY <1>1, <1>7 DEF EndpointTable
  <2>2. [F[k] EXCEPT !.Trb = trb] \in Endpoint
    BY <1>6, <2>1 DEF Endpoint
  <2> HIDE DEF G
  <2>3. Like(F[k], F[k]) /\ Like(F[k], [F[k] EXCEPT !.Trb = trb])
    BY <2>1, LikeFields
  <2> QED BY <1>4, <1>7, <2>1, <2>2, <2>3
<1> HIDE DEF G, m
<1>8. ASSUME NEW e \in Endpoint
      PROVE  Stage(Running(e, type, id)) = type /\ (Running(e, type, id).Enabled <=> e.Enabled)
  BY DEF Running, Stage, Endpoint
<1>9. /\ [G EXCEPT ![n] = Running(G[n], type, id)][n] = Running(G[n], type, id)
      /\ [G EXCEPT ![n] = Running(G[n], type, id)][m] = G[m]
  BY <1>2, <1>5
<1>10. StartTransfer(E, n, type, id, TRUE) \in EndpointTable
  BY <1>2, StartTransferType
<1>11. StartTransfer(E, n, type, id, TRUE)[n] = Running(G[n], type, id)
       /\ StartTransfer(E, n, type, id, TRUE)[m] = G[m]
  BY <1>3, <1>9
<1>12. /\ Stage(Running(G[n], type, id)) = type
       /\ Running(G[n], type, id).Enabled <=> E[n].Enabled
  BY <1>1, <1>2, <1>7, <1>8 DEF Like
<1>13. Like(E[m], G[m])
  BY <1>1, <1>2, <1>7 DEF Like
<1> QED BY <1>10, <1>11, <1>12, <1>13 DEF m

\* Dwc3Ep0OutStart.
LEMMA Ep0ArmedStages ==
    ASSUME NEW E \in EndpointTable, Stage(E[EP0_OUT]) # "lost", Stage(E[EP0_IN]) # "lost"
    PROVE  /\ Ep0Ended(E) \in EndpointTable
           /\ Stage(Ep0Ended(E)[EP0_OUT]) = "quiet"
           /\ Stage(Ep0Armed(E, TRUE)[EP0_OUT]) = "setup"
           /\ Stage(Ep0Armed(E, TRUE)[EP0_IN]) = "quiet"
           /\ Ep0Armed(E, TRUE)[EP0_OUT].Enabled <=> E[EP0_OUT].Enabled
           /\ Ep0Armed(E, TRUE)[EP0_IN].Enabled <=> E[EP0_IN].Enabled
<1> DEFINE F == EndTransfer(E, EP0_IN)
           G == EndTransfer(F, EP0_OUT)
<1>1. Ep0Other(EP0_IN) = EP0_OUT /\ Ep0Other(EP0_OUT) = EP0_IN
  BY DEF Ep0Other, EP0_IN, EP0_OUT
<1>2. /\ F \in EndpointTable /\ Stage(F[EP0_IN]) = "quiet" /\ (F[EP0_IN].Enabled <=> E[EP0_IN].Enabled)
      /\ Like(E[EP0_OUT], F[EP0_OUT])
  BY <1>1, Ep0EndTransfer
<1> HIDE DEF F
<1>3. /\ G \in EndpointTable /\ Stage(G[EP0_OUT]) = "quiet" /\ (G[EP0_OUT].Enabled <=> F[EP0_OUT].Enabled)
      /\ Like(F[EP0_IN], G[EP0_IN])
  BY <1>1, <1>2, Ep0EndTransfer DEF Like
<1>4. Ep0Ended(E) = G /\ Ep0Armed(E, TRUE) = StartTransfer(G, EP0_OUT, "setup", NULL, TRUE)
  BY DEF Ep0Ended, Ep0Armed, F
<1> HIDE DEF G
<1>5. /\ Stage(Ep0Armed(E, TRUE)[EP0_OUT]) = "setup"
      /\ Ep0Armed(E, TRUE)[EP0_OUT].Enabled <=> G[EP0_OUT].Enabled
      /\ Like(G[EP0_IN], Ep0Armed(E, TRUE)[EP0_IN])
  <2>1. Stage(G[EP0_OUT]) # "lost"
    BY <1>3
  <2>2. /\ Stage(StartTransfer(G, EP0_OUT, "setup", NULL, TRUE)[EP0_OUT]) = "setup"
        /\ StartTransfer(G, EP0_OUT, "setup", NULL, TRUE)[EP0_OUT].Enabled <=> G[EP0_OUT].Enabled
        /\ Like(G[Ep0Other(EP0_OUT)], StartTransfer(G, EP0_OUT, "setup", NULL, TRUE)[Ep0Other(EP0_OUT)])
    BY <1>3, <2>1, NullBuffer, Ep0StartTransfer
  <2> QED BY <1>1, <1>4, <2>2
<1> QED BY <1>2, <1>3, <1>4, <1>5 DEF Like

\* STARTTRANSFER is accepted on an endpoint the driver has hold of.
LEMMA Ep0Starts ==
    ASSUME NEW E, NEW n, Stage(E[n]) # "lost", "start" \notin CmdFails
    PROVE  StartResults(E, n) = {TRUE}
BY DEF Stage, StartResults, Startable, CmdResults

\* Dwc3EnableEndpoint on EP0, with no transfer going on; on others, EP0 is
\* not touched.
LEMMA Ep0Enabled ==
    ASSUME NEW E \in EndpointTable, NEW S, NEW n \in {EP0_OUT, EP0_IN}
    PROVE  /\ n \in S => EnableEndpoints(E, S)[n].Enabled
           /\ E[n].Enabled => EnableEndpoints(E, S)[n].Enabled
           /\ Stage(E[n]) = "quiet" => Stage(EnableEndpoints(E, S)[n]) = "quiet"
           /\ n \notin S => EnableEndpoints(E, S)[n] = E[n]
<1>1. n \in Eps /\ E[n] \in Endpoint
  BY Ep0Pair DEF EndpointTable
<1>2. EnabledEndpoint(E[n], n).Enabled
      /\ (Stage(E[n]) = "quiet" => Stage(EnabledEndpoint(E[n], n)) = "quiet")
  <2>1. ASSUME NEW e \in Endpoint, NEW t
        PROVE  LET f == [e EXCEPT !.Enabled = TRUE, !.Stalled = FALSE, !.TransferStarted = FALSE,
                                  !.ResourceIndex = 0, !.Trb = t]
               IN  f.Enabled /\ (Stage(e) = "quiet" => Stage(f) = "quiet")
    BY DEF Stage, Endpoint, RunTypes, TrbTypes
  <2>2. \E t : EnabledEndpoint(E[n], n) =
           [E[n] EXCEPT !.Enabled = TRUE, !.Stalled = FALSE, !.TransferStarted = FALSE,
                        !.ResourceIndex = 0, !.Trb = t]
    BY DEF EnabledEndpoint
  <2> QED BY <1>1, <2>1, <2>2
<1> QED BY <1>1, <1>2 DEF EnableEndpoints

\* Dwc3StopController leaves nothing going on.
LEMMA Ep0Disabled ==
    ASSUME NEW E \in EndpointTable, NEW n \in {EP0_OUT, EP0_IN},
           Stage(E[n]) = "quiet" \/ (E[n].Enabled /\ Stage(E[n]) # "lost")
    PROVE  Stage(DisableAll(E)[n]) = "quiet"
<1>1. n \in Eps /\ E[n] \in Endpoint
  BY Ep0Pair DEF EndpointTable
<1> DEFINE f == DisabledEndpoint(E[n])
<1>2. Stage(f) = "quiet" /\ f \in Endpoint
  <2>1. CASE ~E[n].Enabled
    BY <1>1, <2>1 DEF DisabledEndpoint
  <2>2. CASE E[n].Enabled
    <3>1. Ended(E[n]) \in Endpoint /\ Stage(Ended(E[n])) = "quiet"
      BY <1>1, EndedType, EndedStage
    <3>2. ASSUME NEW g \in Endpoint, Stage(g) = "quiet"
          PROVE  [g EXCEPT !.Enabled = FALSE, !.TransferBuffer = NULL] \in Endpoint
                 /\ Stage([g EXCEPT !.Enabled = FALSE, !.TransferBuffer = NULL]) = "quiet"
      BY <3>2, NullBuffer DEF Stage, Endpoint
    <3> QED BY <2>2, <3>1, <3>2 DEF DisabledEndpoint
  <2> QED BY <2>1, <2>2
<1>3. DisableAll(E)[n] \in {f, [f EXCEPT !.Trb = ZeroTrb]}
  BY <1>1 DEF DisableAll
<1> HIDE DEF f
<1>4. Like(f, f) /\ Like(f, [f EXCEPT !.Trb = ZeroTrb])
  BY <1>2, LikeFields
<1> QED BY <1>2, <1>3, <1>4 DEF Like

\* The RESET event ends EP0 IN and leaves EP0 OUT as it is.
LEMMA Ep0ResetStages ==
    ASSUME NEW E \in EndpointTable, NEW S, Stage(E[EP0_IN]) # "lost"
    PROVE  /\ Like(E[EP0_OUT], ResetTable(E, S)[EP0_OUT])
           /\ Stage(ResetTable(E, S)[EP0_IN]) = "quiet"
           /\ ResetTable(E, S)[EP0_IN].Enabled <=> E[EP0_IN].Enabled
<1> DEFINE F == HaltsAndBulkReset(E, S)
<1>1. EP0_IN \in Eps /\ EP0_OUT \in Eps /\ EP0_IN \notin Bulk /\ EP0_OUT \notin Bulk
      /\ Ep0Other(EP0_IN) = EP0_OUT
  BY EpsFacts, BulkFacts DEF Ep0Other, EP0_IN, EP0_OUT
<1>2. F \in EndpointTable
  <2>1. \A e \in Endpoint : /\ [e EXCEPT !.Stalled = FALSE] \in Endpoint
                            /\ [e EXCEPT !.TransferBuffer = NULL] \in Endpoint
    BY NullBuffer DEF Endpoint
  <2>2. \A h : \A e \in Endpoint, n \in Eps : ResetEndpoint(e, n, h) \in Endpoint
    BY <2>1, EndedType DEF ResetEndpoint
  <2> QED BY <2>2 DEF HaltsAndBulkReset, EndpointTable
<1>3. ASSUME NEW n \in {EP0_OUT, EP0_IN} PROVE Like(E[n], F[n])
  <2>1. E[n] \in Endpoint /\ n \in Eps /\ n \notin Bulk
    BY <1>1 DEF EndpointTable
  <2>2. F[n] = ResetEndpoint(E[n], n, n \in S)
    BY <2>1 DEF HaltsAndBulkReset
  <2>3. ResetEndpoint(E[n], n, n \in S) \in {E[n], [E[n] EXCEPT !.Stalled = FALSE]}
    BY <2>1 DEF ResetEndpoint
  <2> QED BY <2>1, <2>2, <2>3, LikeFields
<1>4. ResetTable(E, S) = EndTransfer(F, EP0_IN)
  BY DEF ResetTable
<1> HIDE DEF F
<1>5. Stage(F[EP0_IN]) # "lost"
  BY <1>3 DEF Like
<1>6. /\ Stage(EndTransfer(F, EP0_IN)[EP0_IN]) = "quiet"
      /\ EndTransfer(F, EP0_IN)[EP0_IN].Enabled <=> F[EP0_IN].Enabled
      /\ Like(F[EP0_OUT], EndTransfer(F, EP0_IN)[EP0_OUT])
  BY <1>1, <1>2, <1>5, Ep0EndTransfer
<1> QED BY <1>3, <1>4, <1>6 DEF Like

\* The controller is done with one direction, or the driver takes its event.
LEMMA Ep0Completed ==
    ASSUME NEW E \in EndpointTable, NEW n \in {EP0_OUT, EP0_IN}
    PROVE  /\ E[n].TransferStarted => Stage(Completed(E, n)[n]) = "done"
           /\ Completed(E, n)[n].Enabled <=> E[n].Enabled
           /\ Like(E[Ep0Other(n)], Completed(E, n)[Ep0Other(n)])
<1> DEFINE m == Ep0Other(n)
           F == [E EXCEPT ![EP0_OUT] = Released(E[EP0_OUT])]
<1>1. n \in Eps /\ m \in Eps /\ m # n /\ EP0_OUT \in Eps
  BY Ep0Pair, EpsFacts
<1>2. Completed(E, n) = [F EXCEPT ![n] = Idled(F[n])]
  BY Ep0Pair DEF Completed
<1>3. DOMAIN F = Eps /\ \A k \in Eps : F[k] \in {E[k], Released(E[k])}
  BY <1>1 DEF EndpointTable
<1> HIDE DEF F, m
<1>4. Completed(E, n)[n] = Idled(F[n]) /\ Completed(E, n)[m] = F[m]
  BY <1>1, <1>2, <1>3
<1>5. ASSUME NEW e \in Endpoint
      PROVE  Released(e) \in Endpoint /\ (Released(e).TransferStarted <=> e.TransferStarted)
  BY DEF Released, Endpoint, Trbs
<1>6. ASSUME NEW k \in Eps
      PROVE  F[k] \in Endpoint /\ Like(E[k], F[k]) /\ (F[k].TransferStarted <=> E[k].TransferStarted)
  <2>1. E[k] \in Endpoint
    BY DEF EndpointTable
  <2> QED BY <1>3, <1>5, <2>1, LikeFields
<1>7. /\ E[n].TransferStarted => Stage(Idled(F[n])) = "done"
      /\ Idled(F[n]).Enabled <=> F[n].Enabled
  BY <1>1, <1>6, TakenStage
<1>8. F[n].Enabled <=> E[n].Enabled
  BY <1>1, <1>6 DEF Like
<1> QED BY <1>1, <1>4, <1>6, <1>7, <1>8 DEF m

\* Operations on a bulk endpoint leave EP0 alone.
LEMMA Ep0Untouched ==
    ASSUME NEW E \in EndpointTable, NEW n \in Bulk, NEW m \in {EP0_OUT, EP0_IN}
    PROVE  /\ EndTransfer(E, n)[m] = E[m]
           /\ \A b : [EndTransfer(E, n) EXCEPT ![n].TransferBuffer = b][m] = E[m]
           /\ \A type, id, ok : Submitted(E, n, type, id, ok)[m] = E[m]
           /\ \A stall, ok : SetHalt(E, n, stall, ok)[m] = E[m]
           /\ \A z : [E EXCEPT ![n].ZeroLengthTermination = z][m] = E[m]
           /\ \A ok : Reconfigure(E, n, ok)[m] = E[m]
           /\ Completed(E, n)[m] = E[m]
           /\ PayloadMoved(E, n)[m] = E[m]
<1>1. n \in Eps /\ m \in Eps /\ m # n /\ Pool(n) = n /\ n # EP0_IN /\ n # EP0_OUT
  BY Ep0Pair, BulkFacts
<1>2. ASSUME NEW G, DOMAIN G = Eps, NEW x PROVE [G EXCEPT ![n] = x][m] = G[m] /\ DOMAIN [G EXCEPT ![n] = x] = Eps
  BY <1>1, <1>2
<1>3. DOMAIN E = Eps
  BY DEF EndpointTable
<1>4. EndTransfer(E, n)[m] = E[m] /\ DOMAIN EndTransfer(E, n) = Eps
  BY <1>1, <1>2, <1>3 DEF EndTransfer
<1>5. ASSUME NEW b PROVE [EndTransfer(E, n) EXCEPT ![n].TransferBuffer = b][m] = E[m]
  BY <1>1, <1>4
<1>6. ASSUME NEW t PROVE WithTrb(EndTransfer(E, n), n, t)[m] = E[m] /\ DOMAIN WithTrb(EndTransfer(E, n), n, t) = Eps
  BY <1>1, <1>4 DEF WithTrb
<1>7. ASSUME NEW type, NEW id, NEW ok PROVE StartTransfer(E, n, type, id, ok)[m] = E[m] /\ DOMAIN StartTransfer(E, n, type, id, ok) = Eps
  <2> DEFINE G == WithTrb(EndTransfer(E, n), n, [type |-> type, hwo |-> TRUE])
  <2>1. StartTransfer(E, n, type, id, ok) = IF ok THEN [G EXCEPT ![n] = Running(G[n], type, id)]
                                            ELSE WithTrb(EndTransfer(E, n), n, ZeroTrb)
    BY DEF StartTransfer
  <2>2. G[m] = E[m] /\ DOMAIN G = Eps
    BY <1>6
  <2> HIDE DEF G
  <2> QED BY <1>2, <1>6, <2>1, <2>2
<1>8. ASSUME NEW type, NEW id, NEW ok PROVE Submitted(E, n, type, id, ok)[m] = E[m]
  BY <1>1, <1>7 DEF Submitted
<1>9. ASSUME NEW stall, NEW ok PROVE SetHalt(E, n, stall, ok)[m] = E[m]
  BY <1>1, <1>3 DEF SetHalt
<1>10. ASSUME NEW z PROVE [E EXCEPT ![n].ZeroLengthTermination = z][m] = E[m]
  BY <1>1, <1>3
<1>11. ASSUME NEW ok PROVE Reconfigure(E, n, ok)[m] = E[m]
  BY <1>1, <1>2, <1>3 DEF Reconfigure
<1>12. Completed(E, n)[m] = E[m]
  BY <1>1, <1>2, <1>3 DEF Completed
<1>13. PayloadMoved(E, n)[m] = E[m]
  BY <1>1, <1>2, <1>3 DEF PayloadMoved
<1> QED BY <1>4, <1>5, <1>8, <1>9, <1>10, <1>11, <1>12, <1>13

\* What the stage tells of the driver's flag and of the controller.
LEMMA StageTells ==
    ASSUME NEW e \in Endpoint, Stage(e) # "lost"
    PROVE  /\ e.run = "idle" <=> Stage(e) \in {"quiet", "done"}
           /\ e.run # "idle" => Stage(e) = e.run
           /\ e.TransferStarted <=> Stage(e) # "quiet"
           /\ \A t \in {"setup", "data", "status"} : e.run = t <=> Stage(e) = t
BY DEF Stage, Endpoint, RunTypes, TrbTypes

\* The driver takes the event of one direction.
LEMMA Ep0TakenStages ==
    ASSUME NEW E \in EndpointTable, NEW n \in {EP0_OUT, EP0_IN}, Stage(E[n]) = "done"
    PROVE  LET F == [E EXCEPT ![n].TransferStarted = FALSE]
           IN  /\ F \in EndpointTable
               /\ Stage(F[n]) = "quiet" /\ (F[n].Enabled <=> E[n].Enabled)
               /\ F[Ep0Other(n)] = E[Ep0Other(n)]
<1>1. n \in Eps /\ Ep0Other(n) \in Eps /\ Ep0Other(n) # n /\ E[n] \in Endpoint
  BY Ep0Pair DEF EndpointTable
<1>2. E[n].run = "idle"
  BY <1>1, StageTells
<1>3. [E[n] EXCEPT !.TransferStarted = FALSE] \in Endpoint
  BY <1>1 DEF Endpoint
<1>4. [E EXCEPT ![n].TransferStarted = FALSE][n] = [E[n] EXCEPT !.TransferStarted = FALSE]
      /\ [E EXCEPT ![n].TransferStarted = FALSE][Ep0Other(n)] = E[Ep0Other(n)]
  BY <1>1 DEF EndpointTable
<1>5. [E EXCEPT ![n].TransferStarted = FALSE] \in EndpointTable
  BY <1>3 DEF EndpointTable
<1> QED BY <1>1, <1>2, <1>4, <1>5, TakenStage

-----------------------------------------------------------------------------
(* Every reachable state is well-formed, and the ring has room.             *)

\* While events are taken the ring is empty and the events counted at entry
\* are still in the buffer; in the SET_CONFIG loop it holds at most one result
\* per endpoint already visited.
QueueInv ==
    /\ pc = "events" => Messages = <<>> /\ Count \in 1 .. Len(EventBuffer)
    /\ pc = "config" => Index >= 2 /\ Len(Messages) <= Index - 2

IInv == TypeOK /\ QueueInv

-----------------------------------------------------------------------------
(* Values the actions build.                                                *)

\* The EP0 endpoints are endpoints.
LEMMA ControlEpsFacts == ControlEps \subseteq Eps
BY EpsFacts DEF ControlEps

\* Results of a command are Booleans.
LEMMA ResultsBoolean ==
    /\ \A c : CmdResults(c) \subseteq BOOLEAN
    /\ \A E, n : StartResults(E, n) \subseteq BOOLEAN
BY DEF CmdResults, StartResults

\* A zeroed SETUP packet is a packet.
LEMMA ZeroPacketType == ZeroPacket \in Packets
BY DriverAssumption DEF ZeroPacket, Packets, AllRequests

\* Every message the driver builds is a message.
LEMMA MessageTypes ==
    /\ \A t \in BusMessages : BusMessage(t) \in MessageSet
    /\ \A s \in Speeds : SpeedMessage(s) \in MessageSet
    /\ \A p \in Packets : SetupMessage(p) \in MessageSet
    /\ \A E \in EndpointTable, n \in Eps, s \in Statuses :
          TransferResult(E, n, s) \in MessageSet
<1>1. BlankMessage \in MessageSet
  BY NullBuffer, EpsFacts, ZeroPacketType
     DEF BlankMessage, MessageSet, BusMessages, Statuses, Speeds, EP0_OUT
<1>2. ASSUME NEW t \in BusMessages PROVE BusMessage(t) \in MessageSet
  BY <1>1 DEF BusMessage, MessageSet
<1>3. ASSUME NEW s \in Speeds PROVE SpeedMessage(s) \in MessageSet
  BY <1>1 DEF SpeedMessage, MessageSet, BusMessages
<1>4. ASSUME NEW p \in Packets PROVE SetupMessage(p) \in MessageSet
  BY <1>1 DEF SetupMessage, MessageSet
<1>5. ASSUME NEW E \in EndpointTable, NEW n \in Eps, NEW s \in Statuses
      PROVE  TransferResult(E, n, s) \in MessageSet
  <2>1. E[n].TransferBuffer \in Buffers
    BY DEF EndpointTable, Endpoint
  <2> QED BY <1>1, <2>1 DEF TransferResult, MessageSet
<1> QED BY <1>2, <1>3, <1>4, <1>5

\* Dwc3PushMessage adds at most one message.
LEMMA PushMessageType ==
    ASSUME NEW q \in Seq(MessageSet), NEW m \in MessageSet
    PROVE  /\ PushMessage(q, m) \in Seq(MessageSet)
           /\ Len(PushMessage(q, m)) <= Len(q) + 1
BY DEF PushMessage

\* Reporting a buffer keeps the history well-formed.
LEMMA TellType ==
    ASSUME NEW told \in [Buffers -> Told], NEW b \in Buffers, NEW s \in Statuses
    PROVE  Tell(told, b, s) \in [Buffers -> Told]
BY DEF Tell, Told, Statuses

\* An endpoint that accepts a buffer, or gives it up.
LEMMA BufferUpdate ==
    ASSUME NEW E \in EndpointTable, NEW n \in Eps, NEW b \in Buffers
    PROVE  [E EXCEPT ![n].TransferBuffer = b] \in EndpointTable
<1>1. \A e \in Endpoint : [e EXCEPT !.TransferBuffer = b] \in Endpoint
  BY DEF Endpoint
<1> QED BY <1>1 DEF EndpointTable

\* Dwc3Ep0OutStart leaves a well-formed table and well-formed EP0 fields.
LEMMA Ep0OutStartType ==
    ASSUME NEW E \in EndpointTable, ep0 \in Ep0Fields, Ep0OutStart(E)
    PROVE  Endpoints' \in EndpointTable /\ ep0' \in Ep0Fields
<1>1. Endpoints' \in EndpointTable
  BY Ep0ArmedType, ResultsBoolean DEF Ep0OutStart
<1>2. ep0' \in Ep0Fields
  BY DEF Ep0OutStart, Ep0Fields, Ep0States
<1> QED BY <1>1, <1>2

\* A host that gives its request up is still a host.
LEMMA IdleHostType == \A h \in HostViews : IdleHost(h) \in HostViews
BY DEF IdleHost, HostViews

\* Dwc3Ep0StallAndRestart.
LEMMA StallAndRestartType ==
    ASSUME NEW E \in EndpointTable, ep0 \in Ep0Fields, host \in HostViews,
           StallAndRestart(E)
    PROVE  Endpoints' \in EndpointTable /\ ep0' \in Ep0Fields /\ host' \in HostViews
<1>1. Ep0Unstalled(E) \in EndpointTable
  BY Ep0UnstalledType
<1>2. host' \in HostViews
  BY IdleHostType DEF StallAndRestart
<1> QED BY <1>1, <1>2, Ep0OutStartType DEF StallAndRestart

\* The tail of Dwc3Transfer.
LEMMA SubmitType ==
    ASSUME TypeOK, NEW E \in EndpointTable, NEW n \in Eps, NEW type \in TrbTypes,
           NEW ok \in BOOLEAN, NEW bounced \in BOOLEAN,
           xfers.next <= MaxXfers, Submit(E, n, type, ok, bounced)
    PROVE  Endpoints' \in EndpointTable /\ ep0' \in Ep0Fields /\ xfers' \in Histories
<1> DEFINE b == xfers.next
<1>1. b \in 1 .. MaxXfers /\ b \in Buffers
  BY EndpointAssumption DEF TypeOK, Histories, Buffers
<1>2. StartTransfer(E, n, type, b, ok) \in EndpointTable
  BY <1>1, StartTransferType
<1>3. Endpoints' \in EndpointTable
  <2>1. (IF ok THEN b ELSE NULL) \in Buffers
    BY <1>1, NullBuffer
  <2> QED BY <1>2, <2>1, BufferUpdate DEF Submit
<1>4. ep0' \in Ep0Fields
  BY <1>1 DEF Submit, TypeOK, Ep0Fields, BounceFlag
<1>5. xfers' \in Histories
  <2>1. xfers \in Histories
    BY DEF TypeOK
  <2>2. xfers.ep \in [Buffers -> Eps] /\ b + 1 \in 1 .. (MaxXfers + 1)
    BY <1>1, <2>1, EndpointAssumption DEF Histories
  <2>3. [xfers.ep EXCEPT ![b] = n] \in [Buffers -> Eps]
    BY <2>2
  <2>4. Accepted(n) \in Histories
    BY <2>1, <2>2, <2>3 DEF Accepted, Histories
  <2> QED BY <2>1, <2>4 DEF Submit
<1> QED BY <1>3, <1>4, <1>5

\* NextEvent takes one of the events counted at entry and keeps the queues'
\* invariant, whatever message list the handler leaves.
LEMMA NextEventInv ==
    ASSUME IInv, pc = "events", NEW q \in Seq(MessageSet), NextEvent(q)
    PROVE  /\ EventBuffer' \in Seq(Events) /\ Messages' \in Seq(MessageSet)
           /\ pc' \in {"client", "events", "config", "pop"}
           /\ Count' \in Nat /\ Index' \in 0 .. NumPhysicalEps
           /\ QueueInv'
<1>1. Len(EventBuffer) \in Nat /\ Count \in 1 .. Len(EventBuffer) /\ EventBuffer # <<>>
  BY DEF IInv, TypeOK, QueueInv
<1>2. Tail(EventBuffer) \in Seq(Events) /\ Len(Tail(EventBuffer)) = Len(EventBuffer) - 1
  BY <1>1 DEF IInv, TypeOK
<1>3. Count' \in Nat /\ (Count # 1 => Count' \in 1 .. Len(EventBuffer'))
  BY <1>1, <1>2 DEF NextEvent, EventsLeft
<1>4. QueueInv'
  BY <1>3 DEF NextEvent, QueueInv
<1> QED BY <1>2, <1>3, <1>4 DEF NextEvent, EventsLeft, IInv, TypeOK

\* The event at the head of the buffer.
LEMMA HeadEvent ==
    ASSUME IInv, pc = "events"
    PROVE  Head(EventBuffer) \in Events /\ EventEp \in Eps
<1>1. EventBuffer \in Seq(Events) /\ EventBuffer # <<>>
  BY DEF IInv, TypeOK, QueueInv
<1>2. Head(EventBuffer) \in Events
  BY <1>1
<1> QED BY <1>2 DEF EventEp, Events

-----------------------------------------------------------------------------
(* The calls of the client preserve the invariant.                          *)

\* StartController and StopController.
LEMMA StartStopInv ==
    ASSUME IInv, StartController \/ StopController
    PROVE  IInv'
<1>1. CASE StartController
  <2>1. \A e \in Endpoint :
           [e EXCEPT !.Enabled = FALSE, !.Stalled = FALSE, !.TransferStarted = FALSE,
                     !.run = "idle", !.id = NULL] \in Endpoint
    BY NullBuffer DEF Endpoint, RunTypes
  <2>2. Endpoints' \in EndpointTable
    BY <1>1, <2>1 DEF StartController, IInv, TypeOK, EndpointTable
  <2>3. ep0' \in Ep0Fields
    BY <1>1 DEF StartController, IInv, TypeOK, Ep0Fields, Ep0States
  <2>4. Messages' \in Seq(MessageSet) /\ EventBuffer' \in Seq(Events)
    <3>1. Messages' = <<>> /\ EventBuffer' = <<>>
      BY <1>1 DEF StartController
    <3> QED BY <3>1
  <2>5. QueueInv'
    BY <1>1 DEF StartController, QueueInv, call
  <2> QED
    BY <1>1, <2>2, <2>3, <2>4, <2>5
       DEF StartController, IInv, TypeOK, call, Speeds, LinkStates
<1>2. CASE StopController
  <2>1. Endpoints' \in EndpointTable
    BY <1>2, DisableAllType DEF StopController, IInv, TypeOK
  <2>2. host' \in HostViews
    BY <1>2, IdleHostType DEF StopController, IInv, TypeOK, HostViews
  <2>3. client' \in ClientViews
    BY <1>2 DEF StopController, IInv, TypeOK, ClientViews, FreshClient, Speeds
  <2>4. Messages' \in Seq(MessageSet) /\ EventBuffer' \in Seq(Events)
    BY <1>2 DEF StopController
  <2>5. QueueInv'
    BY <1>2 DEF StopController, QueueInv, call
  <2> QED
    BY <1>2, <2>1, <2>2, <2>3, <2>4, <2>5
       DEF StopController, IInv, TypeOK, call, Speeds
<1> QED BY <1>1, <1>2

\* ConfigureEnableEndpoints, whether or not every command succeeds.
LEMMA ConfigureInv ==
    ASSUME IInv, ConfigureEnableEndpoints \/ ConfigureFails
    PROVE  IInv'
<1>1. CASE ConfigureEnableEndpoints
  <2>1. Endpoints' \in EndpointTable /\ ep0' \in Ep0Fields
    BY <1>1, EnableEndpointsType, Ep0OutStartType
       DEF ConfigureEnableEndpoints, IInv, TypeOK
  <2> QED
    BY <1>1, <2>1 DEF ConfigureEnableEndpoints, IInv, TypeOK, QueueInv, bus, call
<1>2. CASE ConfigureFails
  <2>1. Endpoints' \in EndpointTable
    BY <1>2, EnableEndpointsType DEF ConfigureFails, IInv, TypeOK
  <2> QED
    BY <1>2, <2>1 DEF ConfigureFails, IInv, TypeOK, QueueInv, driver, call
<1> QED BY <1>1, <1>2

\* AbortTransfer, SetEndpointStallState, SetEndpointPolicy.
LEMMA EndpointCallInv ==
    ASSUME IInv,
           \/ \E n \in Eps : AbortTransfer(n)
           \/ \E n \in Bulk, b \in BOOLEAN : SetEndpointStallState(n, b)
           \/ \E n \in Bulk, b \in BOOLEAN : SetEndpointPolicy(n, b)
    PROVE  IInv'
<1>1. ASSUME NEW n \in Eps, AbortTransfer(n) PROVE IInv'
  <2>1. Endpoints' \in EndpointTable
    BY <1>1, EndTransferType, BufferUpdate, NullBuffer DEF AbortTransfer, IInv, TypeOK
  <2> QED
    BY <1>1, <2>1 DEF AbortTransfer, IInv, TypeOK, QueueInv, driver, call
<1>2. ASSUME NEW n \in Bulk, NEW b \in BOOLEAN, SetEndpointStallState(n, b) PROVE IInv'
  <2>1. Endpoints' \in EndpointTable
    BY <1>2, SetHaltType, ResultsBoolean, EpsFacts DEF SetEndpointStallState, IInv, TypeOK
  <2> QED
    BY <1>2, <2>1 DEF SetEndpointStallState, IInv, TypeOK, QueueInv, driver, call
<1>3. ASSUME NEW n \in Bulk, NEW b \in BOOLEAN, SetEndpointPolicy(n, b) PROVE IInv'
  <2>1. \A e \in Endpoint : [e EXCEPT !.ZeroLengthTermination = b] \in Endpoint
    BY DEF Endpoint
  <2>2. Endpoints' \in EndpointTable
    BY <1>3, <2>1, EpsFacts DEF SetEndpointPolicy, IInv, TypeOK, EndpointTable
  <2> QED
    BY <1>3, <2>2 DEF SetEndpointPolicy, IInv, TypeOK, QueueInv, driver, call
<1> QED BY <1>1, <1>2, <1>3

\* A client that no longer owes an answer.
LEMMA OwesNothing ==
    \A c \in ClientViews :
        /\ [c EXCEPT !.owes = "none"] \in ClientViews
        /\ [c EXCEPT !.owes = "none", !.configured = FALSE] \in ClientViews
BY DEF ClientViews

\* SetEndpointStallState on EP0.
LEMMA StallEp0Inv == ASSUME IInv, StallEp0 PROVE IInv'
<1>1. Endpoints' \in EndpointTable /\ ep0' \in Ep0Fields /\ host' \in HostViews
  BY StallAndRestartType DEF StallEp0, IInv, TypeOK
<1>2. client' \in ClientViews
  BY DEF StallEp0, IInv, TypeOK, ClientViews
<1> QED BY <1>1, <1>2 DEF StallEp0, IInv, TypeOK, QueueInv, driver, call

\* Transfer, on bulk endpoints and on EP0, accepted or refused.
LEMMA TransferInv ==
    ASSUME IInv,
           \/ \E n \in Bulk, aligned \in BOOLEAN : TransferBulk(n, aligned)
           \/ \E n \in ControlEps : TransferEp0(n)
           \/ TransferEp0TooLong
           \/ \E n \in ControlEps : TransferEp0Refused(n)
    PROVE  IInv'
<1>1. ASSUME NEW n \in Bulk, NEW aligned \in BOOLEAN, TransferBulk(n, aligned) PROVE IInv'
  <2>1. NormalTrb(Endpoints[n], n, aligned) \in TrbTypes
    BY DEF NormalTrb, TrbTypes
  <2>2. PICK ok \in StartResults(Endpoints, n) :
           Submit(Endpoints, n, NormalTrb(Endpoints[n], n, aligned), ok, FALSE)
    BY <1>1 DEF TransferBulk
  <2>3. Endpoints' \in EndpointTable /\ ep0' \in Ep0Fields /\ xfers' \in Histories
    BY <1>1, <2>1, <2>2, SubmitType, ResultsBoolean, EpsFacts DEF TransferBulk, IInv, TypeOK
  <2> QED
    BY <1>1, <2>3 DEF TransferBulk, IInv, TypeOK, QueueInv, driver, call
<1>2. ASSUME NEW n \in ControlEps, TransferEp0(n) PROVE IInv'
  <2>1. EndTransfer(Endpoints, n) \in EndpointTable /\ "data" \in TrbTypes /\ n \in Eps
    BY EndTransferType, ControlEpsFacts DEF IInv, TypeOK, TrbTypes
  <2>2. PICK ok \in StartResults(EndTransfer(Endpoints, n), n) :
           /\ Submit(EndTransfer(Endpoints, n), n, "data", ok, n = EP0_OUT)
           /\ client' = [client EXCEPT !.owes = IF ok THEN "none" ELSE client.owes]
    BY <1>2 DEF TransferEp0
  <2>3. ok \in BOOLEAN /\ (n = EP0_OUT) \in BOOLEAN
    BY <2>2, ResultsBoolean
  <2>4. TypeOK /\ xfers.next <= MaxXfers
    BY <1>2 DEF TransferEp0, IInv
  <2>5. Endpoints' \in EndpointTable /\ ep0' \in Ep0Fields /\ xfers' \in Histories
    BY <2>1, <2>2, <2>3, <2>4, SubmitType, Zenon
  <2>6. client' \in ClientViews
    BY <2>2 DEF IInv, TypeOK, ClientViews
  <2> QED
    BY <1>2, <2>5, <2>6 DEF TransferEp0, IInv, TypeOK, QueueInv, driver, call
<1>3. CASE TransferEp0TooLong
  <2>1. Endpoints' \in EndpointTable
    BY <1>3, EndTransferType, EpsFacts DEF TransferEp0TooLong, IInv, TypeOK
  <2>2. ep0' \in Ep0Fields
    BY <1>3 DEF TransferEp0TooLong, IInv, TypeOK, Ep0Fields
  <2> QED
    BY <1>3, <2>1, <2>2 DEF TransferEp0TooLong, IInv, TypeOK, QueueInv, driver, call
<1>4. ASSUME NEW n \in ControlEps, TransferEp0Refused(n) PROVE IInv'
  <2>1. ep0' \in Ep0Fields
    BY <1>4 DEF TransferEp0Refused, IInv, TypeOK, Ep0Fields
  <2>2. client' \in ClientViews
    BY <1>4, OwesNothing DEF TransferEp0Refused, IInv, TypeOK
  <2> QED
    BY <1>4, <2>1, <2>2 DEF TransferEp0Refused, IInv, TypeOK, QueueInv, driver, call
<1> QED BY <1>1, <1>2, <1>3, <1>4

-----------------------------------------------------------------------------
(* The steps of EventHandler preserve the invariant.                        *)

\* Entry and exit.
LEMMA EventHandlerInv == ASSUME IInv, EventHandler PROVE IInv'
<1>1. client' \in ClientViews
  BY OwesNothing DEF EventHandler, IInv, TypeOK
<1>2. EventsToTake \in Nat /\ (EventsToTake # 0 =>
          Messages = <<>> /\ EventsToTake \in 1 .. Len(EventBuffer))
  BY DEF EventsToTake, IInv, TypeOK
<1>3. /\ Count' = EventsToTake
      /\ pc' = IF EventsToTake = 0 THEN "pop" ELSE "events"
      /\ UNCHANGED <<driver, Endpoints, ep0, Messages, EventBuffer, Index, host, xfers>>
  BY DEF EventHandler
<1>4. QueueInv'
  BY <1>2, <1>3 DEF QueueInv
<1> QED BY <1>1, <1>2, <1>3, <1>4 DEF IInv, TypeOK, driver

\* What a client learns keeps its view well-formed.
LEMMA LearnType ==
    ASSUME NEW c \in ClientViews, NEW m \in MessageSet
    PROVE  Learn(c, m) \in ClientViews
<1>1. m.packet.req \in AllRequests /\ m.packet.serial \in 0 .. MaxSetups /\ m.speed \in Speeds
  BY DEF MessageSet, Packets
<1>2. "unknown" \in Speeds
  BY DEF Speeds
<1>3. /\ [c EXCEPT !.owes = m.packet.req, !.last = m.packet.serial,
                   !.configured = c.configured \/ m.packet.req = "SET_CONFIG"] \in ClientViews
      /\ [c EXCEPT !.configured = FALSE, !.suspended = FALSE] \in ClientViews
      /\ [c EXCEPT !.configured = FALSE, !.suspended = FALSE,
                   !.speed = "unknown"] \in ClientViews
      /\ [c EXCEPT !.speed = m.speed] \in ClientViews
      /\ [c EXCEPT !.suspended = TRUE] \in ClientViews
      /\ [c EXCEPT !.suspended = FALSE] \in ClientViews
  BY <1>1, <1>2 DEF ClientViews
<1> QED BY <1>3 DEF Learn

\* Dwc3PopMessage.
LEMMA PopMessageInv == ASSUME IInv, PopMessage PROVE IInv'
<1>1. pc' = "client" /\ Count' = 0 /\ UNCHANGED <<driver, Endpoints, ep0, EventBuffer, Index, host, xfers>>
  BY DEF PopMessage
<1>2. Messages \in Seq(MessageSet) /\ client \in ClientViews
  BY DEF IInv, TypeOK
<1>3. CASE Messages = <<>>
  BY <1>1, <1>3 DEF PopMessage, IInv, TypeOK, QueueInv, driver
<1>4. CASE Messages # <<>>
  <2>1. Head(Messages) \in MessageSet /\ Tail(Messages) \in Seq(MessageSet)
    BY <1>2, <1>4
  <2>2. Messages' \in Seq(MessageSet) /\ client' \in ClientViews
    BY <1>2, <1>4, <2>1, LearnType DEF PopMessage
  <2> QED BY <1>1, <2>2 DEF IInv, TypeOK, QueueInv, driver
<1> QED BY <1>3, <1>4

\* Dwc3HandleEpEvent on a bulk endpoint.
LEMMA BulkCompleteInv == ASSUME IInv, BulkComplete PROVE IInv'
<1> DEFINE n == EventEp
           status == ResultStatus(Head(EventBuffer).err)
           m == TransferResult(Endpoints, n, status)
<1>1. /\ pc = "events" /\ n \in Eps /\ status \in Statuses
      /\ Endpoints \in EndpointTable /\ xfers \in Histories /\ Messages \in Seq(MessageSet)
  BY HeadEvent DEF BulkComplete, AtEvent, IInv, TypeOK, ResultStatus, Statuses
<1>2. UNCHANGED <<driver, ep0, host, client>>
  BY DEF BulkComplete
<1>3. CASE Reports(Endpoints[n])
  <2>1. m \in MessageSet
    BY <1>1, MessageTypes
  <2>2. PushMessage(Messages, m) \in Seq(MessageSet)
    BY <1>1, <2>1, PushMessageType
  <2>3. /\ NextEvent(PushMessage(Messages, m)) /\ Endpoints' = BulkTaken(Endpoints, n)
        /\ xfers' = [xfers EXCEPT !.told = Tell(xfers.told, Endpoints[n].TransferBuffer, status)]
    BY <1>3 DEF BulkComplete
  <2>4. \A e \in Endpoint : [e EXCEPT !.TransferStarted = FALSE, !.ResourceIndex = 0,
                                     !.TransferBuffer = NULL] \in Endpoint
    BY NullBuffer DEF Endpoint
  <2>5. Endpoints' \in EndpointTable
    BY <1>1, <2>3, <2>4 DEF BulkTaken, EndpointTable
  <2>6. Endpoints[n].TransferBuffer \in Buffers /\ xfers.told \in [Buffers -> Told]
    BY <1>1 DEF EndpointTable, Endpoint, Histories
  <2>7. xfers' \in Histories
    BY <1>1, <2>3, <2>6, TellType DEF Histories
  <2> QED
    BY <1>1, <1>2, <2>2, <2>3, <2>5, <2>7, NextEventInv DEF IInv, TypeOK, driver
<1>4. CASE ~Reports(Endpoints[n])
  <2>1. NextEvent(Messages) /\ UNCHANGED <<Endpoints, xfers>>
    BY <1>4 DEF BulkComplete
  <2> QED
    BY <1>1, <1>2, <2>1, NextEventInv DEF IInv, TypeOK, driver
<1> QED BY <1>3, <1>4

\* What every EP0 handler starts from.
LEMMA Ep0Facts ==
    ASSUME IInv, pc = "events"
    PROVE  /\ Ep0Taken \in EndpointTable /\ EventEp \in Eps
           /\ ep0.Buffer \in Packets /\ ep0.SetupPacket \in Packets
           /\ ep0.BounceTarget \in Buffers
           /\ Endpoints \in EndpointTable /\ ep0 \in Ep0Fields
           /\ Messages \in Seq(MessageSet) /\ xfers \in Histories
<1>1. \A e \in Endpoint : [e EXCEPT !.TransferStarted = FALSE] \in Endpoint
  BY DEF Endpoint
<1>2. Ep0Taken \in EndpointTable
  BY <1>1, HeadEvent DEF Ep0Taken, IInv, TypeOK, EndpointTable
<1> QED BY <1>2, HeadEvent DEF IInv, TypeOK, Ep0Fields

\* Dwc3Ep0HandleSetup for SET_ADDRESS and for the requests passed on.
LEMMA SetupInv == ASSUME IInv, SetupAddress \/ SetupPassed PROVE IInv'
<1>1. pc = "events"
  BY DEF SetupAddress, SetupPassed, Ep0Complete, AtEvent
<1>2. CASE SetupAddress
  <2>1. ep0' \in Ep0Fields
    BY <1>1, <1>2, Ep0Facts DEF SetupAddress, Ep0Fields, Ep0States
  <2>2. /\ NextEvent(Messages) /\ Endpoints' = Ep0Taken /\ DevAddr' = 1
        /\ UNCHANGED <<Started, RunStop, Speed, LinkState, Suspended, host, client, xfers>>
    BY <1>2 DEF SetupAddress
  <2> QED BY <1>1, <2>1, <2>2, Ep0Facts, NextEventInv DEF IInv, TypeOK
<1>3. CASE SetupPassed
  <2>1. AfterSetup(ep0.Buffer) \in Ep0States
    BY DEF AfterSetup, Ep0States
  <2>2. ep0' \in Ep0Fields
    BY <1>1, <1>3, <2>1, Ep0Facts DEF SetupPassed, Ep0Fields
  <2>3. /\ NextEvent(PushMessage(Messages, SetupMessage(ep0.Buffer)))
        /\ Endpoints' = Ep0Taken /\ UNCHANGED <<driver, host, client, xfers>>
    BY <1>3 DEF SetupPassed
  <2>4. PushMessage(Messages, SetupMessage(ep0.Buffer)) \in Seq(MessageSet)
    BY <1>1, Ep0Facts, MessageTypes, PushMessageType
  <2> QED BY <1>1, <2>2, <2>3, <2>4, Ep0Facts, NextEventInv DEF IInv, TypeOK, driver
<1> QED BY <1>2, <1>3

\* SET_CONFIG: the loop is entered with an empty ring, each round adds at most
\* one result, and the SETUP message follows the last round.
LEMMA ConfigInv ==
    ASSUME IInv, SetupConfig \/ ResetNonControlEndpoint \/ ConfigDone
    PROVE  IInv'
<1>1. CASE SetupConfig
  <2>1. pc = "events"
    BY <1>1 DEF SetupConfig, Ep0Complete, AtEvent
  <2>2. ep0' \in Ep0Fields
    BY <1>1, <2>1, Ep0Facts DEF SetupConfig, Ep0Fields
  <2>3. /\ Endpoints' = Ep0Taken /\ EventBuffer' = Tail(EventBuffer) /\ Count' = Count - 1
        /\ pc' = "config" /\ Index' = 2 /\ UNCHANGED <<driver, Messages, host, client, xfers>>
    BY <1>1 DEF SetupConfig, EventsLeft, EP0_IN
  <2>4. Messages = <<>> /\ Count \in 1 .. Len(EventBuffer) /\ EventBuffer \in Seq(Events)
    BY <2>1 DEF IInv, TypeOK, QueueInv
  <2>5. EventBuffer' \in Seq(Events) /\ Count' \in Nat
    BY <2>3, <2>4
  <2>6. Index' \in 0 .. NumPhysicalEps /\ QueueInv'
    BY <2>3, <2>4, EndpointAssumption DEF QueueInv
  <2> QED BY <2>1, <2>2, <2>3, <2>5, <2>6, Ep0Facts DEF IInv, TypeOK, driver
<1>2. CASE ResetNonControlEndpoint
  <2> DEFINE m == TransferResult(Endpoints, Index, "Aborted")
             q == PushMessage(Messages, m)
  <2>1. /\ pc = "config" /\ Index \in Eps /\ Index >= 2 /\ Len(Messages) <= Index - 2
        /\ Endpoints \in EndpointTable /\ Messages \in Seq(MessageSet) /\ xfers \in Histories
        /\ Index \in Nat
    BY <1>2, EndpointAssumption DEF ResetNonControlEndpoint, IInv, TypeOK, QueueInv, Eps
  <2>2. Endpoints' \in EndpointTable
    BY <1>2, <2>1, ReconfigureType, ResultsBoolean DEF ResetNonControlEndpoint
  <2>3. q \in Seq(MessageSet) /\ Len(q) <= Len(Messages) + 1
    <3>1. m \in MessageSet
      BY <2>1, MessageTypes DEF Statuses
    <3> QED BY <2>1, <3>1, PushMessageType
  <2>4. Messages' \in Seq(MessageSet) /\ Len(Messages') <= Len(Messages) + 1
    <3>1. Messages' = q \/ Messages' = Messages
      BY <1>2 DEF ResetNonControlEndpoint
    <3> QED BY <2>1, <2>3, <3>1
  <2>5. xfers' \in Histories
    <3>1. Endpoints[Index].TransferBuffer \in Buffers /\ xfers.told \in [Buffers -> Told]
      BY <2>1 DEF EndpointTable, Endpoint, Histories
    <3>2. Tell(xfers.told, Endpoints[Index].TransferBuffer, "Aborted") \in [Buffers -> Told]
      BY <3>1, TellType DEF Statuses
    <3>3. [xfers EXCEPT !.told = Tell(xfers.told, Endpoints[Index].TransferBuffer, "Aborted")]
             \in Histories
      BY <2>1, <3>2 DEF Histories
    <3> QED BY <1>2, <2>1, <3>3 DEF ResetNonControlEndpoint
  <2>6. Index' = Index + 1 /\ UNCHANGED <<driver, ep0, EventBuffer, pc, Count, host, client>>
    BY <1>2 DEF ResetNonControlEndpoint
  <2>7. Index' \in 0 .. NumPhysicalEps
    BY <2>1, <2>6, EndpointAssumption DEF Eps
  <2>8. QueueInv'
    <3>1. pc' = "config" /\ Index' >= 2 /\ Len(Messages') <= Index' - 2
      BY <2>1, <2>4, <2>6
    <3> QED BY <3>1 DEF QueueInv
  <2> QED BY <2>2, <2>4, <2>5, <2>6, <2>7, <2>8 DEF IInv, TypeOK, driver
<1>3. CASE ConfigDone
  <2>1. ep0.SetupPacket \in Packets /\ ep0 \in Ep0Fields
    BY DEF IInv, TypeOK, Ep0Fields
  <2>2. AfterSetup(ep0.SetupPacket) \in Ep0States
    BY DEF AfterSetup, Ep0States
  <2>3. ep0' \in Ep0Fields
    BY <1>3, <2>1, <2>2 DEF ConfigDone, AfterConfig, Ep0Fields
  <2>4. /\ Messages' = PushMessage(Messages, SetupMessage(ep0.SetupPacket)) /\ pc' = "pop"
        /\ Index' = 0 /\ UNCHANGED <<driver, Endpoints, EventBuffer, Count, host, client, xfers>>
    BY <1>3 DEF ConfigDone, AfterConfig, IndexAfterLoop
  <2>5. Messages' \in Seq(MessageSet)
    BY <2>1, <2>4, MessageTypes, PushMessageType DEF IInv, TypeOK
  <2>6. Index' \in 0 .. NumPhysicalEps
    BY <2>4, EndpointAssumption
  <2> QED BY <2>3, <2>4, <2>5, <2>6 DEF IInv, TypeOK, QueueInv, driver
<1> QED BY <1>1, <1>2, <1>3

\* The data and status stages on EP0, and the events nobody handles.
LEMMA Ep0StagesInv ==
    ASSUME IInv,
           \/ Ep0DataComplete \/ Ep0StatusComplete
           \/ Ep0DataNotReady \/ Ep0StatusNotReady \/ IgnoredEvent
    PROVE  IInv'
<1>1. pc = "events" /\ host \in HostViews /\ client \in ClientViews
  BY DEF Ep0DataComplete, Ep0StatusComplete, Ep0DataNotReady, Ep0StatusNotReady,
         IgnoredEvent, Ep0Complete, AtEvent, IInv, TypeOK
<1>2. CASE Ep0DataComplete
  <2> DEFINE b == Endpoints[EventEp].TransferBuffer
             copied == IF ep0.Bounced /\ ep0.filled = ep0.BounceTarget
                       THEN {ep0.BounceTarget} ELSE {}
             m == TransferResult(Endpoints, EventEp, "Complete")
  <2>1. /\ b \in Buffers /\ copied \in SUBSET Buffers
        /\ xfers.told \in [Buffers -> Told] /\ xfers.landed \in SUBSET Buffers
    BY <1>1, Ep0Facts DEF EndpointTable, Endpoint, Histories
  <2>2. /\ xfers' = [xfers EXCEPT !.landed = xfers.landed \union copied,
                                  !.told = Tell(xfers.told, b, "Complete")]
        /\ Endpoints' = [Ep0Taken EXCEPT ![EventEp].TransferBuffer = NULL]
        /\ NextEvent(PushMessage(Messages, m)) /\ UNCHANGED <<driver, host, client>>
    BY <1>2 DEF Ep0DataComplete
  <2>3. Tell(xfers.told, b, "Complete") \in [Buffers -> Told]
    BY <2>1, TellType DEF Statuses
  <2>4. xfers' \in Histories
    <3>1. xfers.landed \union copied \in SUBSET Buffers
      BY <2>1
    <3> HIDE DEF copied, b
    <3> QED BY <1>1, <2>2, <2>3, <3>1, Ep0Facts DEF Histories
  <2>5. Endpoints' \in EndpointTable
    BY <1>1, <2>2, Ep0Facts, BufferUpdate, NullBuffer
  <2>6. ep0' \in Ep0Fields
    BY <1>1, <1>2, Ep0Facts DEF Ep0DataComplete, Ep0Fields
  <2>7. PushMessage(Messages, m) \in Seq(MessageSet)
    BY <1>1, Ep0Facts, MessageTypes, PushMessageType DEF Statuses
  <2> QED BY <1>1, <2>2, <2>4, <2>5, <2>6, <2>7, NextEventInv DEF IInv, TypeOK, driver
<1>3. CASE Ep0StatusComplete
  <2>1. Endpoints' \in EndpointTable /\ ep0' \in Ep0Fields
    BY <1>1, <1>3, Ep0Facts, Ep0OutStartType DEF Ep0StatusComplete
  <2>2. NextEvent(Messages) /\ UNCHANGED <<driver, host, client, xfers>>
    BY <1>3 DEF Ep0StatusComplete
  <2> QED BY <1>1, <2>1, <2>2, Ep0Facts, NextEventInv DEF IInv, TypeOK, driver
<1>4. CASE Ep0DataNotReady
  <2> DEFINE n == IF ExpectIn(ep0.SetupPacket.req) THEN EP0_IN ELSE EP0_OUT
  <2>1. EndTransfer(Endpoints, n) \in EndpointTable
    BY <1>1, Ep0Facts, EpsFacts, EndTransferType
  <2>2. Endpoints' \in EndpointTable /\ ep0' \in Ep0Fields /\ host' \in HostViews
    <3>1. \/ StallAndRestart(EndTransfer(Endpoints, n))
          \/ UNCHANGED <<Endpoints, ep0, host>>
      BY <1>4 DEF Ep0DataNotReady
    <3> QED BY <1>1, <2>1, <3>1, Ep0Facts, StallAndRestartType
  <2>3. NextEvent(Messages) /\ UNCHANGED <<driver, client, xfers>>
    BY <1>4 DEF Ep0DataNotReady
  <2> QED BY <1>1, <2>2, <2>3, Ep0Facts, NextEventInv DEF IInv, TypeOK, driver
<1>5. CASE Ep0StatusNotReady
  <2> DEFINE E == EndTransfer(Endpoints, EventEp)
  <2>1. E \in EndpointTable
    BY <1>1, Ep0Facts, EndTransferType
  <2>2. \A ok \in StartResults(E, EventEp) :
           StartTransfer(E, EventEp, "status", NULL, ok) \in EndpointTable
    BY <1>1, <2>1, Ep0Facts, StartTransferType, ResultsBoolean, NullBuffer DEF TrbTypes
  <2>3. Endpoints' \in EndpointTable
    BY <1>1, <1>5, <2>2, Ep0Facts DEF Ep0StatusNotReady
  <2>4. ep0' \in Ep0Fields
    BY <1>1, <1>5, Ep0Facts DEF Ep0StatusNotReady, Ep0Fields, Ep0States
  <2>5. NextEvent(Messages) /\ UNCHANGED <<driver, host, client, xfers>>
    BY <1>5 DEF Ep0StatusNotReady
  <2> QED BY <1>1, <2>3, <2>4, <2>5, Ep0Facts, NextEventInv DEF IInv, TypeOK, driver
<1>6. CASE IgnoredEvent
  <2>1. NextEvent(Messages) /\ UNCHANGED <<driver, Endpoints, ep0, host, client, xfers>>
    BY <1>6 DEF IgnoredEvent
  <2> QED BY <1>1, <2>1, Ep0Facts, NextEventInv DEF IInv, TypeOK, driver
<1> QED BY <1>2, <1>3, <1>4, <1>5, <1>6

\* Dwc3HandleDeviceEvent.
LEMMA DeviceEventInv == ASSUME IInv, DeviceEvent PROVE IInv'
<1>1. /\ pc = "events" /\ host \in HostViews /\ Endpoints \in EndpointTable
      /\ ep0 \in Ep0Fields /\ Messages \in Seq(MessageSet)
  BY DEF DeviceEvent, BusDisconnect, BusReset, BusConnectDone, LinkStatusChange, Wakeup,
         AtEvent, IInv, TypeOK
<1>2. \A t \in BusMessages : PushMessage(Messages, BusMessage(t)) \in Seq(MessageSet)
  BY <1>1, MessageTypes, PushMessageType
<1>3. CASE BusDisconnect
  <2>1. /\ NextEvent(PushMessage(Messages, BusMessage("Detach"))) /\ Speed' = "unknown"
        /\ UNCHANGED <<Started, RunStop, LinkState, Suspended, DevAddr, Endpoints, ep0,
                       host, client, xfers>>
    BY <1>3 DEF BusDisconnect
  <2>2. Speed' \in Speeds /\ "Detach" \in BusMessages
    BY <2>1 DEF Speeds, BusMessages
  <2> QED BY <1>1, <1>2, <2>1, <2>2, NextEventInv DEF IInv, TypeOK
<1>4. CASE BusReset
  <2>1. Endpoints' \in EndpointTable
    BY <1>1, <1>4, ResetTableType DEF BusReset
  <2>2. ep0' \in Ep0Fields
    BY <1>1, <1>4 DEF BusReset, Ep0Fields, Ep0States
  <2>3. /\ NextEvent(PushMessage(Messages, BusMessage("Reset")))
        /\ DevAddr' = 0 /\ LinkState' = 0 /\ Suspended' = FALSE
        /\ UNCHANGED <<Started, RunStop, Speed, host, client, xfers>>
    BY <1>4 DEF BusReset, AddressAfterReset
  <2>4. LinkState' \in LinkStates /\ "Reset" \in BusMessages
    BY <2>3 DEF LinkStates, BusMessages
  <2> QED BY <1>1, <1>2, <2>1, <2>2, <2>3, <2>4, NextEventInv DEF IInv, TypeOK
<1>5. CASE BusConnectDone
  <2>1. Endpoints' \in EndpointTable /\ ep0' \in Ep0Fields
    <3>1. \E S : \/ Ep0OutStart(EnableEndpoints(Endpoints, S))
                 \/ Endpoints' = EnableEndpoints(Endpoints, S) /\ UNCHANGED ep0
      BY <1>5 DEF BusConnectDone
    <3> QED BY <1>1, <3>1, EnableEndpointsType, Ep0OutStartType
  <2>2. host.speed \in Speeds
    BY <1>1 DEF HostViews
  <2>3. /\ NextEvent(PushMessage(Messages, SpeedMessage(host.speed))) /\ Speed' = host.speed
        /\ UNCHANGED <<Started, RunStop, LinkState, Suspended, DevAddr, host, client, xfers>>
    BY <1>5 DEF BusConnectDone
  <2>4. PushMessage(Messages, SpeedMessage(host.speed)) \in Seq(MessageSet)
    BY <1>1, <2>2, MessageTypes, PushMessageType
  <2> QED BY <1>1, <2>1, <2>2, <2>3, <2>4, NextEventInv DEF IInv, TypeOK
<1>6. CASE LinkStatusChange
  <2> DEFINE link == Head(EventBuffer).link
             suspended == IF link = LinkState THEN Suspended ELSE SuspendState(Speed, link)
  <2>1. /\ LinkState' = link /\ Suspended' = suspended /\ NextEvent(SuspendMessages(suspended))
        /\ UNCHANGED <<Started, RunStop, Speed, DevAddr, Endpoints, ep0, host, client, xfers>>
    BY <1>6 DEF LinkStatusChange
  <2>2. link \in LinkStates /\ suspended \in BOOLEAN
    <3>1. link \in LinkStates
      BY <1>1, HeadEvent DEF Events
    <3>2. SuspendState(Speed, link) \in BOOLEAN
      <4> HIDE DEF link
      <4>1. CASE Speed = "super"  BY <4>1, Zenon DEF SuspendState
      <4>2. CASE Speed # "super"  BY <4>2 DEF SuspendState
      <4> QED BY <4>1, <4>2
    <3>3. Suspended \in BOOLEAN
      BY DEF IInv, TypeOK
    <3> QED BY <3>1, <3>2, <3>3, Zenon
  <2>3. SuspendMessages(suspended) \in Seq(MessageSet)
    <3> HIDE DEF suspended
    <3> QED BY <1>1, <1>2 DEF SuspendMessages, BusMessages
  <2> HIDE DEF suspended, link
  <2> QED BY <1>1, <2>1, <2>2, <2>3, NextEventInv DEF IInv, TypeOK
<1>7. CASE Wakeup
  <2>1. /\ NextEvent(PushMessage(Messages, BusMessage("Resume")))
        /\ UNCHANGED <<driver, Endpoints, ep0, host, client, xfers>>
    BY <1>7 DEF Wakeup
  <2>2. PushMessage(Messages, BusMessage("Resume")) \in Seq(MessageSet)
    BY <1>2 DEF BusMessages
  <2> QED BY <1>1, <2>1, <2>2, NextEventInv DEF IInv, TypeOK, driver
<1> QED BY <1>3, <1>4, <1>5, <1>6, <1>7 DEF DeviceEvent

-----------------------------------------------------------------------------
(* The controller and the host preserve the invariant.                      *)

\* The event buffer only grows at its end, so the events counted stay there.
LEMMA RaiseInv ==
    ASSUME IInv, NEW e \in Events, Raise(e), UNCHANGED <<Messages, call>>
    PROVE  EventBuffer' \in Seq(Events) /\ QueueInv'
<1>1. EventBuffer \in Seq(Events) /\ Len(EventBuffer) \in Nat
  BY DEF IInv, TypeOK
<1>2. EventBuffer' \in Seq(Events) /\ Len(EventBuffer') = Len(EventBuffer) + 1
  BY <1>1 DEF Raise
<1>3. Count \in 1 .. Len(EventBuffer) => Count \in 1 .. Len(EventBuffer')
  BY <1>1, <1>2
<1> QED BY <1>2, <1>3 DEF QueueInv, call, IInv

\* Every event the environment raises is an event.
LEMMA EventTypes ==
    /\ \A t \in EpEventTypes \union DevEventTypes, n \in Eps : Event(t, n) \in Events
    /\ \A n \in Eps, err \in BOOLEAN :
          [Event("complete", n) EXCEPT !.err = err] \in Events
    /\ \A l \in LinkStates : [Event("link", EP0_OUT) EXCEPT !.link = l] \in Events
<1>1. ASSUME NEW t \in EpEventTypes \union DevEventTypes, NEW n \in Eps
      PROVE  Event(t, n) \in Events
  BY DEF Event, Events, LinkStates
<1>2. ASSUME NEW n \in Eps, NEW err \in BOOLEAN
      PROVE  [Event("complete", n) EXCEPT !.err = err] \in Events
  BY <1>1 DEF Event, Events, EpEventTypes, LinkStates
<1>3. ASSUME NEW l \in LinkStates
      PROVE  [Event("link", EP0_OUT) EXCEPT !.link = l] \in Events
  BY EpsFacts DEF Event, Events, DevEventTypes
<1> QED BY <1>1, <1>2, <1>3

\* A transfer that moved its payload is added to the history.
LEMMA LandedType ==
    ASSUME TypeOK, NEW n \in Eps
    PROVE  [xfers EXCEPT !.landed = xfers.landed \union {Endpoints[n].id}] \in Histories
<1>1. Endpoints[n].id \in Buffers /\ xfers.landed \in SUBSET Buffers
  BY DEF TypeOK, EndpointTable, Endpoint, Histories
<1>2. xfers.landed \union {Endpoints[n].id} \in SUBSET Buffers
  BY <1>1
<1> QED BY <1>2 DEF TypeOK, Histories

\* The controller completes bulk transfers.
LEMMA HardwareInv ==
    ASSUME IInv,
           \/ \E n \in Bulk : HwPayload(n)
           \/ \E n \in Bulk, err \in BOOLEAN : HwComplete(n, err)
    PROVE  IInv'
<1>1. ASSUME NEW n \in Bulk, HwPayload(n) PROVE IInv'
  <2>1. Endpoints' \in EndpointTable /\ xfers' \in Histories
    BY <1>1, EpsFacts, HardwareType, LandedType DEF HwPayload, IInv, TypeOK
  <2>2. UNCHANGED <<driver, ep0, Messages, EventBuffer, call, host, client>>
    BY <1>1 DEF HwPayload
  <2> QED BY <2>1, <2>2 DEF IInv, TypeOK, QueueInv, driver, call
<1>2. ASSUME NEW n \in Bulk, NEW err \in BOOLEAN, HwComplete(n, err) PROVE IInv'
  <2>1. Endpoints' \in EndpointTable
    BY <1>2, EpsFacts, HardwareType DEF HwComplete, IInv, TypeOK
  <2>2. xfers' \in Histories
    <3>1. [xfers EXCEPT !.landed = xfers.landed] \in Histories
      BY DEF IInv, TypeOK, Histories
    <3>2. TypeOK /\ n \in Eps
      BY EpsFacts DEF IInv
    <3>3. [xfers EXCEPT !.landed = xfers.landed \union {Endpoints[n].id}] \in Histories
      BY <3>2, LandedType
    <3>4. CASE err
      BY <1>2, <3>1, <3>4 DEF HwComplete
    <3>5. CASE ~err
      BY <1>2, <3>3, <3>5 DEF HwComplete
    <3> QED BY <3>4, <3>5
  <2>3. /\ UNCHANGED <<driver, ep0, Messages, call, host, client>>
        /\ Raise([Event("complete", n) EXCEPT !.err = err])
    BY <1>2 DEF HwComplete
  <2>4. EventBuffer' \in Seq(Events) /\ QueueInv'
    BY <2>3, EventTypes, RaiseInv, EpsFacts
  <2> QED BY <2>1, <2>2, <2>3, <2>4 DEF IInv, TypeOK, driver, call
<1> QED BY <1>1, <1>2

\* The stages of a control request.
LEMMA ControlPipeInv == ASSUME IInv, ControlPipe PROVE IInv'
<1>1. /\ host \in HostViews /\ Endpoints \in EndpointTable /\ ep0 \in Ep0Fields
      /\ xfers \in Histories
  BY DEF IInv, TypeOK
<1>2. \A r : DataEp(r) \in Eps /\ StatusEp(r) \in Eps
  BY EpsFacts DEF DataEp, StatusEp
<1>3. ASSUME NEW r \in Requests, HostSetup(r) PROVE IInv'
  <2> DEFINE p == [req |-> r, serial |-> host.setups + 1]
             ph == IF ThreeStage(r) THEN "data" ELSE "status"
  <2>1. host.setups + 1 \in 0 .. MaxSetups /\ r \in AllRequests
    BY <1>1, <1>3, DriverAssumption DEF HostSetup, HostViews
  <2>2. p \in Packets /\ ph \in {"idle", "data", "status"}
    BY <2>1 DEF Packets
  <2>3. /\ host' = [host EXCEPT !.phase = ph, !.packet = p, !.notified = FALSE,
                                !.setups = host.setups + 1]
        /\ ep0' = [ep0 EXCEPT !.Buffer = p, !.filled = NULL]
        /\ Endpoints' = Completed(Endpoints, EP0_OUT) /\ Raise(Event("complete", EP0_OUT))
        /\ UNCHANGED <<driver, Messages, call, client, xfers>>
    BY <1>3 DEF HostSetup
  <2>4. Endpoints' \in EndpointTable
    BY <1>1, <2>3, HardwareType, EpsFacts
  <2>5. EventBuffer' \in Seq(Events) /\ QueueInv'
    BY <2>3, EventTypes, RaiseInv, EpsFacts DEF EpEventTypes
  <2> HIDE DEF p, ph
  <2>6. host' \in HostViews
    BY <1>1, <2>1, <2>2, <2>3 DEF HostViews
  <2>7. ep0' \in Ep0Fields
    BY <1>1, <2>2, <2>3, NullBuffer DEF Ep0Fields
  <2> QED BY <2>3, <2>4, <2>5, <2>6, <2>7 DEF IInv, TypeOK, driver, call
<1>4. ASSUME NEW n \in ControlEps, HostDataNotReady(n) PROVE IInv'
  <2>1. host' \in HostViews
    BY <1>1, <1>4 DEF HostDataNotReady, HostViews
  <2>2. /\ Raise(Event("data", n)) /\ n \in Eps
        /\ UNCHANGED <<driver, Endpoints, ep0, Messages, call, client, xfers>>
    BY <1>4, ControlEpsFacts DEF HostDataNotReady
  <2>3. EventBuffer' \in Seq(Events) /\ QueueInv'
    BY <2>2, EventTypes, RaiseInv DEF EpEventTypes
  <2> QED BY <2>1, <2>2, <2>3 DEF IInv, TypeOK, driver, call
<1>5. CASE HostData
  <2> DEFINE n == DataEp(HostReq)
  <2>1. host' \in HostViews
    BY <1>1, <1>5 DEF HostData, HostViews
  <2>2. /\ Endpoints' = Completed(Endpoints, n) /\ Raise(Event("complete", n))
        /\ UNCHANGED <<driver, Messages, call, client>>
    BY <1>5 DEF HostData
  <2>3. EventBuffer' \in Seq(Events) /\ QueueInv'
    BY <1>2, <2>2, EventTypes, RaiseInv DEF EpEventTypes
  <2>4. Endpoints' \in EndpointTable
    BY <1>1, <1>2, <2>2, HardwareType
  <2>5. ep0' \in Ep0Fields /\ xfers' \in Histories
    <3>1. CASE n = EP0_OUT
      <4>1. PICK r \in Requests : ep0' = [ep0 EXCEPT !.Buffer = [req |-> r, serial |-> 0],
                                                     !.filled = Endpoints[n].id]
        BY <1>5, <3>1 DEF HostData
      <4>2. [req |-> r, serial |-> 0] \in Packets
        BY <4>1, DriverAssumption DEF Packets
      <4>3. Endpoints[n].id \in Buffers
        BY <1>1, <1>2 DEF EndpointTable, Endpoint
      <4>4. ep0' \in Ep0Fields
        BY <1>1, <4>1, <4>2, <4>3 DEF Ep0Fields
      <4> QED BY <1>1, <1>5, <3>1, <4>4 DEF HostData
    <3>2. CASE n # EP0_OUT
      <4>1. /\ xfers' = [xfers EXCEPT !.landed = xfers.landed \union {Endpoints[n].id}]
            /\ UNCHANGED ep0
        BY <1>5, <3>2 DEF HostData
      <4> QED BY <1>1, <1>2, <4>1, LandedType DEF IInv
    <3> QED BY <3>1, <3>2
  <2> QED BY <2>1, <2>2, <2>3, <2>4, <2>5 DEF IInv, TypeOK, driver, call
<1>6. CASE HostEarlyStatus
  <2>1. host' \in HostViews
    BY <1>1, <1>6 DEF HostEarlyStatus, HostViews
  <2>2. UNCHANGED <<driver, Endpoints, ep0, Messages, EventBuffer, call, client, xfers>>
    BY <1>6 DEF HostEarlyStatus
  <2> QED BY <2>1, <2>2 DEF IInv, TypeOK, QueueInv, driver, call
<1>7. CASE HostStatusNotReady
  <2>1. host' \in HostViews
    BY <1>1, <1>7 DEF HostStatusNotReady, HostViews
  <2>2. /\ Raise(Event("status", StatusEp(HostReq)))
        /\ UNCHANGED <<driver, Endpoints, ep0, Messages, call, client, xfers>>
    BY <1>7 DEF HostStatusNotReady
  <2>3. EventBuffer' \in Seq(Events) /\ QueueInv'
    BY <1>2, <2>2, EventTypes, RaiseInv DEF EpEventTypes
  <2> QED BY <2>1, <2>2, <2>3 DEF IInv, TypeOK, driver, call
<1>8. CASE HostStatus
  <2>1. host' \in HostViews
    <3>1. IdleHost(host) \in HostViews
      BY <1>1, IdleHostType
    <3> QED BY <1>8, <3>1 DEF HostStatus, HostViews
  <2>2. /\ Raise(Event("complete", StatusEp(HostReq)))
        /\ Endpoints' = Completed(Endpoints, StatusEp(HostReq))
        /\ UNCHANGED <<driver, ep0, Messages, call, client, xfers>>
    BY <1>8 DEF HostStatus
  <2>3. EventBuffer' \in Seq(Events) /\ QueueInv'
    BY <1>2, <2>2, EventTypes, RaiseInv DEF EpEventTypes
  <2>4. Endpoints' \in EndpointTable
    BY <1>1, <1>2, <2>2, HardwareType
  <2> QED BY <2>1, <2>2, <2>3, <2>4 DEF IInv, TypeOK, driver, call
<1> QED BY <1>3, <1>4, <1>5, <1>6, <1>7, <1>8 DEF ControlPipe

\* The bus: reset, connect, disconnect, link changes, and ignored events.
LEMMA BusInv ==
    ASSUME IInv,
           \/ HostReset \/ HostDisconnect
           \/ \E s \in HostSpeeds : HostConnectDone(s)
           \/ \E l \in LinkStates : HostLink([Event("link", EP0_OUT) EXCEPT !.link = l])
           \/ HostLink(Event("wakeup", EP0_OUT))
           \/ \E n \in Eps : HwOther(n)
    PROVE  IInv'
<1> DEFINE Same == UNCHANGED <<driver, Endpoints, ep0, Messages, call, client, xfers>>
<1>1. host \in HostViews /\ IdleHost(host) \in HostViews
  BY IdleHostType DEF IInv, TypeOK
<1>2. ASSUME NEW e \in Events, Raise(e), Same, host' \in HostViews PROVE IInv'
  <2>1. EventBuffer' \in Seq(Events) /\ QueueInv'
    BY <1>2, RaiseInv
  <2> QED BY <1>2, <2>1 DEF IInv, TypeOK, driver, call
<1>3. CASE HostReset
  <2>1. host' \in HostViews
    BY <1>1, <1>3 DEF HostReset, HostViews
  <2>2. Raise(Event("reset", EP0_OUT)) /\ Same /\ Event("reset", EP0_OUT) \in Events
    BY <1>3, EventTypes, EpsFacts DEF HostReset, DevEventTypes
  <2> QED BY <1>2, <2>1, <2>2
<1>4. CASE HostDisconnect
  <2>1. host' \in HostViews
    BY <1>1, <1>4 DEF HostDisconnect, HostViews
  <2>2. Raise(Event("disconnect", EP0_OUT)) /\ Same /\ Event("disconnect", EP0_OUT) \in Events
    BY <1>4, EventTypes, EpsFacts DEF HostDisconnect, DevEventTypes
  <2> QED BY <1>2, <2>1, <2>2
<1>5. ASSUME NEW s \in HostSpeeds, HostConnectDone(s) PROVE IInv'
  <2>1. s \in Speeds
    BY DriverAssumption DEF Speeds
  <2>2. host' \in HostViews
    BY <1>1, <1>5, <2>1 DEF HostConnectDone, HostViews
  <2>3. Raise(Event("connect", EP0_OUT)) /\ Same /\ Event("connect", EP0_OUT) \in Events
    BY <1>5, EventTypes, EpsFacts DEF HostConnectDone, DevEventTypes
  <2> QED BY <1>2, <2>2, <2>3
<1>6. ASSUME NEW e \in Events, HostLink(e) PROVE IInv'
  BY <1>1, <1>2, <1>6 DEF HostLink
<1>7. ASSUME NEW n \in Eps, HwOther(n) PROVE IInv'
  <2>1. Event("other", n) \in Events
    BY EventTypes DEF EpEventTypes
  <2> QED BY <1>1, <1>2, <1>7, <2>1 DEF HwOther
<1>8. ASSUME NEW l \in LinkStates, HostLink([Event("link", EP0_OUT) EXCEPT !.link = l])
      PROVE  IInv'
  BY <1>6, <1>8, EventTypes
<1>9. CASE HostLink(Event("wakeup", EP0_OUT))
  <2>1. Event("wakeup", EP0_OUT) \in Events
    BY EventTypes, EpsFacts DEF DevEventTypes
  <2> QED BY <1>6, <1>9, <2>1
<1> QED BY <1>3, <1>4, <1>5, <1>7, <1>8, <1>9

-----------------------------------------------------------------------------
\* InitUsbfnDwc3Driver leaves a state that satisfies the invariant.
LEMMA InitInv == Init => IInv
<1> SUFFICES ASSUME Init PROVE IInv
  OBVIOUS
<1>1. Endpoints \in EndpointTable
  BY ZeroEndpointType DEF Init, EndpointTable
<1>2. ep0 \in Ep0Fields
  BY ZeroPacketType, NullBuffer DEF Init, Ep0Fields, Ep0States
<1>3. host \in HostViews
  BY ZeroPacketType, DriverAssumption DEF Init, HostViews, Speeds
<1>4. client \in ClientViews
  BY DriverAssumption DEF Init, ClientViews, FreshClient, Speeds
<1>5. xfers \in Histories
  BY EndpointAssumption DEF Init, Histories, Told, Eps
<1>6. Messages = <<>> /\ EventBuffer = <<>> /\ pc = "client" /\ Count = 0 /\ Index = 0
  BY DEF Init
<1>7. Messages \in Seq(MessageSet) /\ EventBuffer \in Seq(Events)
  BY <1>6
<1>8. /\ Started \in BOOLEAN /\ RunStop \in BOOLEAN /\ Suspended \in BOOLEAN
      /\ Speed \in Speeds /\ LinkState \in LinkStates /\ DevAddr \in {0, 1}
  BY DEF Init, Speeds, LinkStates
<1> QED BY <1>1, <1>2, <1>3, <1>4, <1>5, <1>6, <1>7, <1>8, EndpointAssumption
        DEF IInv, TypeOK, QueueInv

\* Every step of the client, the driver, the controller and the host preserves
\* the invariant.
LEMMA NextInv == ASSUME IInv, [Next]_vars PROVE IInv'
<1>1. CASE ClientCall
  BY <1>1, StartStopInv, ConfigureInv, EndpointCallInv, StallEp0Inv, TransferInv DEF ClientCall
<1>2. CASE Poll
  <2>1. CASE EndpointEvent
    BY <2>1, BulkCompleteInv, SetupInv, ConfigInv, Ep0StagesInv DEF EndpointEvent
  <2> QED BY <1>2, <2>1, EventHandlerInv, DeviceEventInv, ConfigInv, PopMessageInv DEF Poll
<1>3. CASE Environment
  BY <1>3, ControlPipeInv, HardwareInv, BusInv DEF Environment
<1>4. CASE UNCHANGED vars
  BY <1>4 DEF vars, driver, call, IInv, TypeOK, QueueInv
<1> QED BY <1>1, <1>2, <1>3, <1>4 DEF Next

\* The invariant holds in every reachable state.
THEOREM Invariance == Spec => []IInv
<1>1. Init => IInv
  BY InitInv
<1>2. IInv /\ [Next]_vars => IInv'
  BY NextInv
<1> QED BY <1>1, <1>2, PTL DEF Spec

\* Type correctness, for any number of endpoints and any host and client: no
\* handler ever indexes an endpoint that does not exist.
THEOREM TypeCorrect == Spec => []TypeOK
<1>1. IInv => TypeOK
  BY DEF IInv
<1> QED BY <1>1, Invariance, PTL

\* A message ring with at least as many slots as the controller has endpoints
\* never drops a message: EventHandler takes events only while the ring is
\* empty, and SET_CONFIG adds at most one result per bulk endpoint before its
\* own SETUP message.  The driver has 32 slots for at most 16 endpoints.
THEOREM RingNeverFull == Spec => []NoMessageDropped
<1>1. IInv => NoMessageDropped
  <2> SUFFICES ASSUME IInv, pc \in {"events", "config"}
               PROVE  Len(Messages) < MessageDepth - 1
    BY DEF NoMessageDropped
  <2>1. MessageDepth \in Nat /\ MessageDepth >= NumPhysicalEps /\ NumPhysicalEps >= 3
    BY EndpointAssumption, DriverAssumption
  <2>2. Index \in 0 .. NumPhysicalEps /\ Len(Messages) \in Nat /\ NumPhysicalEps \in Nat
    BY EndpointAssumption DEF IInv, TypeOK
  <2>3. CASE pc = "events"
    <3>1. Len(Messages) = 0
      BY <2>3 DEF IInv, QueueInv
    <3> QED BY <2>1, <2>2, <3>1
  <2>4. CASE pc = "config"
    <3>1. Len(Messages) <= Index - 2
      BY <2>4 DEF IInv, QueueInv
    <3> QED BY <2>1, <2>2, <3>1
  <2> QED BY <2>3, <2>4
<1> QED BY <1>1, Invariance, PTL

-----------------------------------------------------------------------------
(* The buffers handed to Dwc3Transfer: none is reported twice and no bulk   *)
(* result names a NULL buffer, for every order of events, aborts, resets    *)
(* and failing commands.                                                    *)


\* A buffer an endpoint holds was accepted for that endpoint and has not been
\* reported; buffers not yet handed out have not been reported either; a bulk
\* endpoint that waits for a completion holds a buffer.
OwnInv ==
    /\ \A n \in Eps : Endpoints[n].TransferBuffer # NULL =>
          /\ Endpoints[n].TransferBuffer < xfers.next
          /\ xfers.ep[Endpoints[n].TransferBuffer] = n
          /\ xfers.told[Endpoints[n].TransferBuffer] = "none"
    /\ \A b \in Buffers : b >= xfers.next => xfers.told[b] = "none"
    /\ \A n \in Bulk : Endpoints[n].TransferStarted => Endpoints[n].TransferBuffer # NULL

\* The part of ReportedOnce about the ring, for any queue.
NoNullResult(q) ==
    \A i \in 1 .. Len(q) : q[i].type = "Result" /\ q[i].ep \in Bulk => q[i].buffer # NULL

BufInv == OwnInv /\ ReportedOnce

\* What most steps do: they hand out no buffer and report none.
QuietStep ==
    /\ Kept(Endpoints, Endpoints')
    /\ xfers'.next = xfers.next /\ xfers'.ep = xfers.ep /\ xfers'.told = xfers.told
    /\ NoNullResult(Messages')

\* A quiet step preserves the invariant.
LEMMA QuietKeeps == ASSUME IInv, BufInv, QuietStep PROVE BufInv'
<1>1. /\ \A n \in Eps : Endpoints'[n].TransferBuffer \in {Endpoints[n].TransferBuffer, NULL}
      /\ \A n \in Bulk : Endpoints'[n].TransferStarted =>
            Endpoints[n].TransferStarted
            /\ Endpoints'[n].TransferBuffer = Endpoints[n].TransferBuffer
  BY DEF QuietStep, Kept
<1>2. OwnInv'
  BY <1>1 DEF BufInv, OwnInv, QuietStep
<1>3. ReportedOnce'
  BY DEF BufInv, ReportedOnce, QuietStep, NoNullResult
<1> QED BY <1>2, <1>3 DEF BufInv

\* The ring's part of ReportedOnce, under its own name.
LEMMA RingNow == ASSUME BufInv PROVE NoNullResult(Messages)
BY DEF BufInv, ReportedOnce, NoNullResult

\* A push of a message that is no bulk result, or names a buffer.
LEMMA PushQuiet ==
    ASSUME NEW q \in Seq(MessageSet), NoNullResult(q), NEW m \in MessageSet,
           m.type = "Result" /\ m.ep \in Bulk => m.buffer # NULL
    PROVE  NoNullResult(PushMessage(q, m))
BY DEF NoNullResult, PushMessage

\* The messages of the driver, by type.
LEMMA MessageKinds ==
    /\ \A t \in BusMessages : BusMessage(t).type # "Result"
    /\ \A s : SpeedMessage(s).type # "Result"
    /\ \A p : SetupMessage(p).type # "Result"
    /\ \A E, n, s : /\ TransferResult(E, n, s).ep = n
                    /\ TransferResult(E, n, s).buffer = E[n].TransferBuffer
BY DEF BusMessage, SpeedMessage, SetupMessage, TransferResult, BlankMessage, BusMessages

\* A step that leaves the table, the history and the ring alone is quiet.
LEMMA IdleQuiet ==
    ASSUME BufInv, UNCHANGED <<Endpoints, Messages, xfers>>
    PROVE  QuietStep
BY RingNow, KeptOrder DEF QuietStep

\* Dwc3Ep0OutStart and Dwc3Ep0StallAndRestart.
LEMMA Ep0RestartKept ==
    ASSUME NEW E \in EndpointTable
    PROVE  /\ Ep0OutStart(E) => Kept(E, Endpoints')
           /\ StallAndRestart(E) => Kept(E, Endpoints')
<1>1. ASSUME NEW F \in EndpointTable, Ep0OutStart(F) PROVE Kept(F, Endpoints')
  BY <1>1, Ep0ArmedKept, ResultsBoolean DEF Ep0OutStart
<1>2. Ep0Unstalled(E) \in EndpointTable /\ Kept(E, Ep0Unstalled(E))
  BY Ep0UnstalledType, HaltKept, EpsFacts
<1> QED BY <1>1, <1>2, KeptOrder DEF StallAndRestart

-----------------------------------------------------------------------------
(* The steps that hand out no buffer and report none.                       *)

\* Calls of the client other than Transfer.
LEMMA ClientQuiet ==
    ASSUME IInv, BufInv,
           \/ StartController \/ StopController
           \/ ConfigureEnableEndpoints \/ ConfigureFails
           \/ \E n \in Eps : AbortTransfer(n)
           \/ \E n \in Bulk, b \in BOOLEAN : SetEndpointStallState(n, b)
           \/ StallEp0
           \/ \E n \in Bulk, b \in BOOLEAN : SetEndpointPolicy(n, b)
           \/ TransferEp0TooLong
           \/ \E n \in ControlEps : TransferEp0Refused(n)
    PROVE  QuietStep
<1>1. Endpoints \in EndpointTable /\ NoNullResult(Messages) /\ NoNullResult(<<>>)
  BY RingNow DEF IInv, TypeOK, NoNullResult
<1>2. CASE StartController
  <2>1. ASSUME NEW e \in Endpoint
        PROVE  KeptEntry(e, [e EXCEPT !.Enabled = FALSE, !.Stalled = FALSE,
                                      !.TransferStarted = FALSE, !.run = "idle", !.id = NULL])
    BY DEF KeptEntry, Endpoint
  <2>2. \A m \in Eps : KeptEntry(Endpoints[m], Endpoints'[m])
    BY <1>1, <1>2, <2>1 DEF StartController, EndpointTable
  <2>3. Messages' = <<>> /\ UNCHANGED xfers
    BY <1>2 DEF StartController
  <2> QED BY <1>1, <2>2, <2>3, KeptAll DEF QuietStep
<1>3. CASE StopController
  <2>1. Endpoints' = DisableAll(Endpoints) /\ Messages' = <<>> /\ UNCHANGED xfers
    BY <1>3 DEF StopController
  <2> QED BY <1>1, <2>1, EnableDisableKept DEF QuietStep
<1>4. CASE ConfigureEnableEndpoints
  <2> DEFINE F == EnableEndpoints(Endpoints, ControlEps \union InterfaceEps)
  <2>1. Ep0OutStart(F) /\ UNCHANGED <<Messages, xfers>>
    BY <1>4 DEF ConfigureEnableEndpoints
  <2>2. F \in EndpointTable /\ Kept(Endpoints, F)
    BY <1>1, EnableEndpointsType, EnableDisableKept
  <2> HIDE DEF F
  <2> QED BY <1>1, <2>1, <2>2, Ep0RestartKept, KeptOrder DEF QuietStep
<1>5. CASE ConfigureFails
  <2>1. PICK S : Endpoints' = EnableEndpoints(Endpoints, S)
    BY <1>5 DEF ConfigureFails
  <2>2. UNCHANGED <<Messages, xfers>>
    BY <1>5 DEF ConfigureFails
  <2> QED BY <1>1, <2>1, <2>2, EnableDisableKept DEF QuietStep
<1>6. ASSUME NEW n \in Eps, AbortTransfer(n) PROVE QuietStep
  <2> DEFINE F == EndTransfer(Endpoints, n)
             f == [F[n] EXCEPT !.TransferBuffer = NULL]
  <2>1. Endpoints' = [F EXCEPT ![n] = f] /\ UNCHANGED <<Messages, xfers>>
    BY <1>6 DEF AbortTransfer
  <2>2. F \in EndpointTable /\ Kept(Endpoints, F)
    BY <1>1, EndTransferType, EndTransferKept
  <2>3. ~F[n].TransferStarted
    <3>1. F[n] = Ended(Endpoints[n])
      BY <1>1, EpsFacts DEF EndTransfer, EndpointTable, EP0_IN, EP0_OUT
    <3> QED BY <1>1, <3>1, EndedKept DEF EndpointTable
  <2> HIDE DEF F
  <2>4. KeptEntry(F[n], f)
    <3>1. F[n] \in Endpoint
      BY <2>2 DEF EndpointTable
    <3> QED BY <2>3, <3>1 DEF KeptEntry, Endpoint
  <2> HIDE DEF f
  <2>5. Kept(F, Endpoints')
    BY <2>1, <2>2, <2>4, KeptOne
  <2> QED BY <1>1, <2>1, <2>2, <2>5, KeptOrder DEF QuietStep
<1>7. ASSUME NEW n \in Bulk, NEW b \in BOOLEAN, SetEndpointStallState(n, b) PROVE QuietStep
  <2>1. n \in Eps /\ UNCHANGED <<Messages, xfers>>
    BY <1>7, EpsFacts DEF SetEndpointStallState
  <2>2. Kept(Endpoints, Endpoints')
    BY <1>1, <1>7, <2>1, HaltKept, ResultsBoolean DEF SetEndpointStallState
  <2> QED BY <1>1, <2>1, <2>2 DEF QuietStep
<1>8. CASE StallEp0
  <2>1. StallAndRestart(Endpoints) /\ UNCHANGED <<Messages, xfers>>
    BY <1>8 DEF StallEp0
  <2> QED BY <1>1, <2>1, Ep0RestartKept DEF QuietStep
<1>9. ASSUME NEW n \in Bulk, NEW b \in BOOLEAN, SetEndpointPolicy(n, b) PROVE QuietStep
  <2>1. ASSUME NEW e \in Endpoint PROVE KeptEntry(e, [e EXCEPT !.ZeroLengthTermination = b])
    BY DEF KeptEntry, Endpoint
  <2>2. Kept(Endpoints, Endpoints')
    BY <1>1, <1>9, <2>1, EpsFacts, KeptOne DEF SetEndpointPolicy, EndpointTable
  <2> QED BY <1>1, <1>9, <2>2 DEF SetEndpointPolicy, QuietStep
<1>10. CASE TransferEp0TooLong
  <2>1. Endpoints' = EndTransfer(Endpoints, EP0_OUT) /\ UNCHANGED <<Messages, xfers>>
    BY <1>10 DEF TransferEp0TooLong
  <2> QED BY <1>1, <2>1, EndTransferKept, EpsFacts DEF QuietStep
<1>11. ASSUME NEW n \in ControlEps, TransferEp0Refused(n) PROVE QuietStep
  BY <1>11, IdleQuiet DEF TransferEp0Refused
<1> QED BY <1>2, <1>3, <1>4, <1>5, <1>6, <1>7, <1>8, <1>9, <1>10, <1>11

\* EventHandler's entry and exit, EP0 events without a result, bus events.
LEMMA EventQuiet ==
    ASSUME IInv, BufInv,
           \/ EventHandler \/ PopMessage \/ SetupAddress \/ SetupPassed \/ SetupConfig
           \/ ConfigDone \/ Ep0StatusComplete \/ Ep0DataNotReady \/ Ep0StatusNotReady
           \/ IgnoredEvent
    PROVE  QuietStep
<1>1. /\ Endpoints \in EndpointTable /\ Messages \in Seq(MessageSet) /\ NoNullResult(Messages)
      /\ ep0.SetupPacket \in Packets /\ ep0.Buffer \in Packets
  BY RingNow DEF IInv, TypeOK, Ep0Fields
<1>2. ASSUME NEW p \in Packets PROVE NoNullResult(PushMessage(Messages, SetupMessage(p)))
  BY <1>1, MessageTypes, MessageKinds, PushQuiet
<1>3. ASSUME pc = "events" PROVE Kept(Endpoints, Ep0Taken) /\ Ep0Taken \in EndpointTable
  <2>1. ASSUME NEW e \in Endpoint PROVE KeptEntry(e, [e EXCEPT !.TransferStarted = FALSE])
    BY DEF KeptEntry, Endpoint
  <2>2. Endpoints[EventEp] \in Endpoint /\ EventEp \in Eps
    BY <1>1, <1>3, HeadEvent DEF EndpointTable
  <2> QED BY <1>1, <1>3, <2>1, <2>2, KeptOne, Ep0Facts DEF Ep0Taken
<1>4. CASE EventHandler
  BY <1>4, IdleQuiet DEF EventHandler
<1>5. CASE PopMessage
  <2>1. /\ UNCHANGED <<Endpoints, xfers>>
        /\ \/ Messages' = Messages
           \/ Messages # <<>> /\ Messages' = Tail(Messages)
    BY <1>5 DEF PopMessage
  <2>2. Messages # <<>> => NoNullResult(Tail(Messages))
    BY <1>1 DEF NoNullResult
  <2> QED BY <1>1, <2>1, <2>2, KeptOrder DEF QuietStep
<1>6. CASE SetupAddress
  <2>1. pc = "events" /\ Endpoints' = Ep0Taken /\ Messages' = Messages /\ UNCHANGED xfers
    BY <1>6 DEF SetupAddress, Ep0Complete, AtEvent, NextEvent
  <2> QED BY <1>1, <1>3, <2>1 DEF QuietStep
<1>7. CASE SetupPassed
  <2>1. /\ pc = "events" /\ Endpoints' = Ep0Taken /\ UNCHANGED xfers
        /\ Messages' = PushMessage(Messages, SetupMessage(ep0.Buffer))
    BY <1>7 DEF SetupPassed, Ep0Complete, AtEvent, NextEvent
  <2> QED BY <1>1, <1>2, <1>3, <2>1 DEF QuietStep
<1>8. CASE SetupConfig
  <2>1. pc = "events" /\ Endpoints' = Ep0Taken /\ UNCHANGED <<Messages, xfers>>
    BY <1>8 DEF SetupConfig, Ep0Complete, AtEvent
  <2> QED BY <1>1, <1>3, <2>1 DEF QuietStep
<1>9. CASE ConfigDone
  <2>1. /\ UNCHANGED <<Endpoints, xfers>>
        /\ Messages' = PushMessage(Messages, SetupMessage(ep0.SetupPacket))
    BY <1>9 DEF ConfigDone, AfterConfig
  <2> QED BY <1>1, <1>2, <2>1, KeptOrder DEF QuietStep
<1>10. CASE Ep0StatusComplete
  <2>1. pc = "events" /\ Ep0OutStart(Ep0Taken) /\ Messages' = Messages /\ UNCHANGED xfers
    BY <1>10 DEF Ep0StatusComplete, Ep0Complete, AtEvent, NextEvent
  <2> QED BY <1>1, <1>3, <2>1, Ep0RestartKept, KeptOrder DEF QuietStep
<1>11. CASE Ep0DataNotReady
  <2> DEFINE n == IF ExpectIn(ep0.SetupPacket.req) THEN EP0_IN ELSE EP0_OUT
             F == EndTransfer(Endpoints, n)
  <2>1. F \in EndpointTable /\ Kept(Endpoints, F)
    BY <1>1, EpsFacts, EndTransferType, EndTransferKept
  <2>2. /\ StallAndRestart(F) \/ UNCHANGED Endpoints
        /\ Messages' = Messages /\ UNCHANGED xfers
    BY <1>11 DEF Ep0DataNotReady, NextEvent
  <2> HIDE DEF F
  <2> QED BY <1>1, <2>1, <2>2, Ep0RestartKept, KeptOrder DEF QuietStep
<1>12. CASE Ep0StatusNotReady
  <2> DEFINE F == EndTransfer(Endpoints, EventEp)
  <2>1. pc = "events" /\ Messages' = Messages /\ UNCHANGED xfers
    BY <1>12 DEF Ep0StatusNotReady, AtEvent, NextEvent
  <2>2. CASE ~StartsStatus
    BY <1>1, <1>12, <2>1, <2>2, KeptOrder DEF Ep0StatusNotReady, QuietStep
  <2>3. CASE StartsStatus
    <3>1. EventEp \in {EP0_OUT, EP0_IN}
      BY <1>12 DEF Ep0StatusNotReady, ControlEps
    <3>2. F \in EndpointTable /\ Kept(Endpoints, F)
      BY <1>1, <3>1, EpsFacts, EndTransferType, EndTransferKept
    <3>3. PICK ok \in StartResults(F, EventEp) :
             Endpoints' = StartTransfer(F, EventEp, "status", NULL, ok)
      BY <1>12, <2>3 DEF Ep0StatusNotReady
    <3> HIDE DEF F
    <3>4. Kept(F, Endpoints')
      BY <3>1, <3>2, <3>3, StartTransferEp0Kept, ResultsBoolean, NullBuffer DEF TrbTypes
    <3> QED BY <1>1, <2>1, <3>2, <3>4, KeptOrder DEF QuietStep
  <2> QED BY <2>2, <2>3
<1>13. CASE IgnoredEvent
  <2>1. UNCHANGED <<Endpoints, xfers>> /\ Messages' = Messages
    BY <1>13 DEF IgnoredEvent, NextEvent
  <2> QED BY <2>1, IdleQuiet
<1> QED BY <1>4, <1>5, <1>6, <1>7, <1>8, <1>9, <1>10, <1>11, <1>12, <1>13

\* Dwc3HandleDeviceEvent.
LEMMA DeviceQuiet == ASSUME IInv, BufInv, DeviceEvent PROVE QuietStep
<1>1. /\ Endpoints \in EndpointTable /\ Messages \in Seq(MessageSet) /\ NoNullResult(Messages)
      /\ host.speed \in Speeds
  BY RingNow DEF IInv, TypeOK, HostViews
<1>2. ASSUME NEW t \in BusMessages PROVE NoNullResult(PushMessage(Messages, BusMessage(t)))
  BY <1>1, MessageTypes, MessageKinds, PushQuiet
<1>3. CASE BusDisconnect \/ Wakeup
  <2>1. /\ UNCHANGED <<Endpoints, xfers>>
        /\ \E t \in BusMessages : Messages' = PushMessage(Messages, BusMessage(t))
    BY <1>3 DEF BusDisconnect, Wakeup, NextEvent, BusMessages
  <2> QED BY <1>2, <2>1, KeptOrder DEF QuietStep
<1>4. CASE BusReset
  <2>1. /\ Messages' = PushMessage(Messages, BusMessage("Reset")) /\ UNCHANGED xfers
        /\ \E F : Endpoints' = ResetTable(Endpoints, F)
    BY <1>4 DEF BusReset, NextEvent
  <2> QED BY <1>1, <1>2, <2>1, ResetTableKept DEF QuietStep, BusMessages
<1>5. CASE BusConnectDone
  <2>1. /\ Messages' = PushMessage(Messages, SpeedMessage(host.speed)) /\ UNCHANGED xfers
        /\ \E S : \/ Ep0OutStart(EnableEndpoints(Endpoints, S))
                  \/ Endpoints' = EnableEndpoints(Endpoints, S)
    BY <1>5 DEF BusConnectDone, NextEvent
  <2>2. NoNullResult(Messages')
    BY <1>1, <2>1, MessageTypes, MessageKinds, PushQuiet
  <2>3. Kept(Endpoints, Endpoints')
    <3>1. PICK S : \/ Ep0OutStart(EnableEndpoints(Endpoints, S))
                   \/ Endpoints' = EnableEndpoints(Endpoints, S)
      BY <2>1
    <3>2. /\ EnableEndpoints(Endpoints, S) \in EndpointTable
          /\ Kept(Endpoints, EnableEndpoints(Endpoints, S))
      BY <1>1, EnableEndpointsType, EnableDisableKept
    <3> QED BY <3>1, <3>2, Ep0RestartKept, KeptOrder
  <2> QED BY <2>1, <2>2, <2>3 DEF QuietStep
<1>6. CASE LinkStatusChange
  <2>1. UNCHANGED <<Endpoints, xfers>> /\ \E s : Messages' = SuspendMessages(s)
    BY <1>6 DEF LinkStatusChange, NextEvent
  <2>2. ASSUME NEW s PROVE NoNullResult(SuspendMessages(s))
    BY <1>1, <1>2 DEF SuspendMessages, BusMessages
  <2> QED BY <2>1, <2>2, KeptOrder DEF QuietStep
<1> QED BY <1>3, <1>4, <1>5, <1>6 DEF DeviceEvent

\* The controller and the host.
LEMMA EnvironmentQuiet == ASSUME IInv, BufInv, Environment PROVE QuietStep
<1>1. Endpoints \in EndpointTable /\ NoNullResult(Messages) /\ xfers \in Histories
  BY RingNow DEF IInv, TypeOK
<1>2. \A r : DataEp(r) \in Eps /\ StatusEp(r) \in Eps
  BY EpsFacts DEF DataEp, StatusEp
<1>3. ASSUME NEW n \in Eps, NEW L, Endpoints' \in {Completed(Endpoints, n), PayloadMoved(Endpoints, n)},
             xfers' \in {xfers, [xfers EXCEPT !.landed = L]}, UNCHANGED Messages
      PROVE  QuietStep
  <2>1. Kept(Endpoints, Endpoints')
    BY <1>1, <1>3, HardwareKept
  <2>2. xfers'.next = xfers.next /\ xfers'.ep = xfers.ep /\ xfers'.told = xfers.told
    BY <1>1, <1>3 DEF Histories
  <2> QED BY <1>1, <1>3, <2>1, <2>2 DEF QuietStep
<1>4. ASSUME NEW n \in Bulk, HwPayload(n) PROVE QuietStep
  <2>1. /\ n \in Eps /\ UNCHANGED Messages /\ Endpoints' = PayloadMoved(Endpoints, n)
        /\ xfers' = [xfers EXCEPT !.landed = xfers.landed \union {Endpoints[n].id}]
    BY <1>4, EpsFacts DEF HwPayload
  <2> QED BY <1>3, <2>1
<1>5. ASSUME NEW n \in Bulk, NEW err \in BOOLEAN, HwComplete(n, err) PROVE QuietStep
  <2>1. /\ n \in Eps /\ UNCHANGED Messages /\ Endpoints' = Completed(Endpoints, n)
        /\ \E L : xfers' = [xfers EXCEPT !.landed = L]
    BY <1>5, EpsFacts DEF HwComplete
  <2> QED BY <1>3, <2>1
<1>6. CASE \E r \in Requests : HostSetup(r)
  <2>1. Endpoints' = Completed(Endpoints, EP0_OUT) /\ UNCHANGED <<Messages, xfers>>
    BY <1>6 DEF HostSetup
  <2> QED BY <1>3, <2>1, EpsFacts
<1>7. CASE HostData
  <2>1. /\ UNCHANGED Messages /\ Endpoints' = Completed(Endpoints, DataEp(HostReq))
        /\ \/ UNCHANGED xfers
           \/ xfers' = [xfers EXCEPT !.landed = xfers.landed \union {Endpoints[DataEp(HostReq)].id}]
    BY <1>7 DEF HostData
  <2> QED BY <1>2, <1>3, <2>1
<1>8. CASE HostStatus
  <2>1. Endpoints' = Completed(Endpoints, StatusEp(HostReq)) /\ UNCHANGED <<Messages, xfers>>
    BY <1>8 DEF HostStatus
  <2> QED BY <1>2, <1>3, <2>1
<1>9. ASSUME UNCHANGED <<Endpoints, Messages, xfers>> PROVE QuietStep
  BY <1>9, IdleQuiet
<1>10. CASE ControlPipe
  BY <1>6, <1>7, <1>8, <1>9, <1>10
     DEF ControlPipe, HostDataNotReady, HostEarlyStatus, HostStatusNotReady
<1> QED
  BY <1>4, <1>5, <1>9, <1>10
     DEF Environment, HostReset, HostDisconnect, HostConnectDone, HostLink, HwOther

-----------------------------------------------------------------------------
(* The steps that hand out a buffer or report one.                          *)

\* The tail of Dwc3Transfer: on success the endpoint n, and no other, now holds
\* the new buffer; on failure it holds none.
LEMMA SubmitOwn ==
    ASSUME IInv, BufInv, NEW E \in EndpointTable, Kept(Endpoints, E), NEW n \in Eps,
           NEW type \in TrbTypes, NEW ok \in BOOLEAN, NEW bounced,
           xfers.next <= MaxXfers, Submit(E, n, type, ok, bounced), UNCHANGED Messages
    PROVE  BufInv'
<1> DEFINE b == xfers.next
           F == StartTransfer(E, n, type, b, ok)
<1>1. /\ b \in 1 .. MaxXfers /\ b \in Buffers /\ b # NULL /\ b \in Nat
      /\ xfers \in Histories /\ Endpoints \in EndpointTable
  BY EndpointAssumption DEF IInv, TypeOK, Histories, Buffers, NULL
<1>2. F \in EndpointTable
  BY <1>1, StartTransferType
<1>3. \A m \in Eps \ {n} : /\ F[m].TransferBuffer = E[m].TransferBuffer
                           /\ m \in Bulk => (F[m].TransferStarted => E[m].TransferStarted)
  BY <1>1, StartTransferOthers
<1>4. ~ok /\ n \in Bulk => ~F[n].TransferStarted
  BY <1>1, StartTransferFails
<1>5. Endpoints' = [F EXCEPT ![n].TransferBuffer = IF ok THEN b ELSE NULL]
  BY DEF Submit
<1>6. xfers' = IF ok THEN Accepted(n) ELSE xfers
  BY DEF Submit
<1> HIDE DEF F
<1>7. /\ \A m \in Eps \ {n} : Endpoints'[m] = F[m]
      /\ Endpoints'[n].TransferBuffer = IF ok THEN b ELSE NULL
      /\ Endpoints'[n].TransferStarted = F[n].TransferStarted
  <2>1. F[n] \in Endpoint
    BY <1>2 DEF EndpointTable
  <2>2. \A x : /\ [F[n] EXCEPT !.TransferBuffer = x].TransferBuffer = x
               /\ [F[n] EXCEPT !.TransferBuffer = x].TransferStarted = F[n].TransferStarted
    BY <2>1 DEF Endpoint
  <2> QED BY <1>2, <1>5, <2>2 DEF EndpointTable
<1>8. /\ Accepted(n).next = b + 1 /\ Accepted(n).told = xfers.told
      /\ Accepted(n).ep = [xfers.ep EXCEPT ![b] = n]
  BY <1>1 DEF Accepted, Histories
<1>9. /\ xfers.ep \in [Buffers -> Eps] /\ xfers.told \in [Buffers -> Told]
      /\ \A m \in Eps : Endpoints[m].TransferBuffer \in Buffers
  BY <1>1 DEF Histories, EndpointTable, Endpoint
<1>10. /\ \A m \in Eps : E[m].TransferBuffer \in {Endpoints[m].TransferBuffer, NULL}
       /\ \A m \in Bulk : E[m].TransferStarted =>
             Endpoints[m].TransferStarted /\ E[m].TransferBuffer = Endpoints[m].TransferBuffer
  BY DEF Kept
<1>11. xfers'.told = xfers.told /\ xfers'.next \in {b, b + 1}
  BY <1>6, <1>8
<1>12. ASSUME NEW m \in Eps, Endpoints'[m].TransferBuffer # NULL
       PROVE  /\ Endpoints'[m].TransferBuffer < xfers'.next
              /\ xfers'.ep[Endpoints'[m].TransferBuffer] = m
              /\ xfers'.told[Endpoints'[m].TransferBuffer] = "none"
  <2>1. CASE m # n
    <3>1. Endpoints'[m].TransferBuffer = Endpoints[m].TransferBuffer
      BY <1>3, <1>7, <1>10, <1>12, <2>1
    <3>2. /\ Endpoints[m].TransferBuffer < b /\ xfers.ep[Endpoints[m].TransferBuffer] = m
          /\ xfers.told[Endpoints[m].TransferBuffer] = "none"
          /\ Endpoints[m].TransferBuffer \in Buffers
      BY <1>9, <1>12, <3>1 DEF BufInv, OwnInv
    <3>3. Endpoints[m].TransferBuffer < xfers'.next
      BY <1>1, <1>11, <3>2, EndpointAssumption DEF Buffers
    <3>4. xfers'.ep[Endpoints[m].TransferBuffer] = xfers.ep[Endpoints[m].TransferBuffer]
      BY <1>1, <1>6, <1>8, <1>9, <3>2, EndpointAssumption DEF Buffers
    <3> QED BY <1>11, <3>1, <3>2, <3>3, <3>4
  <2>2. CASE m = n
    <3>1. ok /\ Endpoints'[m].TransferBuffer = b
      BY <1>7, <1>12, <2>2
    <3>2. xfers'.next = b + 1 /\ xfers'.ep[b] = n
      BY <1>1, <1>6, <1>8, <1>9, <3>1
    <3>3. xfers.told[b] = "none"
      BY <1>1 DEF BufInv, OwnInv
    <3> QED BY <1>1, <1>11, <2>2, <3>1, <3>2, <3>3
  <2> QED BY <2>1, <2>2
<1>13. ASSUME NEW c \in Buffers, c >= xfers'.next PROVE xfers'.told[c] = "none"
  <2>1. c >= b
    BY <1>1, <1>11, <1>13, EndpointAssumption DEF Buffers
  <2> QED BY <1>11, <2>1 DEF BufInv, OwnInv
<1>14. ASSUME NEW m \in Bulk, Endpoints'[m].TransferStarted
       PROVE  Endpoints'[m].TransferBuffer # NULL
  <2>1. CASE m = n
    BY <1>1, <1>4, <1>7, <1>14, <2>1
  <2>2. CASE m # n
    BY <1>3, <1>7, <1>10, <1>14, <2>2, EpsFacts DEF BufInv, OwnInv
  <2> QED BY <2>1, <2>2
<1>15. OwnInv'
  BY <1>12, <1>13, <1>14 DEF OwnInv
<1>16. ReportedOnce'
  BY <1>11 DEF BufInv, ReportedOnce
<1> QED BY <1>15, <1>16 DEF BufInv

\* Dwc3Transfer on bulk endpoints and on EP0.
LEMMA TransferOwn ==
    ASSUME IInv, BufInv,
           \/ \E n \in Bulk, aligned \in BOOLEAN : TransferBulk(n, aligned)
           \/ \E n \in ControlEps : TransferEp0(n)
    PROVE  BufInv'
<1>1. Endpoints \in EndpointTable /\ Kept(Endpoints, Endpoints)
  BY KeptOrder DEF IInv, TypeOK
<1>2. ASSUME NEW n \in Bulk, NEW aligned \in BOOLEAN, TransferBulk(n, aligned) PROVE BufInv'
  <2>1. NormalTrb(Endpoints[n], n, aligned) \in TrbTypes /\ n \in Eps
    BY EpsFacts DEF NormalTrb, TrbTypes
  <2>2. PICK ok \in StartResults(Endpoints, n) :
           Submit(Endpoints, n, NormalTrb(Endpoints[n], n, aligned), ok, FALSE)
    BY <1>2 DEF TransferBulk
  <2>3. ok \in BOOLEAN /\ xfers.next <= MaxXfers /\ UNCHANGED Messages
    BY <1>2, <2>2, ResultsBoolean DEF TransferBulk
  <2> QED BY <1>1, <2>1, <2>2, <2>3, SubmitOwn
<1>3. ASSUME NEW n \in ControlEps, TransferEp0(n) PROVE BufInv'
  <2> DEFINE F == EndTransfer(Endpoints, n)
  <2>1. F \in EndpointTable /\ Kept(Endpoints, F) /\ "data" \in TrbTypes /\ n \in Eps
    BY <1>1, EndTransferType, EndTransferKept, ControlEpsFacts DEF TrbTypes
  <2>2. PICK ok \in StartResults(F, n) : Submit(F, n, "data", ok, n = EP0_OUT)
    BY <1>3 DEF TransferEp0
  <2>3. ok \in BOOLEAN /\ xfers.next <= MaxXfers /\ UNCHANGED Messages
    BY <1>3, <2>2, ResultsBoolean DEF TransferEp0
  <2> HIDE DEF F
  <2> QED BY <2>1, <2>2, <2>3, SubmitOwn, Zenon
<1> QED BY <1>2, <1>3

\* Endpoint n reports the buffer it holds, and holds it no longer.
LEMMA ReportOwn ==
    ASSUME IInv, BufInv, NEW n \in Eps, NEW s \in Statuses, NEW L,
           Kept(Endpoints, Endpoints'), Endpoints'[n].TransferBuffer = NULL,
           xfers' = [xfers EXCEPT !.landed = L,
                                  !.told = Tell(xfers.told, Endpoints[n].TransferBuffer, s)],
           NoNullResult(Messages')
    PROVE  BufInv'
<1> DEFINE b == Endpoints[n].TransferBuffer
<1>1. /\ xfers \in Histories /\ b \in Buffers /\ xfers.next \in Nat /\ xfers.next >= 1
      /\ xfers.told \in [Buffers -> Told] /\ xfers.ep \in [Buffers -> Eps]
      /\ \A m \in Eps : Endpoints[m].TransferBuffer \in Buffers
  BY EndpointAssumption DEF IInv, TypeOK, Histories, EndpointTable, Endpoint
<1>2. /\ xfers'.next = xfers.next /\ xfers'.ep = xfers.ep
      /\ xfers'.told = Tell(xfers.told, b, s)
  BY <1>1 DEF Histories
<1>3. \A c \in Buffers \ {b} : xfers'.told[c] = xfers.told[c]
  BY <1>1, <1>2 DEF Tell
<1>4. b # NULL => b < xfers.next /\ xfers.ep[b] = n /\ xfers'.told[b] = s
  BY <1>1, <1>2 DEF Tell, BufInv, OwnInv
<1>5. /\ \A m \in Eps : Endpoints'[m].TransferBuffer \in {Endpoints[m].TransferBuffer, NULL}
      /\ \A m \in Bulk : Endpoints'[m].TransferStarted =>
            Endpoints[m].TransferStarted
            /\ Endpoints'[m].TransferBuffer = Endpoints[m].TransferBuffer
  BY DEF Kept
<1> HIDE DEF b
<1>6. ASSUME NEW m \in Eps, Endpoints'[m].TransferBuffer # NULL
      PROVE  /\ Endpoints'[m].TransferBuffer < xfers'.next
             /\ xfers'.ep[Endpoints'[m].TransferBuffer] = m
             /\ xfers'.told[Endpoints'[m].TransferBuffer] = "none"
  <2>1. m # n /\ Endpoints'[m].TransferBuffer = Endpoints[m].TransferBuffer
    BY <1>5, <1>6
  <2>2. /\ Endpoints[m].TransferBuffer < xfers.next
        /\ xfers.ep[Endpoints[m].TransferBuffer] = m
        /\ xfers.told[Endpoints[m].TransferBuffer] = "none"
    BY <1>6, <2>1 DEF BufInv, OwnInv
  <2>3. Endpoints[m].TransferBuffer # b
    BY <1>4, <1>6, <2>1, <2>2
  <2> QED BY <1>1, <1>2, <1>3, <2>1, <2>2, <2>3
<1>7. ASSUME NEW c \in Buffers, c >= xfers'.next PROVE xfers'.told[c] = "none"
  <2>1. c >= xfers.next /\ c # NULL
    BY <1>1, <1>2, <1>7 DEF NULL
  <2>2. c # b
    BY <1>1, <1>4, <2>1, EndpointAssumption DEF Buffers
  <2> QED BY <1>3, <2>1, <2>2 DEF BufInv, OwnInv
<1>8. \A m \in Bulk : Endpoints'[m].TransferStarted => Endpoints'[m].TransferBuffer # NULL
  BY <1>5 DEF BufInv, OwnInv
<1>9. OwnInv'
  BY <1>6, <1>7, <1>8 DEF OwnInv
<1>10. \A c \in Buffers \ {NULL} : xfers'.told[c] # "twice"
  BY <1>3, <1>4 DEF BufInv, ReportedOnce, Statuses
<1>11. ReportedOnce'
  BY <1>10 DEF ReportedOnce, NoNullResult
<1> QED BY <1>9, <1>11 DEF BufInv

\* The three places that push a transfer result.
LEMMA ResultOwn ==
    ASSUME IInv, BufInv, BulkComplete \/ Ep0DataComplete \/ ResetNonControlEndpoint
    PROVE  BufInv'
<1>1. /\ Endpoints \in EndpointTable /\ Messages \in Seq(MessageSet) /\ NoNullResult(Messages)
      /\ xfers \in Histories
  BY RingNow DEF IInv, TypeOK
<1>2. \A L, t : xfers' = [xfers EXCEPT !.told = t] =>
         xfers' = [xfers EXCEPT !.landed = xfers.landed, !.told = t]
  BY <1>1 DEF Histories
<1>3. CASE BulkComplete
  <2> DEFINE n == EventEp
             st == ResultStatus(Head(EventBuffer).err)
             m == TransferResult(Endpoints, n, st)
  <2>1. pc = "events" /\ n \in Bulk /\ n \in Eps /\ st \in Statuses
    BY <1>3, EpsFacts DEF BulkComplete, AtEvent, ResultStatus, Statuses
  <2>2. CASE ~Reports(Endpoints[n])
    <3>1. UNCHANGED <<Endpoints, xfers>> /\ Messages' = Messages
      BY <1>3, <2>2 DEF BulkComplete, NextEvent
    <3> QED BY <3>1, IdleQuiet, QuietKeeps
  <2>3. CASE Reports(Endpoints[n])
    <3>1. /\ Endpoints' = BulkTaken(Endpoints, n) /\ Messages' = PushMessage(Messages, m)
          /\ xfers' = [xfers EXCEPT !.told = Tell(xfers.told, Endpoints[n].TransferBuffer, st)]
      BY <1>3, <2>3 DEF BulkComplete, NextEvent
    <3>2. ASSUME NEW e \in Endpoint
          PROVE  LET f == [e EXCEPT !.TransferStarted = FALSE, !.ResourceIndex = 0,
                                    !.TransferBuffer = NULL]
                 IN  KeptEntry(e, f) /\ f.TransferBuffer = NULL
      BY DEF KeptEntry, Endpoint
    <3>3. Kept(Endpoints, Endpoints') /\ Endpoints'[n].TransferBuffer = NULL
      <4> DEFINE f == [Endpoints[n] EXCEPT !.TransferStarted = FALSE, !.ResourceIndex = 0,
                                           !.TransferBuffer = NULL]
      <4>1. KeptEntry(Endpoints[n], f) /\ f.TransferBuffer = NULL
        BY <1>1, <2>1, <3>2 DEF EndpointTable
      <4>2. Endpoints' = [Endpoints EXCEPT ![n] = f]
        BY <3>1 DEF BulkTaken
      <4> HIDE DEF f
      <4> QED BY <1>1, <2>1, <4>1, <4>2, KeptOne DEF EndpointTable
    <3>4. Endpoints[n].TransferBuffer # NULL
      BY <2>1, <2>3 DEF Reports, BufInv, OwnInv
    <3>5. NoNullResult(Messages')
      <4>1. m \in MessageSet /\ m.buffer = Endpoints[n].TransferBuffer
        BY <1>1, <2>1, MessageTypes, MessageKinds
      <4> HIDE DEF m
      <4> QED BY <1>1, <3>1, <3>4, <4>1, PushQuiet
    <3> HIDE DEF n, st
    <3> QED BY <1>2, <2>1, <3>1, <3>3, <3>5, ReportOwn
  <2> QED BY <2>2, <2>3
<1>4. CASE Ep0DataComplete
  <2> DEFINE n == EventEp
             m == TransferResult(Endpoints, n, "Complete")
  <2>1. pc = "events" /\ n \in Eps /\ n \notin Bulk /\ "Complete" \in Statuses
    BY <1>4 , EpsFacts
       DEF Ep0DataComplete, Ep0Complete, AtEvent, ControlEps, Bulk, EP0_IN, EP0_OUT, Statuses
  <2>2. /\ Endpoints' = [Ep0Taken EXCEPT ![n].TransferBuffer = NULL]
        /\ Messages' = PushMessage(Messages, m)
        /\ \E L : xfers' = [xfers EXCEPT !.landed = L,
                               !.told = Tell(xfers.told, Endpoints[n].TransferBuffer, "Complete")]
    BY <1>4 DEF Ep0DataComplete, NextEvent
  <2>3. Kept(Endpoints, Endpoints') /\ Endpoints'[n].TransferBuffer = NULL
    <3>1. ASSUME NEW e \in Endpoint
          PROVE  /\ [e EXCEPT !.TransferStarted = FALSE] \in Endpoint
                 /\ ~[e EXCEPT !.TransferStarted = FALSE].TransferStarted
                 /\ KeptEntry(e, [e EXCEPT !.TransferStarted = FALSE])
                 /\ ~e.TransferStarted => KeptEntry(e, [e EXCEPT !.TransferBuffer = NULL])
                 /\ [e EXCEPT !.TransferBuffer = NULL].TransferBuffer = NULL
      BY DEF KeptEntry, Endpoint
    <3> DEFINE f == [Endpoints[n] EXCEPT !.TransferStarted = FALSE]
               g == [f EXCEPT !.TransferBuffer = NULL]
    <3>2. /\ f \in Endpoint /\ ~f.TransferStarted /\ KeptEntry(Endpoints[n], f)
          /\ Ep0Taken = [Endpoints EXCEPT ![n] = f]
      BY <1>1, <2>1, <3>1 DEF EndpointTable, Ep0Taken
    <3> HIDE DEF f
    <3>3. Ep0Taken \in EndpointTable /\ Kept(Endpoints, Ep0Taken) /\ Ep0Taken[n] = f
      BY <1>1, <2>1, <3>2, KeptOne DEF EndpointTable
    <3>4. KeptEntry(f, g) /\ g.TransferBuffer = NULL
      BY <3>1, <3>2
    <3>5. Endpoints' = [Ep0Taken EXCEPT ![n] = g]
      BY <2>2, <3>3
    <3> HIDE DEF g
    <3>6. Kept(Ep0Taken, Endpoints') /\ Endpoints'[n].TransferBuffer = NULL
      BY <2>1, <3>3, <3>4, <3>5, KeptOne DEF EndpointTable
    <3> QED BY <3>3, <3>6, KeptOrder
  <2>4. NoNullResult(Messages')
    <3>1. m \in MessageSet /\ m.ep = n
      BY <1>1, <2>1, MessageTypes, MessageKinds
    <3> HIDE DEF m
    <3> QED BY <1>1, <2>1, <2>2, <3>1, PushQuiet
  <2> HIDE DEF n
  <2> QED BY <2>1, <2>2, <2>3, <2>4, ReportOwn
<1>5. CASE ResetNonControlEndpoint
  <2> DEFINE m == TransferResult(Endpoints, Index, "Aborted")
  <2>1. Index \in Bulk /\ Index \in Eps /\ "Aborted" \in Statuses
    BY <1>5, EpsFacts, EndpointAssumption
       DEF ResetNonControlEndpoint, IInv, TypeOK, QueueInv, Bulk, Statuses
  <2>2. PICK ok \in CmdResults("config") : Endpoints' = Reconfigure(Endpoints, Index, ok)
    BY <1>5 DEF ResetNonControlEndpoint
  <2>3. /\ Kept(Endpoints, Endpoints')
        /\ AbortsTransfer(Endpoints, Index) => Endpoints'[Index].TransferBuffer = NULL
    BY <1>1, <2>1, <2>2, ReconfigureKept, ResultsBoolean
  <2>4. CASE ~AbortsTransfer(Endpoints, Index)
    <3>1. UNCHANGED <<Messages, xfers>>
      BY <1>5, <2>4 DEF ResetNonControlEndpoint
    <3>2. QuietStep
      BY <1>1, <2>3, <3>1 DEF QuietStep
    <3> QED BY <3>2, QuietKeeps
  <2>5. CASE AbortsTransfer(Endpoints, Index)
    <3>1. /\ Messages' = PushMessage(Messages, m)
          /\ xfers' = [xfers EXCEPT !.told = Tell(xfers.told, Endpoints[Index].TransferBuffer, "Aborted")]
      BY <1>5, <2>5 DEF ResetNonControlEndpoint
    <3>2. Endpoints[Index].TransferBuffer # NULL
      BY <2>1, <2>5 DEF AbortsTransfer, BufInv, OwnInv
    <3>3. NoNullResult(Messages')
      <4>1. m \in MessageSet /\ m.buffer = Endpoints[Index].TransferBuffer
        BY <1>1, <2>1, MessageTypes, MessageKinds
      <4> HIDE DEF m
      <4> QED BY <1>1, <3>1, <3>2, <4>1, PushQuiet
    <3> QED BY <1>2, <2>1, <2>3, <2>5, <3>1, <3>3, ReportOwn
  <2> QED BY <2>4, <2>5
<1> QED BY <1>3, <1>4, <1>5

-----------------------------------------------------------------------------
\* No endpoint holds a buffer at first.
LEMMA InitOwn == Init => BufInv
<1> SUFFICES ASSUME Init PROVE BufInv
  OBVIOUS
<1>1. \A n \in Eps : Endpoints[n].TransferBuffer = NULL /\ ~Endpoints[n].TransferStarted
  BY DEF Init, ZeroEndpoint
<1>2. \A b \in Buffers : xfers.told[b] = "none"
  BY DEF Init
<1>3. Messages = <<>>
  BY DEF Init
<1> QED BY <1>1, <1>2, <1>3, EpsFacts DEF BufInv, OwnInv, ReportedOnce

\* Every step preserves the invariant.
LEMMA NextOwn == ASSUME IInv, BufInv, [Next]_vars PROVE BufInv'
<1>1. CASE ClientCall
  BY <1>1, ClientQuiet, QuietKeeps, TransferOwn DEF ClientCall
<1>2. CASE Poll
  <2>1. CASE EndpointEvent
    BY <2>1, EventQuiet, QuietKeeps, ResultOwn DEF EndpointEvent
  <2>2. CASE DeviceEvent
    BY <2>2, DeviceQuiet, QuietKeeps
  <2> QED BY <1>2, <2>1, <2>2, EventQuiet, QuietKeeps, ResultOwn DEF Poll
<1>3. CASE Environment
  BY <1>3, EnvironmentQuiet, QuietKeeps
<1>4. CASE UNCHANGED vars
  BY <1>4, IdleQuiet, QuietKeeps DEF vars
<1> QED BY <1>1, <1>2, <1>3, <1>4 DEF Next

\* Whatever stale completions, aborts, resets, failing commands and SET_CONFIG
\* requests happen in whatever order, the driver reports each buffer at most
\* once and never a NULL one: a client may free or reuse a buffer when it gets
\* its result.
THEOREM NeverReportedTwice == Spec => []ReportedOnce
<1>1. Init => BufInv
  BY InitOwn
<1>2. IInv /\ BufInv /\ [Next]_vars => BufInv'
  BY NextOwn
<1>3. BufInv => ReportedOnce
  BY DEF BufInv
<1> QED BY <1>1, <1>2, <1>3, Invariance, PTL DEF Spec

-----------------------------------------------------------------------------
(* What the client knows of the bus.                                        *)

\* The client c has the driver's speed, and believes the bus suspended only if
\* the driver does.
Informed(c) == c.speed = Speed /\ (c.suspended => Suspended)

\* No message of q is about the bus.
NoBusMessage(q) == \A i \in 1 .. Len(q) : q[i].type \notin BusMessages

\* Either the client is informed, or one message is left that informs it.
ViewInv ==
    /\ ~Started => pc = "client" /\ client.speed = "unknown" /\ ~client.suspended
    /\ \/ Informed(client) /\ NoBusMessage(Messages)
       \/ pc # "config" /\ Len(Messages) = 1 /\ Informed(Learn(client, Messages[1]))

\* What a client believes of the bus after a message depends on nothing but
\* the message and what it believed of the bus before.
LEMMA LearnBus ==
    ASSUME NEW c \in ClientViews, NEW m \in MessageSet
    PROVE  /\ m.type = "Detach" => Learn(c, m).speed = "unknown"
           /\ m.type = "Speed" => Learn(c, m).speed = m.speed
           /\ m.type \notin {"Detach", "Speed"} => Learn(c, m).speed = c.speed
           /\ m.type \in {"Reset", "Detach", "Resume"} => ~Learn(c, m).suspended
           /\ m.type = "Suspend" => Learn(c, m).suspended
           /\ m.type \in {"Setup", "Result", "Speed"} => (Learn(c, m).suspended <=> c.suspended)
<1>0. /\ ~[c EXCEPT !.configured = FALSE, !.suspended = FALSE].suspended
      /\ ~[c EXCEPT !.configured = FALSE, !.suspended = FALSE, !.speed = "unknown"].suspended
      /\ ~[c EXCEPT !.suspended = FALSE].suspended
      /\ [c EXCEPT !.suspended = TRUE].suspended
  BY DEF ClientViews
<1>1. \A x, y, z :
         /\ [c EXCEPT !.owes = x, !.last = y, !.configured = z].speed = c.speed
         /\ [c EXCEPT !.owes = x, !.last = y, !.configured = z].suspended <=> c.suspended
         /\ [c EXCEPT !.configured = x, !.suspended = y].speed = c.speed
         /\ [c EXCEPT !.configured = x, !.suspended = y, !.speed = z].speed = z
         /\ [c EXCEPT !.speed = x].speed = x
         /\ [c EXCEPT !.speed = x].suspended <=> c.suspended
         /\ [c EXCEPT !.suspended = x].speed = c.speed
  BY DEF ClientViews
<1>2. m.type \in BusMessages \union {"Setup", "Result"}
  BY DEF MessageSet
<1>3. CASE m.type = "Setup"
  <2>1. Learn(c, m) = [c EXCEPT !.owes = m.packet.req, !.last = m.packet.serial,
                       !.configured = c.configured \/ m.packet.req = "SET_CONFIG"]
    BY <1>3 DEF Learn
  <2> QED BY <1>0, <1>1, <1>3, <2>1
<1>4. CASE m.type = "Reset"
  <2>1. Learn(c, m) = [c EXCEPT !.configured = FALSE, !.suspended = FALSE]
    BY <1>4 DEF Learn
  <2> QED BY <1>0, <1>1, <1>4, <2>1
<1>5. CASE m.type = "Detach"
  <2>1. Learn(c, m) = [c EXCEPT !.configured = FALSE, !.suspended = FALSE, !.speed = "unknown"]
    BY <1>5 DEF Learn
  <2> QED BY <1>0, <1>1, <1>5, <2>1
<1>6. CASE m.type = "Speed"
  <2>1. Learn(c, m) = [c EXCEPT !.speed = m.speed]
    BY <1>6 DEF Learn
  <2> QED BY <1>0, <1>1, <1>6, <2>1
<1>7. CASE m.type = "Suspend"
  <2>1. Learn(c, m) = [c EXCEPT !.suspended = TRUE]
    BY <1>7 DEF Learn
  <2> QED BY <1>0, <1>1, <1>7, <2>1
<1>8. CASE m.type = "Resume"
  <2>1. Learn(c, m) = [c EXCEPT !.suspended = FALSE]
    BY <1>8 DEF Learn
  <2> QED BY <1>0, <1>1, <1>8, <2>1
<1>9. CASE m.type = "Result"
  <2>1. Learn(c, m) = c
    BY <1>9 DEF Learn
  <2> QED BY <1>9, <2>1
<1> QED BY <1>2, <1>3, <1>4, <1>5, <1>6, <1>7, <1>8, <1>9 DEF BusMessages

\* A step that neither moves messages nor changes what driver and client hold
\* of the bus.
BusSame ==
    /\ UNCHANGED <<Started, Speed, Suspended, Messages>>
    /\ client'.speed = client.speed /\ (client'.suspended <=> client.suspended)
    /\ pc' = pc \/ (Started /\ pc' # "config")

\* Such a step preserves the invariant.
LEMMA BusSameKeeps == ASSUME IInv, IInv', ViewInv, BusSame PROVE ViewInv'
<1>1. client \in ClientViews /\ client' \in ClientViews /\ Messages \in Seq(MessageSet)
  BY DEF IInv, TypeOK
<1>2. ~Started' => pc' = "client" /\ client'.speed = "unknown" /\ ~client'.suspended
  BY DEF ViewInv, BusSame
<1>3. CASE Informed(client) /\ NoBusMessage(Messages)
  BY <1>2, <1>3 DEF ViewInv, BusSame, Informed, NoBusMessage
<1>4. CASE pc # "config" /\ Len(Messages) = 1 /\ Informed(Learn(client, Messages[1]))
  <2>1. Messages[1] \in MessageSet
    <3>1. 1 \in 1 .. Len(Messages)
      BY <1>4
    <3> QED BY <1>1, <3>1, ElementOfSeq
  <2>2. /\ Learn(client', Messages[1]).speed = Learn(client, Messages[1]).speed
        /\ Learn(client', Messages[1]).suspended <=> Learn(client, Messages[1]).suspended
    <3>1. Messages[1].type \in BusMessages \union {"Setup", "Result"}
      BY <2>1 DEF MessageSet
    <3>2. client'.speed = client.speed /\ (client'.suspended <=> client.suspended)
      BY DEF BusSame
    <3> QED BY <1>1, <2>1, <3>1, <3>2, LearnBus DEF BusMessages
  <2>3. Informed(Learn(client, Messages[1]))'
    BY <1>4, <2>2 DEF BusSame, Informed
  <2> QED BY <1>2, <1>4, <2>3 DEF ViewInv, BusSame
<1> QED BY <1>3, <1>4 DEF ViewInv

\* A step of Dwc3ProcessEvents that leaves a message for the client: with it
\* the client is informed.
LEMMA PushInforms ==
    ASSUME IInv, ViewInv, pc = "events", NEW m \in MessageSet,
           NextEvent(PushMessage(Messages, m)), UNCHANGED <<Started, client>>,
           \/ m.type \notin BusMessages /\ UNCHANGED <<Speed, Suspended>>
           \/ Informed(client) => Informed(Learn(client, m))'
    PROVE  ViewInv'
<1>1. Messages = <<>> /\ Started /\ Informed(client)
  BY DEF IInv, QueueInv, ViewInv
<1>2. MessageDepth - 1 # 0
  BY DriverAssumption, EndpointAssumption
<1>3. Messages' = <<m>>
  BY <1>1, <1>2 DEF NextEvent, PushMessage
<1>4. pc' = "pop"
  BY <1>3 DEF NextEvent
<1>5. CASE m.type \notin BusMessages /\ UNCHANGED <<Speed, Suspended>>
  <2>1. NoBusMessage(Messages')
    BY <1>3, <1>5 DEF NoBusMessage
  <2> QED BY <1>1, <1>5, <2>1 DEF ViewInv, Informed
<1>6. CASE Informed(Learn(client, m))'
  <2>1. Len(Messages') = 1 /\ Messages'[1] = m
    BY <1>3
  <2> QED BY <1>1, <1>4, <1>6, <2>1 DEF ViewInv
<1> QED BY <1>1, <1>5, <1>6

\* A step of Dwc3ProcessEvents that leaves none.
LEMMA NoPushSame ==
    ASSUME IInv, ViewInv, pc = "events", NextEvent(Messages),
           UNCHANGED <<Started, Speed, Suspended, client>>
    PROVE  BusSame
BY DEF BusSame, NextEvent, ViewInv

\* The calls of the client.
LEMMA ClientCallView == ASSUME IInv, IInv', ViewInv, ClientCall PROVE ViewInv'
<1>1. client \in ClientViews
  BY DEF IInv, TypeOK
<1>2. CASE StartController
  <2>1. /\ Started' /\ Speed' = "unknown" /\ Messages' = <<>> /\ client' = client
        /\ client.speed = "unknown" /\ ~client.suspended
    BY <1>2 DEF StartController, ViewInv
  <2>2. NoBusMessage(Messages')
    BY <2>1 DEF NoBusMessage
  <2> QED BY <2>1, <2>2 DEF ViewInv, Informed
<1>3. CASE StopController
  <2>1. /\ pc' = "client" /\ Speed' = "unknown" /\ Messages' = <<>>
        /\ client' = [FreshClient EXCEPT !.last = client.last]
    BY <1>3 DEF StopController, call
  <2>2. client'.speed = "unknown" /\ ~client'.suspended
    BY <2>1 DEF FreshClient
  <2>3. NoBusMessage(Messages')
    BY <2>1 DEF NoBusMessage
  <2> QED BY <2>1, <2>2, <2>3 DEF ViewInv, Informed
<1>4. ASSUME UNCHANGED <<Started, Speed, Suspended, Messages, pc, client>> PROVE ViewInv'
  BY <1>4, BusSameKeeps DEF BusSame
<1>5. ASSUME UNCHANGED <<Started, Speed, Suspended, Messages, pc>>, NEW x, NEW y,
             \/ client' = [client EXCEPT !.owes = x, !.configured = y]
             \/ client' = [client EXCEPT !.owes = x]
      PROVE  ViewInv'
  <2>1. client'.speed = client.speed /\ (client'.suspended <=> client.suspended)
    BY <1>1, <1>5 DEF ClientViews
  <2> QED BY <1>5, <2>1, BusSameKeeps DEF BusSame
<1>6. CASE ConfigureEnableEndpoints \/ ConfigureFails
  BY <1>4, <1>6 DEF ConfigureEnableEndpoints, ConfigureFails, driver, bus, call
<1>7. CASE \/ \E n \in Eps : AbortTransfer(n)
           \/ \E n \in Bulk, b \in BOOLEAN : SetEndpointStallState(n, b)
           \/ \E n \in Bulk, b \in BOOLEAN : SetEndpointPolicy(n, b)
           \/ \E n \in Bulk, aligned \in BOOLEAN : TransferBulk(n, aligned)
           \/ TransferEp0TooLong
  BY <1>4, <1>7 DEF AbortTransfer, SetEndpointStallState, SetEndpointPolicy, TransferBulk,
                    TransferEp0TooLong, driver, call
<1>8. CASE StallEp0
  BY <1>5, <1>8 DEF StallEp0, driver, call
<1>9. ASSUME NEW n \in ControlEps, TransferEp0(n) PROVE ViewInv'
  <2>1. UNCHANGED <<driver, Messages, call>> /\ \E x : client' = [client EXCEPT !.owes = x]
    BY <1>9 DEF TransferEp0
  <2> QED BY <1>5, <2>1 DEF driver, call
<1>10. ASSUME NEW n \in ControlEps, TransferEp0Refused(n) PROVE ViewInv'
  BY <1>5, <1>10 DEF TransferEp0Refused, driver, call
<1> QED BY <1>2, <1>3, <1>6, <1>7, <1>8, <1>9, <1>10, ClientCall DEF ClientCall

\* EventHandler's entry and exit.
LEMMA CallView == ASSUME IInv, IInv', ViewInv, EventHandler \/ PopMessage PROVE ViewInv'
<1>1. client \in ClientViews /\ Messages \in Seq(MessageSet)
  BY DEF IInv, TypeOK
<1>2. CASE EventHandler
  <2>1. client'.speed = client.speed /\ (client'.suspended <=> client.suspended)
    <3>1. client' = [client EXCEPT !.owes = "none"]
      BY <1>2 DEF EventHandler
    <3> QED BY <1>1, <3>1 DEF ClientViews
  <2>2. Started /\ pc' # "config" /\ UNCHANGED <<Started, Speed, Suspended, Messages>>
    BY <1>2 DEF EventHandler, driver
  <2> QED BY <2>1, <2>2, BusSameKeeps DEF BusSame
<1>3. CASE PopMessage
  <2>1. Started /\ pc' = "client" /\ UNCHANGED <<Started, Speed, Suspended>>
    BY <1>3 DEF PopMessage, driver, ViewInv
  <2>2. CASE Messages = <<>>
    BY <1>3, <2>1, <2>2, BusSameKeeps DEF PopMessage, BusSame
  <2>3. CASE Messages # <<>>
    <3> DEFINE m == Messages[1]
    <3>1. Messages' = Tail(Messages) /\ client' = Learn(client, m) /\ m \in MessageSet
      BY <1>1, <1>3, <2>3 DEF PopMessage
    <3>2. CASE Informed(client) /\ NoBusMessage(Messages)
      <4>1. m.type \notin BusMessages
        BY <1>1, <2>3, <3>2 DEF NoBusMessage
      <4>2. client'.speed = client.speed /\ (client'.suspended <=> client.suspended)
        <5>1. m.type \in {"Setup", "Result"}
          BY <3>1, <4>1 DEF MessageSet
        <5> HIDE DEF m
        <5> QED BY <1>1, <3>1, <5>1, LearnBus
      <4>3. NoBusMessage(Messages')
        BY <1>1, <2>3, <3>1, <3>2 DEF NoBusMessage
      <4> QED BY <2>1, <3>2, <4>2, <4>3 DEF ViewInv, Informed
    <3>3. CASE Len(Messages) = 1 /\ Informed(Learn(client, m))
      <4>1. Len(Messages') = 0
        BY <1>1, <2>3, <3>1, <3>3
      <4>2. NoBusMessage(Messages')
        BY <4>1 DEF NoBusMessage
      <4> QED BY <2>1, <3>1, <3>3, <4>2 DEF ViewInv, Informed
    <3> QED BY <3>2, <3>3 DEF ViewInv
  <2> QED BY <2>2, <2>3
<1> QED BY <1>2, <1>3

\* Events on endpoints.
LEMMA EndpointEventView == ASSUME IInv, IInv', ViewInv, EndpointEvent PROVE ViewInv'
<1>1. pc = "events" /\ Started /\ Messages = <<>> /\ Informed(client)
  <2>1. pc = "events"
    BY DEF EndpointEvent, BulkComplete, SetupAddress, SetupConfig, SetupPassed, Ep0DataComplete,
           Ep0StatusComplete, Ep0DataNotReady, Ep0StatusNotReady, IgnoredEvent, Ep0Complete, AtEvent
  <2> QED BY <2>1 DEF IInv, QueueInv, ViewInv
<1>2. /\ Endpoints \in EndpointTable /\ EventEp \in Eps /\ ep0.Buffer \in Packets
      /\ ResultStatus(Head(EventBuffer).err) \in Statuses
  BY <1>1, Ep0Facts DEF ResultStatus, Statuses
<1>3. ASSUME NextEvent(Messages), UNCHANGED <<Started, Speed, Suspended, client>> PROVE ViewInv'
  BY <1>1, <1>3, NoPushSame, BusSameKeeps
<1>4. ASSUME NEW m \in MessageSet, m.type \notin BusMessages, NextEvent(PushMessage(Messages, m)),
             UNCHANGED <<Started, Speed, Suspended, client>>
      PROVE  ViewInv'
  BY <1>1, <1>4, PushInforms
<1>5. \A s \in Statuses : /\ TransferResult(Endpoints, EventEp, s) \in MessageSet
                          /\ TransferResult(Endpoints, EventEp, s).type \notin BusMessages
  <2>1. \A s : TransferResult(Endpoints, EventEp, s).type = "Result"
    BY DEF TransferResult, BlankMessage
  <2> QED BY <1>2, <2>1, MessageTypes DEF BusMessages
<1>6. CASE BulkComplete
  <2>1. UNCHANGED <<Started, Speed, Suspended, client>>
    BY <1>6 DEF BulkComplete, driver
  <2>2. \/ NextEvent(Messages)
        \/ NextEvent(PushMessage(Messages,
                        TransferResult(Endpoints, EventEp, ResultStatus(Head(EventBuffer).err))))
    BY <1>6 DEF BulkComplete
  <2> QED BY <1>2, <1>3, <1>4, <1>5, <2>1, <2>2
<1>7. CASE SetupAddress
  BY <1>3, <1>7 DEF SetupAddress
<1>8. CASE SetupConfig
  <2>1. pc' = "config" /\ UNCHANGED <<Started, Speed, Suspended, client, Messages>>
    BY <1>8 DEF SetupConfig, driver
  <2>2. NoBusMessage(Messages')
    BY <1>1, <2>1 DEF NoBusMessage
  <2> QED BY <1>1, <2>1, <2>2 DEF ViewInv, Informed
<1>9. CASE SetupPassed
  <2>1. /\ UNCHANGED <<Started, Speed, Suspended, client>>
        /\ NextEvent(PushMessage(Messages, SetupMessage(ep0.Buffer)))
    BY <1>9 DEF SetupPassed, driver
  <2>2. SetupMessage(ep0.Buffer) \in MessageSet /\ SetupMessage(ep0.Buffer).type \notin BusMessages
    <3>1. SetupMessage(ep0.Buffer).type = "Setup"
      BY DEF SetupMessage, BlankMessage
    <3> QED BY <1>2, <3>1, MessageTypes DEF BusMessages
  <2> QED BY <1>4, <2>1, <2>2
<1>10. CASE Ep0DataComplete
  <2>1. /\ UNCHANGED <<Started, Speed, Suspended, client>>
        /\ NextEvent(PushMessage(Messages, TransferResult(Endpoints, EventEp, "Complete")))
    BY <1>10 DEF Ep0DataComplete, driver
  <2> QED BY <1>4, <1>5, <2>1 DEF Statuses
<1>11. CASE Ep0StatusComplete \/ Ep0DataNotReady \/ Ep0StatusNotReady \/ IgnoredEvent
  BY <1>3, <1>11 DEF Ep0StatusComplete, Ep0DataNotReady, Ep0StatusNotReady, IgnoredEvent, driver
<1> QED BY <1>6, <1>7, <1>8, <1>9, <1>10, <1>11 DEF EndpointEvent

\* The SET_CONFIG loop reports transfers and nothing about the bus.
LEMMA ConfigView ==
    ASSUME IInv, IInv', ViewInv, ResetNonControlEndpoint \/ ConfigDone
    PROVE  ViewInv'
<1>1. /\ pc = "config" /\ Started /\ Informed(client) /\ NoBusMessage(Messages)
      /\ UNCHANGED <<Started, Speed, Suspended, client>>
      /\ Messages \in Seq(MessageSet) /\ Messages' \in Seq(MessageSet)
  BY DEF ResetNonControlEndpoint, ConfigDone, AfterConfig, driver, ViewInv, IInv, TypeOK
<1>2. \/ Messages' = Messages
      \/ \E m : m.type \notin BusMessages /\ Messages' = PushMessage(Messages, m)
  <2>1. CASE ResetNonControlEndpoint
    <3>1. TransferResult(Endpoints, Index, "Aborted").type = "Result"
      BY DEF TransferResult, BlankMessage
    <3> QED BY <2>1, <3>1 DEF ResetNonControlEndpoint, BusMessages
  <2>2. CASE ConfigDone
    <3>1. SetupMessage(ep0.SetupPacket).type = "Setup"
      BY DEF SetupMessage, BlankMessage
    <3> QED BY <2>2, <3>1 DEF ConfigDone, AfterConfig, BusMessages
  <2> QED BY <2>1, <2>2
<1>3. NoBusMessage(Messages')
  <2>1. ASSUME NEW m, m.type \notin BusMessages, Messages' = Append(Messages, m)
        PROVE  NoBusMessage(Messages')
    <3>1. Len(Messages') = Len(Messages) + 1 /\ Len(Messages) \in Nat
      BY <1>1, <2>1
    <3>2. Messages'[Len(Messages) + 1] = m /\ \A i \in 1 .. Len(Messages) : Messages'[i] = Messages[i]
      BY <1>1, <2>1
    <3> QED BY <1>1, <2>1, <3>1, <3>2 DEF NoBusMessage
  <2> QED BY <1>1, <1>2, <2>1 DEF PushMessage
<1> QED BY <1>1, <1>3 DEF ViewInv, Informed

\* Events of the bus: each change of speed or suspend state comes with the
\* message that tells it.
LEMMA DeviceEventView == ASSUME IInv, IInv', ViewInv, DeviceEvent PROVE ViewInv'
<1>1. /\ pc = "events" /\ client \in ClientViews /\ host.speed \in Speeds
      /\ Suspended \in BOOLEAN /\ Suspended' \in BOOLEAN
  BY DEF DeviceEvent, BusDisconnect, BusReset, BusConnectDone, LinkStatusChange, Wakeup,
         AtEvent, IInv, TypeOK, HostViews
<1>2. \A t \in BusMessages : BusMessage(t) \in MessageSet /\ BusMessage(t).type = t
  BY MessageTypes DEF BusMessage, BlankMessage
<1>3. ASSUME NEW t \in BusMessages, NextEvent(PushMessage(Messages, BusMessage(t))),
             UNCHANGED <<Started, client>>,
             Informed(client) => Informed(Learn(client, BusMessage(t)))'
      PROVE  ViewInv'
  BY <1>1, <1>2, <1>3, PushInforms
<1>4. ASSUME NEW t \in BusMessages, t # "Speed"
      PROVE  /\ Learn(client, BusMessage(t)).speed = IF t = "Detach" THEN "unknown" ELSE client.speed
             /\ Learn(client, BusMessage(t)).suspended => t = "Suspend"
  <2>1. \/ t \in {"Reset", "Detach", "Resume"}
        \/ t = "Suspend"
    BY <1>4 DEF BusMessages
  <2> QED BY <1>1, <1>2, <1>4, <2>1, LearnBus
<1>5. CASE BusDisconnect
  <2>1. /\ NextEvent(PushMessage(Messages, BusMessage("Detach"))) /\ Speed' = "unknown"
        /\ UNCHANGED <<Started, client>> /\ "Detach" \in BusMessages
    BY <1>5 DEF BusDisconnect, BusMessages
  <2>2. Informed(Learn(client, BusMessage("Detach")))'
    BY <1>4, <2>1 DEF Informed
  <2> QED BY <1>3, <2>1, <2>2
<1>6. CASE BusReset
  <2>1. /\ NextEvent(PushMessage(Messages, BusMessage("Reset"))) /\ Speed' = Speed
        /\ UNCHANGED <<Started, client>> /\ "Reset" \in BusMessages
    BY <1>6 DEF BusReset, BusMessages
  <2>2. Informed(client) => Informed(Learn(client, BusMessage("Reset")))'
    BY <1>4, <2>1 DEF Informed
  <2> QED BY <1>3, <2>1, <2>2
<1>7. CASE BusConnectDone
  <2> DEFINE m == SpeedMessage(host.speed)
  <2>1. /\ NextEvent(PushMessage(Messages, m)) /\ Speed' = host.speed
        /\ UNCHANGED <<Started, Suspended, client, host>>
    BY <1>7 DEF BusConnectDone
  <2>2. m \in MessageSet /\ m.type = "Speed" /\ m.speed = host.speed
    BY <1>1, MessageTypes DEF SpeedMessage, BlankMessage
  <2> HIDE DEF m
  <2>3. Learn(client, m).speed = host.speed /\ (Learn(client, m).suspended <=> client.suspended)
    BY <1>1, <2>2, LearnBus
  <2>4. Informed(client) => Learn(client, m).speed = Speed' /\ (Learn(client, m).suspended => Suspended')
    BY <2>1, <2>3 DEF Informed
  <2>5. Informed(client) => Learn(client', m).speed = Speed' /\ (Learn(client', m).suspended => Suspended')
    BY <2>1, <2>4
  <2> QED BY <1>1, <2>1, <2>2, <2>5, PushInforms DEF Informed
<1>8. CASE LinkStatusChange
  <2>1. /\ NextEvent(SuspendMessages(Suspended')) /\ UNCHANGED <<Started, Speed, client>>
    BY <1>8 DEF LinkStatusChange
  <2>2. CASE Suspended' = Suspended
    BY <1>1, <2>1, <2>2, NoPushSame, BusSameKeeps DEF SuspendMessages
  <2>3. CASE Suspended' # Suspended
    <3>1. PICK t \in {"Suspend", "Resume"} :
             /\ NextEvent(PushMessage(Messages, BusMessage(t)))
             /\ t = "Suspend" => Suspended'
      BY <2>1, <2>3 DEF SuspendMessages
    <3>2. t \in BusMessages /\ t # "Speed" /\ t # "Detach"
      BY DEF BusMessages
    <3>3. Learn(client, BusMessage(t)).speed = client.speed
          /\ (Learn(client, BusMessage(t)).suspended => Suspended')
      BY <1>4, <3>1, <3>2
    <3>4. Informed(client) => Informed(Learn(client, BusMessage(t)))'
      BY <2>1, <3>3 DEF Informed
    <3> QED BY <1>3, <2>1, <3>1, <3>2, <3>4
  <2> QED BY <2>2, <2>3
<1>9. CASE Wakeup
  <2>1. /\ NextEvent(PushMessage(Messages, BusMessage("Resume"))) /\ Speed' = Speed
        /\ UNCHANGED <<Started, client>> /\ "Resume" \in BusMessages
    BY <1>9 DEF Wakeup, driver, BusMessages
  <2>2. Informed(client) => Informed(Learn(client, BusMessage("Resume")))'
    BY <1>4, <2>1 DEF Informed
  <2> QED BY <1>3, <2>1, <2>2
<1> QED BY <1>5, <1>6, <1>7, <1>8, <1>9 DEF DeviceEvent

\* The controller and the host touch neither the ring nor what driver and
\* client hold of the bus.
LEMMA EnvironmentView == ASSUME IInv, IInv', ViewInv, Environment PROVE ViewInv'
<1>1. UNCHANGED <<driver, Messages, call, client>>
  BY DEF Environment, ControlPipe, HostSetup, HostDataNotReady, HostData, HostEarlyStatus,
         HostStatusNotReady, HostStatus, HwPayload, HwComplete, HostReset, HostDisconnect,
         HostConnectDone, HostLink, HwOther
<1> QED BY <1>1, BusSameKeeps DEF BusSame, driver, call

\* A client that has read every message knows the speed of the bus, and does
\* not believe it suspended when the driver does not: for every order of bus
\* events, every ring depth and across stop and start, because the driver takes
\* no further event before the client has fetched the message of the last one.
THEOREM ClientIsInformed == Spec => []ClientView
<1>1. Init => ViewInv
  BY DEF Init, FreshClient, ViewInv, Informed, NoBusMessage
<1>2. ASSUME IInv, IInv', ViewInv, [Next]_vars PROVE ViewInv'
  <2>1. CASE Poll
    BY <1>2, <2>1, CallView, EndpointEventView, ConfigView, DeviceEventView DEF Poll
  <2>2. CASE UNCHANGED vars
    BY <1>2, <2>2, BusSameKeeps DEF BusSame, vars, driver, call
  <2> QED BY <1>2, <2>1, <2>2, ClientCallView, EnvironmentView DEF Next
<1>3. IInv /\ ViewInv => ClientView
  <2> SUFFICES ASSUME ViewInv, Messages = <<>> PROVE Informed(client)
    BY DEF ClientView, Quiescent, Informed
  <2> QED BY DEF ViewInv
<1> QED BY <1>1, <1>2, <1>3, Invariance, PTL DEF Spec

-----------------------------------------------------------------------------
(* What each step does to a bulk transfer.                                  *)

\* The event buffer q holds a completion of endpoint n.
Completion(q, n) == \E i \in 1 .. Len(q) : q[i].type = "complete" /\ q[i].ep = n

\* A step does not take the completion of n away.
CompletionKept(n) == Completion(EventBuffer, n) => Completion(EventBuffer', n)

\* The transfer goes on; a completion that counts stays in the buffer.
BulkGoesOn(n) ==
    /\ SameWork(Endpoints[n], Endpoints'[n])
    /\ Endpoints[n].Enabled /\ Reports(Endpoints[n]) => CompletionKept(n)

\* The driver forgets the transfer without stopping the controller.
BulkWiped(n) ==
    /\ Stopped(Endpoints[n], Endpoints'[n])
    /\ \/ AtEvent("connect")
       \/ pc = "client" /\ ~RunStop
       \/ ~(Endpoints[n].Enabled /\ Endpoints[n].TransferStarted)

\* The driver reports the transfer.
BulkReported(n) ==
    /\ Stopped(Endpoints[n], Endpoints'[n])
    /\ AtEvent("complete") /\ EventEp = n /\ Reports(Endpoints[n])

\* The client starts the transfer.
BulkBegun(n) ==
    /\ pc = "client" /\ Endpoints[n].Enabled
    /\ client.configured \/ "eager" \in ClientMay
    /\ xfers.next \in Buffers /\ UNCHANGED EventBuffer
    /\ \/ Begins(Endpoints[n], Endpoints'[n], "normal", xfers.next)
       \/ /\ Begins(Endpoints[n], Endpoints'[n], "chained", xfers.next)
          /\ Endpoints[n].ZeroLengthTermination

\* The controller moves the payload, or finishes.
BulkPaid(n) ==
    /\ Endpoints[n].run = "chained" /\ UNCHANGED EventBuffer
    /\ Releases(Endpoints[n], Endpoints'[n], "zlp")
    /\ Endpoints[n].id \in xfers'.landed

BulkFinished(n) ==
    /\ Endpoints[n].run \in {"normal", "zlp"}
    /\ Releases(Endpoints[n], Endpoints'[n], "idle")
    /\ Completion(EventBuffer', n)
    /\ Endpoints[n].id \in xfers'.landed \/ "buserr" \in HostMay

\* The client changes the policy of the endpoint.
BulkPolicy(n) == "policy" \in ClientMay /\ UNCHANGED EventBuffer /\
    \E x : Endpoints'[n] = [Endpoints[n] EXCEPT !.ZeroLengthTermination = x]

BulkStep(n) ==
    \/ BulkGoesOn(n) \/ Ends(Endpoints[n], Endpoints'[n]) \/ BulkWiped(n) \/ BulkReported(n)
    \/ BulkBegun(n) \/ BulkPaid(n) \/ BulkFinished(n) \/ BulkPolicy(n)

\* A step that leaves the entry alone and keeps the completion.
LEMMA BulkUntouched ==
    ASSUME NEW n, Endpoints'[n] = Endpoints[n], CompletionKept(n)
    PROVE  BulkStep(n)
BY DEF BulkStep, BulkGoesOn, SameWork

\* Appending to the buffer, and taking an event that is no completion of n.
LEMMA CompletionStays ==
    ASSUME IInv, NEW n,
           \/ UNCHANGED EventBuffer
           \/ \E e \in Events : Raise(e)
           \/ /\ pc = "events" /\ EventBuffer' = EventsLeft
              /\ Head(EventBuffer).type # "complete" \/ EventEp # n
    PROVE  CompletionKept(n)
<1>1. EventBuffer \in Seq(Events)
  BY DEF IInv, TypeOK
<1> SUFFICES ASSUME NEW i \in 1 .. Len(EventBuffer),
                    EventBuffer[i].type = "complete", EventBuffer[i].ep = n
             PROVE  Completion(EventBuffer', n)
  BY DEF CompletionKept, Completion
<1>2. CASE UNCHANGED EventBuffer
  BY <1>2 DEF Completion
<1>3. ASSUME NEW e \in Events, Raise(e) PROVE Completion(EventBuffer', n)
  <2>1. EventBuffer'[i] = EventBuffer[i] /\ i \in 1 .. Len(EventBuffer')
    BY <1>1, <1>3 DEF Raise
  <2> QED BY <2>1 DEF Completion
<1>4. CASE /\ pc = "events" /\ EventBuffer' = EventsLeft
           /\ Head(EventBuffer).type # "complete" \/ EventEp # n
  <2>1. EventBuffer # <<>> /\ EventBuffer' = Tail(EventBuffer) /\ Head(EventBuffer) = EventBuffer[1]
    BY <1>1, <1>4 DEF EventsLeft
  <2>2. i # 1
    BY <1>4, <2>1 DEF EventEp
  <2>3. i - 1 \in 1 .. Len(EventBuffer') /\ EventBuffer'[i - 1] = EventBuffer[i]
    BY <1>1, <2>1, <2>2
  <2> QED BY <2>3 DEF Completion
<1> QED BY <1>2, <1>3, <1>4

\* Dwc3Ep0OutStart and Dwc3Ep0StallAndRestart touch no bulk endpoint.
LEMMA Ep0RestartBulk ==
    ASSUME NEW E \in EndpointTable, NEW n \in Bulk, Ep0OutStart(E) \/ StallAndRestart(E)
    PROVE  Endpoints'[n] = E[n]
<1>1. ASSUME NEW F \in EndpointTable, Ep0OutStart(F) PROVE Endpoints'[n] = F[n]
  BY <1>1, BulkEp0Armed, ResultsBoolean DEF Ep0OutStart
<1>2. Ep0Unstalled(E) \in EndpointTable /\ Ep0Unstalled(E)[n] = E[n]
  BY Ep0UnstalledType, BulkEp0Armed
<1> QED BY <1>1, <1>2 DEF StallAndRestart

\* The calls of the client.
LEMMA ClientCallBulk == ASSUME IInv, NEW n \in Bulk, ClientCall PROVE BulkStep(n)
<1>1. Endpoints \in EndpointTable /\ Endpoints[n] \in Endpoint /\ n \in Eps
  BY BulkFacts DEF IInv, TypeOK, EndpointTable
<1>2. CASE StartController
  <2>1. ASSUME NEW e \in Endpoint
        PROVE  Ends(e, [e EXCEPT !.Enabled = FALSE, !.Stalled = FALSE,
                                 !.TransferStarted = FALSE, !.run = "idle", !.id = NULL])
    BY DEF Ends, Stopped, Endpoint
  <2> QED BY <1>1, <1>2, <2>1 DEF StartController, BulkStep
<1>3. CASE StopController
  <2>1. \/ Ends(Endpoints[n], Endpoints'[n])
        \/ Endpoints'[n] = Endpoints[n] /\ ~Endpoints[n].Enabled
    BY <1>1, <1>3, BulkConfigured DEF StopController
  <2> QED BY <2>1 DEF BulkStep, BulkGoesOn, SameWork
<1>4. CASE ConfigureEnableEndpoints
  <2> DEFINE S == ControlEps \union InterfaceEps
             F == EnableEndpoints(Endpoints, S)
  <2>1. pc = "client" /\ ~RunStop /\ Ep0OutStart(F) /\ UNCHANGED EventBuffer
    BY <1>4 DEF ConfigureEnableEndpoints
  <2>2. F \in EndpointTable /\ (F[n] = Endpoints[n] \/ Stopped(Endpoints[n], F[n]))
    BY <1>1, EnableEndpointsType, BulkConfigured
  <2> HIDE DEF F
  <2>3. Endpoints'[n] = F[n]
    BY <2>1, <2>2, Ep0RestartBulk
  <2> QED BY <2>1, <2>2, <2>3, CompletionStays, BulkUntouched DEF BulkStep, BulkWiped
<1>5. CASE ConfigureFails
  <2>1. PICK S : Endpoints' = EnableEndpoints(Endpoints, S)
    BY <1>5 DEF ConfigureFails
  <2>2. pc = "client" /\ ~RunStop /\ UNCHANGED EventBuffer
    BY <1>5 DEF ConfigureFails
  <2>3. Endpoints'[n] = Endpoints[n] \/ Stopped(Endpoints[n], Endpoints'[n])
    BY <1>1, <2>1, BulkConfigured
  <2> QED BY <2>2, <2>3, CompletionStays, BulkUntouched DEF BulkStep, BulkWiped
<1>6. ASSUME NEW m \in Eps, AbortTransfer(m) PROVE BulkStep(n)
  <2> DEFINE F == EndTransfer(Endpoints, m)
  <2>1. Endpoints' = [F EXCEPT ![m].TransferBuffer = NULL] /\ UNCHANGED EventBuffer
    BY <1>6 DEF AbortTransfer
  <2>2. F \in EndpointTable /\ F[n] = IF n = m THEN Ended(Endpoints[n]) ELSE Endpoints[n]
    BY <1>1, EndTransferType, BulkEndTransfer
  <2> HIDE DEF F
  <2>3. CASE n = m
    <3>1. Endpoints'[n] = [Ended(Endpoints[n]) EXCEPT !.TransferBuffer = NULL]
      BY <1>1, <2>1, <2>2, <2>3 DEF EndpointTable
    <3> QED BY <1>1, <3>1, EndedEnds DEF BulkStep
  <2>4. CASE n # m
    <3>1. Endpoints'[n] = Endpoints[n]
      BY <1>1, <2>1, <2>2, <2>4 DEF EndpointTable
    <3> QED BY <2>1, <3>1, CompletionStays, BulkUntouched
  <2> QED BY <2>3, <2>4
<1>7. ASSUME NEW m \in Bulk, NEW b \in BOOLEAN, SetEndpointStallState(m, b) PROVE BulkStep(n)
  <2>1. UNCHANGED EventBuffer /\ SameWork(Endpoints[n], Endpoints'[n])
    BY <1>1, <1>7, BulkHalt DEF SetEndpointStallState
  <2> QED BY <2>1, CompletionStays DEF BulkStep, BulkGoesOn
<1>8. CASE StallEp0
  <2>1. StallAndRestart(Endpoints) /\ UNCHANGED EventBuffer
    BY <1>8 DEF StallEp0
  <2> QED BY <1>1, <2>1, Ep0RestartBulk, CompletionStays, BulkUntouched
<1>9. ASSUME NEW m \in Bulk, NEW b \in BOOLEAN, SetEndpointPolicy(m, b) PROVE BulkStep(n)
  <2>1. /\ "policy" \in ClientMay /\ UNCHANGED EventBuffer
        /\ Endpoints' = [Endpoints EXCEPT ![m].ZeroLengthTermination = b]
    BY <1>9 DEF SetEndpointPolicy
  <2>2. CASE n = m
    BY <1>1, <2>1, <2>2 DEF EndpointTable, BulkStep, BulkPolicy
  <2>3. CASE n # m
    <3>1. Endpoints'[n] = Endpoints[n]
      BY <1>1, <2>1, <2>3 DEF EndpointTable
    <3> QED BY <2>1, <3>1, CompletionStays, BulkUntouched
  <2> QED BY <2>2, <2>3
<1>10. ASSUME NEW m \in Bulk, NEW aligned \in BOOLEAN, TransferBulk(m, aligned) PROVE BulkStep(n)
  <2> DEFINE type == NormalTrb(Endpoints[m], m, aligned)
             b == xfers.next
  <2>1. /\ pc = "client" /\ Endpoints[m].Enabled /\ (client.configured \/ "eager" \in ClientMay)
        /\ xfers.next <= MaxXfers /\ UNCHANGED EventBuffer
        /\ \E ok \in StartResults(Endpoints, m) : Submit(Endpoints, m, type, ok, FALSE)
    BY <1>10 DEF TransferBulk
  <2>2. PICK ok \in StartResults(Endpoints, m) : Submit(Endpoints, m, type, ok, FALSE)
    BY <2>1
  <2>0. ok \in BOOLEAN
    BY <2>2, ResultsBoolean
  <2>3. type \in TrbTypes /\ type \in {"normal", "chained"}
        /\ (type = "chained" => Endpoints[m].ZeroLengthTermination)
    BY DEF NormalTrb, TrbTypes
  <2>4. b \in Buffers
    BY <2>1, EndpointAssumption DEF IInv, TypeOK, Histories, Buffers
  <2>5. Endpoints' = Submitted(Endpoints, m, type, b, ok)
    BY <2>2 DEF Submit, Submitted
  <2> HIDE DEF type, b
  <2>6. /\ n # m => Endpoints'[n] = Endpoints[n]
        /\ ok => Begins(Endpoints[m], Endpoints'[m], type, b)
        /\ ~ok => Ends(Endpoints[m], Endpoints'[m])
    BY <1>1, <2>0, <2>3, <2>4, <2>5, BulkTransfer
  <2>7. CASE n # m
    BY <2>1, <2>6, <2>7, CompletionStays, BulkUntouched
  <2>8. CASE n = m /\ ~ok
    BY <2>6, <2>8 DEF BulkStep
  <2>9. CASE n = m /\ ok
    BY <2>1, <2>3, <2>4, <2>6, <2>9 DEF BulkStep, BulkBegun, b
  <2> QED BY <2>7, <2>8, <2>9
<1>11. ASSUME NEW m \in ControlEps, TransferEp0(m) PROVE BulkStep(n)
  <2> DEFINE F == EndTransfer(Endpoints, m)
             b == xfers.next
  <2>1. m \in {EP0_OUT, EP0_IN} /\ m \in Eps /\ m # n
    BY BulkFacts, ControlEpsFacts DEF ControlEps
  <2>2. F \in EndpointTable /\ F[n] = Endpoints[n]
    BY <1>1, <2>1, EndTransferType, BulkEndTransfer
  <2>3. PICK ok \in BOOLEAN : Submit(F, m, "data", ok, m = EP0_OUT)
    BY <1>11, ResultsBoolean DEF TransferEp0
  <2>4. Endpoints' = [StartTransfer(F, m, "data", b, ok)
                         EXCEPT ![m].TransferBuffer = IF ok THEN b ELSE NULL]
    BY <2>3 DEF Submit
  <2>5. xfers.next \in Buffers
    BY <1>11, EndpointAssumption DEF TransferEp0, IInv, TypeOK, Histories, Buffers
  <2> HIDE DEF F
  <2>6. StartTransfer(F, m, "data", b, ok)[n] = F[n]
    BY <2>1, <2>2, BulkEp0Start
  <2>7. StartTransfer(F, m, "data", b, ok) \in EndpointTable
    BY <2>1, <2>2, <2>5, StartTransferType DEF TrbTypes
  <2>8. Endpoints'[n] = Endpoints[n]
    <3> DEFINE G == StartTransfer(F, m, "data", b, ok)
    <3> HIDE DEF G
    <3>1. \A x : [G EXCEPT ![m].TransferBuffer = x][n] = G[n]
      BY <1>1, <2>1, <2>7 DEF EndpointTable, G
    <3> QED BY <2>2, <2>4, <2>6, <3>1 DEF G
  <2>9. UNCHANGED EventBuffer
    BY <1>11 DEF TransferEp0
  <2> QED BY <2>8, <2>9, CompletionStays, BulkUntouched
<1>12. CASE TransferEp0TooLong
  <2>1. Endpoints' = EndTransfer(Endpoints, EP0_OUT) /\ UNCHANGED EventBuffer
    BY <1>12 DEF TransferEp0TooLong
  <2>2. Endpoints'[n] = Endpoints[n]
    BY <1>1, <2>1, BulkEndTransfer, BulkFacts, EpsFacts
  <2> QED BY <2>1, <2>2, CompletionStays, BulkUntouched
<1>13. ASSUME NEW m \in ControlEps, TransferEp0Refused(m) PROVE BulkStep(n)
  BY <1>13, CompletionStays, BulkUntouched DEF TransferEp0Refused
<1> QED BY <1>2, <1>3, <1>4, <1>5, <1>6, <1>7, <1>8, <1>9, <1>10, <1>11, <1>12, <1>13
        DEF ClientCall

\* The steps of EventHandler.
LEMMA PollBulk == ASSUME IInv, NEW n \in Bulk, Poll PROVE BulkStep(n)
<1>1. Endpoints \in EndpointTable /\ Endpoints[n] \in Endpoint /\ n \in Eps
  BY BulkFacts DEF IInv, TypeOK, EndpointTable
<1>2. ASSUME pc = "events", EventBuffer' = EventsLeft, Endpoints'[n] = Endpoints[n],
             Head(EventBuffer).type # "complete" \/ EventEp # n
      PROVE  BulkStep(n)
  BY <1>2, CompletionStays, BulkUntouched
<1>3. ASSUME pc = "events", EventEp \in ControlEps
      PROVE  EventEp # n /\ EventEp \in Eps /\ Ep0Taken \in EndpointTable /\ Ep0Taken[n] = Endpoints[n]
  <2>1. EventEp # n /\ EventEp \in Eps /\ Ep0Taken \in EndpointTable
    BY <1>3, Ep0Facts, BulkFacts DEF ControlEps
  <2> QED BY <1>1, <2>1 DEF Ep0Taken, EndpointTable
<1>4. CASE EventHandler \/ PopMessage \/ ConfigDone
  BY <1>4, CompletionStays, BulkUntouched DEF EventHandler, PopMessage, ConfigDone, AfterConfig
<1>5. CASE BulkComplete
  <2> DEFINE m == EventEp
  <2>1. pc = "events" /\ AtEvent("complete") /\ m \in Bulk /\ m \in Eps /\ EventBuffer' = EventsLeft
    BY <1>5, BulkFacts DEF BulkComplete, AtEvent, NextEvent
  <2>2. CASE ~Reports(Endpoints[m])
    <3>1. Endpoints' = Endpoints
      BY <1>5, <2>2 DEF BulkComplete
    <3>2. CASE m = n
      BY <2>2, <3>1, <3>2 DEF BulkStep, BulkGoesOn, SameWork
    <3>3. CASE m # n
      BY <1>2, <2>1, <3>1, <3>3
    <3> QED BY <3>2, <3>3
  <2>3. CASE Reports(Endpoints[m])
    <3>1. Endpoints' = BulkTaken(Endpoints, m)
      BY <1>5, <2>3 DEF BulkComplete
    <3>2. CASE m = n
      <4>1. Endpoints'[n] = [Endpoints[n] EXCEPT !.TransferStarted = FALSE, !.ResourceIndex = 0,
                                                 !.TransferBuffer = NULL]
        BY <1>1, <3>1, <3>2 DEF BulkTaken, EndpointTable
      <4>2. Stopped(Endpoints[n], Endpoints'[n])
        BY <1>1, <4>1 DEF Stopped, Endpoint
      <4> QED BY <2>1, <2>3, <3>2, <4>2 DEF BulkStep, BulkReported
    <3>3. CASE m # n
      <4>1. Endpoints'[n] = Endpoints[n]
        BY <1>1, <3>1, <3>3 DEF BulkTaken, EndpointTable
      <4> QED BY <1>2, <2>1, <3>3, <4>1
    <3> QED BY <3>2, <3>3
  <2> QED BY <2>2, <2>3
<1>6. CASE SetupAddress \/ SetupConfig \/ SetupPassed
  <2>1. pc = "events" /\ EventEp \in ControlEps /\ Endpoints' = Ep0Taken /\ EventBuffer' = EventsLeft
    BY <1>6 DEF SetupAddress, SetupConfig, SetupPassed, Ep0Complete, AtEvent, NextEvent
  <2> QED BY <1>2, <1>3, <2>1
<1>7. CASE Ep0DataComplete
  <2>1. /\ pc = "events" /\ EventEp \in ControlEps /\ EventBuffer' = EventsLeft
        /\ Endpoints' = [Ep0Taken EXCEPT ![EventEp].TransferBuffer = NULL]
    BY <1>7 DEF Ep0DataComplete, Ep0Complete, AtEvent, NextEvent
  <2>2. Endpoints'[n] = Ep0Taken[n]
    BY <1>1, <1>3, <2>1 DEF EndpointTable
  <2> QED BY <1>2, <1>3, <2>1, <2>2
<1>8. CASE Ep0StatusComplete
  <2>1. pc = "events" /\ EventEp \in ControlEps /\ Ep0OutStart(Ep0Taken) /\ EventBuffer' = EventsLeft
    BY <1>8 DEF Ep0StatusComplete, Ep0Complete, AtEvent, NextEvent
  <2> QED BY <1>2, <1>3, <2>1, Ep0RestartBulk
<1>9. CASE Ep0DataNotReady
  <2> DEFINE m == IF ExpectIn(ep0.SetupPacket.req) THEN EP0_IN ELSE EP0_OUT
             F == EndTransfer(Endpoints, m)
  <2>1. F \in EndpointTable /\ F[n] = Endpoints[n]
    BY <1>1, EpsFacts, BulkFacts, EndTransferType, BulkEndTransfer
  <2>2. /\ pc = "events" /\ EventEp \in ControlEps /\ EventBuffer' = EventsLeft
        /\ StallAndRestart(F) \/ UNCHANGED Endpoints
    BY <1>9 DEF Ep0DataNotReady, AtEvent, NextEvent
  <2> HIDE DEF F
  <2> QED BY <1>2, <1>3, <2>1, <2>2, Ep0RestartBulk
<1>10. CASE Ep0StatusNotReady
  <2> DEFINE F == EndTransfer(Endpoints, EventEp)
  <2>1. pc = "events" /\ EventEp \in ControlEps /\ EventBuffer' = EventsLeft
    BY <1>10 DEF Ep0StatusNotReady, AtEvent, NextEvent
  <2>2. F \in EndpointTable /\ F[n] = Endpoints[n] /\ EventEp \in {EP0_OUT, EP0_IN}
    BY <1>1, <1>3, <2>1, EndTransferType, BulkEndTransfer DEF ControlEps
  <2>3. \/ UNCHANGED Endpoints
        \/ \E ok \in BOOLEAN : Endpoints' = StartTransfer(F, EventEp, "status", NULL, ok)
    BY <1>10, ResultsBoolean DEF Ep0StatusNotReady
  <2> HIDE DEF F
  <2>4. Endpoints'[n] = Endpoints[n]
    BY <2>2, <2>3, BulkEp0Start
  <2> QED BY <1>2, <1>3, <2>1, <2>4
<1>11. CASE IgnoredEvent \/ BusDisconnect \/ LinkStatusChange \/ Wakeup
  <2>1. /\ pc = "events" /\ EventBuffer' = EventsLeft /\ Head(EventBuffer).type # "complete"
        /\ UNCHANGED Endpoints
    BY <1>11 DEF IgnoredEvent, BusDisconnect, LinkStatusChange, Wakeup, AtEvent, NextEvent
  <2> QED BY <1>2, <2>1
<1>12. CASE BusReset
  <2>1. /\ pc = "events" /\ EventBuffer' = EventsLeft /\ Head(EventBuffer).type # "complete"
        /\ \E F : Endpoints' = ResetTable(Endpoints, F)
    BY <1>12 DEF BusReset, AtEvent, NextEvent
  <2>2. \/ Ends(Endpoints[n], Endpoints'[n])
        \/ Endpoints'[n] = Endpoints[n]
    BY <1>1, <2>1, BulkConfigured
  <2> QED BY <1>2, <2>1, <2>2 DEF BulkStep
<1>13. CASE BusConnectDone
  <2>1. /\ pc = "events" /\ EventBuffer' = EventsLeft /\ Head(EventBuffer).type # "complete"
        /\ AtEvent("connect")
        /\ \E S : \/ Ep0OutStart(EnableEndpoints(Endpoints, S))
                  \/ Endpoints' = EnableEndpoints(Endpoints, S)
    BY <1>13 DEF BusConnectDone, AtEvent, NextEvent
  <2>2. PICK S : \/ Ep0OutStart(EnableEndpoints(Endpoints, S))
                 \/ Endpoints' = EnableEndpoints(Endpoints, S)
    BY <2>1
  <2>3. /\ EnableEndpoints(Endpoints, S) \in EndpointTable
        /\ \/ EnableEndpoints(Endpoints, S)[n] = Endpoints[n]
           \/ Stopped(Endpoints[n], EnableEndpoints(Endpoints, S)[n])
    BY <1>1, EnableEndpointsType, BulkConfigured
  <2>4. Endpoints'[n] = Endpoints[n] \/ Stopped(Endpoints[n], Endpoints'[n])
    BY <2>2, <2>3, Ep0RestartBulk
  <2> QED BY <1>2, <2>1, <2>4 DEF BulkStep, BulkWiped
<1>14. CASE ResetNonControlEndpoint
  <2>1. Index \in Bulk /\ UNCHANGED EventBuffer
    BY <1>14, EndpointAssumption
       DEF ResetNonControlEndpoint, IInv, TypeOK, QueueInv, Bulk
  <2>2. PICK ok \in BOOLEAN : Endpoints' = Reconfigure(Endpoints, Index, ok)
    BY <1>14, ResultsBoolean DEF ResetNonControlEndpoint
  <2>3. /\ n # Index => Endpoints'[n] = Endpoints[n]
        /\ Endpoints'[Index] = Endpoints[Index] \/ Stopped(Endpoints[Index], Endpoints'[Index])
        /\ AbortsTransfer(Endpoints, Index) => Ends(Endpoints[Index], Endpoints'[Index])
    BY <1>1, <2>1, <2>2, BulkReconfigure
  <2> QED BY <2>1, <2>3, CompletionStays, BulkUntouched
          DEF BulkStep, BulkWiped, AbortsTransfer
<1> QED BY <1>4, <1>5, <1>6, <1>7, <1>8, <1>9, <1>10, <1>11, <1>12, <1>13, <1>14
        DEF Poll, EndpointEvent, DeviceEvent

\* The controller and the host.
LEMMA EnvironmentBulk == ASSUME IInv, NEW n \in Bulk, Environment PROVE BulkStep(n)
<1>1. Endpoints \in EndpointTable /\ n \in Eps /\ xfers \in Histories /\ EventBuffer \in Seq(Events)
  BY BulkFacts DEF IInv, TypeOK, EndpointTable
<1>2. ASSUME NEW e \in Events, Raise(e), Endpoints'[n] = Endpoints[n] PROVE BulkStep(n)
  BY <1>2, CompletionStays, BulkUntouched
<1>3. ASSUME NEW m \in Eps, m # n PROVE Completed(Endpoints, m)[n] = Endpoints[n]
  BY <1>1, <1>3, BulkHardware
<1>4. \A r : DataEp(r) \in Eps /\ StatusEp(r) \in Eps /\ DataEp(r) # n /\ StatusEp(r) # n
  BY EpsFacts, BulkFacts DEF DataEp, StatusEp
<1>5. \A m \in Eps : Event("complete", m) \in Events /\ Event("data", m) \in Events
                     /\ Event("status", m) \in Events /\ Event("other", m) \in Events
  BY EventTypes DEF EpEventTypes
<1>6. CASE \E r \in Requests : HostSetup(r)
  <2>1. Endpoints' = Completed(Endpoints, EP0_OUT) /\ Raise(Event("complete", EP0_OUT))
    BY <1>6 DEF HostSetup
  <2> QED BY <1>2, <1>3, <1>5, <2>1, EpsFacts, BulkFacts
<1>7. ASSUME NEW m \in ControlEps, HostDataNotReady(m) PROVE BulkStep(n)
  BY <1>2, <1>5, <1>7, ControlEpsFacts DEF HostDataNotReady
<1>8. CASE HostData
  <2>1. Endpoints' = Completed(Endpoints, DataEp(HostReq)) /\ Raise(Event("complete", DataEp(HostReq)))
    BY <1>8 DEF HostData
  <2> QED BY <1>2, <1>3, <1>4, <1>5, <2>1
<1>9. CASE HostEarlyStatus
  BY <1>9, CompletionStays, BulkUntouched DEF HostEarlyStatus
<1>10. CASE HostStatusNotReady
  BY <1>2, <1>4, <1>5, <1>10 DEF HostStatusNotReady
<1>11. CASE HostStatus
  <2>1. /\ Endpoints' = Completed(Endpoints, StatusEp(HostReq))
        /\ Raise(Event("complete", StatusEp(HostReq)))
    BY <1>11 DEF HostStatus
  <2> QED BY <1>2, <1>3, <1>4, <1>5, <2>1
<1>12. ASSUME NEW m \in Bulk, HwPayload(m) PROVE BulkStep(n)
  <2>1. /\ Endpoints[m].run = "chained" /\ Endpoints' = PayloadMoved(Endpoints, m)
        /\ xfers' = [xfers EXCEPT !.landed = xfers.landed \union {Endpoints[m].id}]
        /\ UNCHANGED EventBuffer /\ m \in Eps
    BY <1>12, BulkFacts DEF HwPayload
  <2>2. CASE m = n
    <3>1. Releases(Endpoints[n], Endpoints'[n], "zlp")
      BY <1>1, <2>1, <2>2, BulkHardware
    <3>2. Endpoints[n].id \in xfers'.landed
      BY <1>1, <2>1, <2>2 DEF Histories
    <3> QED BY <2>1, <2>2, <3>1, <3>2 DEF BulkStep, BulkPaid
  <2>3. CASE m # n
    <3>1. Endpoints'[n] = Endpoints[n]
      BY <1>1, <2>1, <2>3, BulkHardware
    <3> QED BY <2>1, <3>1, CompletionStays, BulkUntouched
  <2> QED BY <2>2, <2>3
<1>13. ASSUME NEW m \in Bulk, NEW err \in BOOLEAN, HwComplete(m, err) PROVE BulkStep(n)
  <2> DEFINE ev == [Event("complete", m) EXCEPT !.err = err]
  <2>1. /\ Endpoints[m].run \in {"normal", "zlp"} /\ Endpoints' = Completed(Endpoints, m)
        /\ xfers' = [xfers EXCEPT !.landed = IF err THEN xfers.landed
                                             ELSE xfers.landed \union {Endpoints[m].id}]
        /\ Raise(ev) /\ m \in Eps /\ (err => "buserr" \in HostMay)
    BY <1>13, BulkFacts DEF HwComplete
  <2>2. ev \in Events /\ ev.type = "complete" /\ ev.ep = m
    BY <2>1, EventTypes DEF Event
  <2> HIDE DEF ev
  <2>3. CASE m = n
    <3>1. Releases(Endpoints[n], Endpoints'[n], "idle")
      BY <1>1, <2>1, <2>3, BulkHardware
    <3>2. "buserr" \in HostMay \/ Endpoints[n].id \in xfers'.landed
      <4>1. CASE err
        BY <2>1, <4>1
      <4>2. CASE ~err
        BY <1>1, <2>1, <2>3, <4>2 DEF Histories
      <4> QED BY <4>1, <4>2
    <3>3. Completion(EventBuffer', n)
      <4>1. EventBuffer'[Len(EventBuffer')] = ev /\ Len(EventBuffer') \in 1 .. Len(EventBuffer')
        BY <1>1, <2>1, <2>2 DEF Raise
      <4> QED BY <2>2, <2>3, <4>1 DEF Completion
    <3> QED BY <2>1, <2>3, <3>1, <3>2, <3>3 DEF BulkStep, BulkFinished
  <2>4. CASE m # n
    BY <1>2, <1>3, <2>1, <2>2, <2>4
  <2> QED BY <2>3, <2>4
<1>14. CASE HostReset \/ HostDisconnect \/ (\E s \in HostSpeeds : HostConnectDone(s))
  <2>1. UNCHANGED Endpoints /\ \E t \in DevEventTypes : Raise(Event(t, EP0_OUT))
    BY <1>14 DEF HostReset, HostDisconnect, HostConnectDone, DevEventTypes
  <2> QED BY <1>2, <2>1, EventTypes, EpsFacts
<1>15. CASE \/ \E l \in LinkStates : HostLink([Event("link", EP0_OUT) EXCEPT !.link = l])
            \/ HostLink(Event("wakeup", EP0_OUT))
  <2>1. UNCHANGED Endpoints /\ \E e \in Events : Raise(e)
    BY <1>15, EventTypes, EpsFacts DEF HostLink, DevEventTypes
  <2> QED BY <1>2, <2>1
<1>16. CASE \E m \in Eps : HwOther(m)
  BY <1>2, <1>5, <1>16 DEF HwOther
<1> QED BY <1>6, <1>7, <1>8, <1>9, <1>10, <1>11, <1>12, <1>13, <1>14, <1>15, <1>16
        DEF Environment, ControlPipe

\* Every step does one of these to every bulk endpoint.
LEMMA EveryBulkStep == ASSUME IInv, NEW n \in Bulk, [Next]_vars PROVE BulkStep(n)
BY ClientCallBulk, PollBulk, EnvironmentBulk, CompletionStays, BulkUntouched DEF Next, vars

-----------------------------------------------------------------------------
(* A bulk result that says Complete is true, unless the bus has errors.     *)

\* A transfer is handed out, or its result is told.
HandedOut(n) ==
    /\ xfers.next \in Buffers /\ xfers.next # NULL
    /\ xfers'.told = xfers.told /\ xfers'.ep = [xfers.ep EXCEPT ![xfers.next] = n]
ResultTold(n, s) ==
    /\ xfers'.ep = xfers.ep
    /\ xfers'.told = Tell(xfers.told, Endpoints[n].TransferBuffer, s)
    /\ n \in Bulk /\ s = "Complete" => Endpoints[n].TransferStarted /\ Reports(Endpoints[n])
    /\ n \in Bulk \/ (Ep0DataComplete /\ n = EventEp)

\* What a step adds to the history.
HistoryStep ==
    /\ xfers.landed \subseteq xfers'.landed
    /\ \/ xfers'.told = xfers.told /\ xfers'.ep = xfers.ep
       \/ \E n \in Eps : HandedOut(n)
       \/ \E n \in Eps, s \in Statuses : ResultTold(n, s)

\* Every step of the specification adds to the history in one of these ways.
LEMMA EveryHistoryStep == ASSUME IInv, [Next]_vars PROVE HistoryStep
<1>1. xfers \in Histories /\ Endpoints \in EndpointTable
  BY DEF IInv, TypeOK
<1>2. ASSUME UNCHANGED xfers PROVE HistoryStep
  BY <1>2 DEF HistoryStep
<1>3. ASSUME NEW x, xfers' = [xfers EXCEPT !.landed = xfers.landed \union x] PROVE HistoryStep
  <2>1. xfers'.landed = xfers.landed \union x /\ xfers'.told = xfers.told /\ xfers'.ep = xfers.ep
    BY <1>1, <1>3 DEF Histories
  <2> QED BY <2>1 DEF HistoryStep
<1>4. ASSUME NEW E, NEW n \in Eps, NEW type, NEW ok \in BOOLEAN, NEW bounced,
             xfers.next <= MaxXfers, Submit(E, n, type, ok, bounced)
      PROVE  HistoryStep
  <2>1. xfers.next \in Buffers /\ xfers.next # NULL
    BY <1>1, <1>4, EndpointAssumption DEF Histories, Buffers, NULL
  <2>2. xfers' = xfers \/ xfers' = Accepted(n)
    BY <1>4 DEF Submit
  <2>3. /\ Accepted(n).landed = xfers.landed /\ Accepted(n).told = xfers.told
        /\ Accepted(n).ep = [xfers.ep EXCEPT ![xfers.next] = n]
    BY <1>1 DEF Accepted, Histories
  <2> QED BY <1>2, <2>1, <2>2, <2>3 DEF HistoryStep, HandedOut
<1>5. CASE ClientCall
  <2>1. ASSUME NEW n \in Bulk, NEW aligned \in BOOLEAN, TransferBulk(n, aligned) PROVE HistoryStep
    <3> DEFINE type == NormalTrb(Endpoints[n], n, aligned)
    <3>1. /\ xfers.next <= MaxXfers
          /\ \E ok \in StartResults(Endpoints, n) : Submit(Endpoints, n, type, ok, FALSE)
      BY <2>1 DEF TransferBulk
    <3>2. PICK ok \in StartResults(Endpoints, n) : Submit(Endpoints, n, type, ok, FALSE)
      BY <3>1
    <3>3. ok \in BOOLEAN /\ n \in Eps
      BY <3>2, ResultsBoolean, BulkFacts
    <3> HIDE DEF type
    <3> QED BY <1>4, <3>1, <3>2, <3>3
  <2>2. ASSUME NEW n \in ControlEps, TransferEp0(n) PROVE HistoryStep
    BY <1>4, <2>2, ResultsBoolean, ControlEpsFacts DEF TransferEp0
  <2> QED BY <1>2, <1>5, <2>1, <2>2
          DEF ClientCall, StartController, StopController, ConfigureEnableEndpoints, ConfigureFails,
              AbortTransfer, SetEndpointStallState, StallEp0, SetEndpointPolicy,
              TransferEp0TooLong, TransferEp0Refused
<1>6. ASSUME NEW n \in Eps, NEW s \in Statuses, NEW x,
             xfers' = [xfers EXCEPT !.landed = xfers.landed \union x,
                                    !.told = Tell(xfers.told, Endpoints[n].TransferBuffer, s)],
             n \in Bulk /\ s = "Complete" => Endpoints[n].TransferStarted /\ Reports(Endpoints[n]),
             n \in Bulk \/ (Ep0DataComplete /\ n = EventEp)
      PROVE  HistoryStep
  <2>1. /\ xfers'.landed = xfers.landed \union x /\ xfers'.ep = xfers.ep
        /\ xfers'.told = Tell(xfers.told, Endpoints[n].TransferBuffer, s)
    BY <1>1, <1>6 DEF Histories
  <2> QED BY <1>6, <2>1 DEF HistoryStep, ResultTold
<1>7. \A t : [xfers EXCEPT !.told = t] = [xfers EXCEPT !.landed = xfers.landed \union {}, !.told = t]
  BY <1>1 DEF Histories
<1>8. CASE BulkComplete
  <2> DEFINE st == ResultStatus(Head(EventBuffer).err)
  <2>1. EventEp \in Bulk /\ EventEp \in Eps /\ st \in Statuses
    BY <1>8, BulkFacts DEF BulkComplete, ResultStatus, Statuses
  <2>2. CASE ~Reports(Endpoints[EventEp])
    BY <1>2, <1>8, <2>2 DEF BulkComplete
  <2>3. CASE Reports(Endpoints[EventEp])
    <3>1. xfers' = [xfers EXCEPT !.told = Tell(xfers.told, Endpoints[EventEp].TransferBuffer, st)]
      BY <1>8, <2>3 DEF BulkComplete
    <3> HIDE DEF st
    <3> QED BY <1>6, <1>7, <2>1, <2>3, <3>1 DEF Reports
  <2> QED BY <2>2, <2>3
<1>9. CASE Ep0DataComplete
  <2>1. EventEp \in Eps /\ EventEp \notin Bulk /\ "Complete" \in Statuses
    BY <1>9, BulkFacts, ControlEpsFacts DEF Ep0DataComplete, Ep0Complete, ControlEps, Statuses
  <2>2. \E x : xfers' = [xfers EXCEPT !.landed = xfers.landed \union x,
                            !.told = Tell(xfers.told, Endpoints[EventEp].TransferBuffer, "Complete")]
    BY <1>9 DEF Ep0DataComplete
  <2> QED BY <1>6, <1>9, <2>1, <2>2
<1>10. CASE ResetNonControlEndpoint
  <2>1. Index \in Bulk /\ Index \in Eps /\ "Aborted" \in Statuses
    BY <1>10, EndpointAssumption
       DEF ResetNonControlEndpoint, IInv, TypeOK, QueueInv, Bulk, Eps, Statuses
  <2>2. \/ UNCHANGED xfers
        \/ xfers' = [xfers EXCEPT !.told = Tell(xfers.told, Endpoints[Index].TransferBuffer, "Aborted")]
    BY <1>10 DEF ResetNonControlEndpoint
  <2>3. CASE xfers' = [xfers EXCEPT !.told = Tell(xfers.told, Endpoints[Index].TransferBuffer, "Aborted")]
    <3>1. xfers' = [xfers EXCEPT !.landed = xfers.landed \union {},
                                 !.told = Tell(xfers.told, Endpoints[Index].TransferBuffer, "Aborted")]
      BY <1>7, <2>3
    <3> QED BY <1>6, <2>1, <3>1
  <2> QED BY <1>2, <2>2, <2>3
<1>11. CASE Poll
  BY <1>2, <1>8, <1>9, <1>10, <1>11
     DEF Poll, EventHandler, EndpointEvent, SetupAddress, SetupConfig, SetupPassed,
         Ep0StatusComplete, Ep0DataNotReady, Ep0StatusNotReady, IgnoredEvent, DeviceEvent,
         BusDisconnect, BusReset, BusConnectDone, LinkStatusChange, Wakeup, ConfigDone, AfterConfig, PopMessage
<1>12. CASE Environment
  <2>1. ASSUME NEW n \in Bulk, HwPayload(n) PROVE HistoryStep
    BY <1>3, <2>1 DEF HwPayload
  <2>2. ASSUME NEW n \in Bulk, NEW err \in BOOLEAN, HwComplete(n, err) PROVE HistoryStep
    <3>1. xfers.landed = xfers.landed \union {}
      OBVIOUS
    <3> QED BY <1>3, <2>2, <3>1 DEF HwComplete
  <2>3. CASE HostData
    BY <1>2, <1>3, <2>3 DEF HostData
  <2> QED BY <1>2, <1>12, <2>1, <2>2, <2>3
          DEF Environment, ControlPipe, HostSetup, HostDataNotReady, HostEarlyStatus,
              HostStatusNotReady, HostStatus, HostReset, HostDisconnect, HostConnectDone,
              HostLink, HwOther
<1>13. CASE UNCHANGED vars
  BY <1>2, <1>13 DEF vars
<1> QED BY <1>5, <1>11, <1>12, <1>13 DEF Next

\* While the driver waits for a transfer, the controller runs that transfer and
\* owns its TRB until the payload is moved; L are the buffers whose payload is.
Tracked(e, L) ==
    /\ e.run \in {"idle", "normal", "chained", "zlp"}
    /\ e.TransferStarted =>
          /\ e.run # "idle" => e.id = e.TransferBuffer
          /\ e.run \in {"normal", "chained"} => e.Trb.hwo
          /\ e.run \in {"idle", "zlp"} => e.TransferBuffer \in L

TrackInv ==
    /\ \A n \in Bulk : Tracked(Endpoints[n], xfers.landed)
    /\ xfers.ep[NULL] \notin Bulk
    /\ CompleteIsTrue

\* Without bus errors every step keeps a bulk transfer tracked.
LEMMA TrackedKept ==
    ASSUME IInv, NEW n \in Bulk, Tracked(Endpoints[n], xfers.landed), BulkStep(n), HistoryStep,
           "buserr" \notin HostMay
    PROVE  Tracked(Endpoints'[n], xfers'.landed)
<1> DEFINE e == Endpoints[n]
           f == Endpoints'[n]
           L == xfers.landed
           M == xfers'.landed
<1>1. e \in Endpoint /\ L \subseteq M
  BY BulkFacts DEF IInv, TypeOK, EndpointTable, HistoryStep
<1>2. Tracked(e, L)
  OBVIOUS
<1>3. CASE BulkGoesOn(n)
  <2>1. SameWork(e, f)
    BY <1>3 DEF BulkGoesOn
  <2> HIDE DEF e, f, L, M
  <2> QED BY <1>1, <1>2, <2>1 DEF Tracked, SameWork, e, f, M
<1>4. CASE Ends(e, f) \/ BulkWiped(n) \/ BulkReported(n)
  <2>1. Stopped(e, f)
    BY <1>4 DEF Ends, BulkWiped, BulkReported
  <2> HIDE DEF e, f, L, M
  <2> QED BY <1>1, <1>2, <2>1 DEF Tracked, Stopped, f, M
<1>5. CASE BulkBegun(n)
  <2>1. \E id : \E t \in {"normal", "chained"} : Begins(e, f, t, id)
    BY <1>5 DEF BulkBegun
  <2> HIDE DEF e, f, L, M
  <2> QED BY <2>1 DEF Tracked, Begins, f, M
<1>6. CASE BulkPaid(n)
  <2>1. e.run = "chained" /\ Releases(e, f, "zlp") /\ e.id \in M
    BY <1>6 DEF BulkPaid
  <2> HIDE DEF e, f, L, M
  <2> QED BY <1>1, <1>2, <2>1 DEF Tracked, Releases, f, M
<1>7. CASE BulkFinished(n)
  <2>1. e.run \in {"normal", "zlp"} /\ Releases(e, f, "idle") /\ e.id \in M
    BY <1>7 DEF BulkFinished
  <2> HIDE DEF e, f, L, M
  <2> QED BY <1>1, <1>2, <2>1 DEF Tracked, Releases, f, M
<1>8. CASE BulkPolicy(n)
  <2>1. PICK x : f = [e EXCEPT !.ZeroLengthTermination = x]
    BY <1>8 DEF BulkPolicy
  <2>2. /\ f.run = e.run /\ f.id = e.id /\ f.TransferBuffer = e.TransferBuffer
        /\ f.TransferStarted <=> e.TransferStarted
        /\ f.Trb.hwo <=> e.Trb.hwo
    BY <1>1, <2>1 DEF Endpoint
  <2> HIDE DEF e, f, L, M
  <2> QED BY <1>1, <1>2, <2>2 DEF Tracked, f, M
<1> QED BY <1>3, <1>4, <1>5, <1>6, <1>7, <1>8 DEF BulkStep

\* Every step keeps the results true.
LEMMA TrackInvKept ==
    ASSUME IInv, BufInv, TrackInv, [Next]_vars, "buserr" \notin HostMay
    PROVE  TrackInv'
<1>1. HistoryStep
  BY EveryHistoryStep
<1>2. \A n \in Bulk : Tracked(Endpoints'[n], xfers'.landed)
  BY <1>1, EveryBulkStep, TrackedKept DEF TrackInv
<1>3. /\ xfers.ep \in [Buffers -> Eps] /\ xfers.told \in [Buffers -> Told]
      /\ xfers.landed \subseteq xfers'.landed
      /\ \A n \in Eps : Endpoints[n].TransferBuffer \in Buffers
      /\ \A b \in Buffers : xfers.told[b] = "Complete" /\ xfers.ep[b] \in Bulk => b \in xfers.landed
      /\ xfers.ep[NULL] \notin Bulk /\ NULL \in Buffers
  BY <1>1, NullBuffer
     DEF IInv, TypeOK, Histories, EndpointTable, Endpoint, HistoryStep, TrackInv, CompleteIsTrue
<1>4. CASE xfers'.told = xfers.told /\ xfers'.ep = xfers.ep
  BY <1>2, <1>3, <1>4 DEF TrackInv, CompleteIsTrue
<1>5. ASSUME NEW n \in Eps, HandedOut(n) PROVE TrackInv'
  <2>1. xfers'.ep[NULL] \notin Bulk
    BY <1>3, <1>5 DEF HandedOut
  <2>2. xfers.told[xfers.next] = "none"
    <3>1. xfers.next >= xfers.next /\ xfers.next \in Buffers
      BY <1>5, EndpointAssumption DEF IInv, TypeOK, Histories, HandedOut
    <3> QED BY <3>1 DEF BufInv, OwnInv
  <2>3. ASSUME NEW b \in Buffers, xfers'.told[b] = "Complete", xfers'.ep[b] \in Bulk
        PROVE  b \in xfers'.landed
    <3>1. b # xfers.next
      BY <1>5, <2>2, <2>3 DEF HandedOut
    <3>2. xfers.told[b] = "Complete" /\ xfers.ep[b] \in Bulk
      BY <1>3, <1>5, <2>3, <3>1 DEF HandedOut
    <3> QED BY <1>3, <3>2
  <2> QED BY <1>2, <2>1, <2>3 DEF TrackInv, CompleteIsTrue
<1>6. ASSUME NEW n \in Eps, NEW s \in Statuses, ResultTold(n, s) PROVE TrackInv'
  <2> DEFINE c == Endpoints[n].TransferBuffer
  <2>1. xfers'.ep = xfers.ep /\ xfers'.told = Tell(xfers.told, c, s) /\ c \in Buffers
    BY <1>3, <1>6 DEF ResultTold
  <2>2. ASSUME NEW b \in Buffers, xfers'.told[b] = "Complete", xfers'.ep[b] \in Bulk
        PROVE  b \in xfers'.landed
    <3>1. CASE b # c
      <4>1. xfers.told[b] = "Complete"
        BY <1>3, <2>1, <2>2, <3>1 DEF Tell
      <4> QED BY <1>3, <2>1, <2>2, <4>1
    <3>2. CASE b = c
      <4>1. c # NULL
        BY <1>3, <2>1, <2>2, <3>2
      <4>2. xfers.ep[c] = n /\ xfers.told[c] = "none"
        BY <4>1 DEF BufInv, OwnInv
      <4>3. s = "Complete" /\ n \in Bulk
        BY <1>3, <2>1, <2>2, <3>2, <4>2 DEF Tell
      <4>4. Endpoints[n].TransferStarted /\ ~Endpoints[n].Trb.hwo /\ Tracked(Endpoints[n], xfers.landed)
        BY <1>6, <4>3 DEF ResultTold, Reports, TrackInv
      <4>5. c \in xfers.landed
        BY <4>4 DEF Tracked
      <4> QED BY <1>3, <3>2, <4>5
    <3> QED BY <3>1, <3>2
  <2> QED BY <1>2, <1>3, <2>1, <2>2 DEF TrackInv, CompleteIsTrue
<1> QED BY <1>1, <1>4, <1>5, <1>6 DEF HistoryStep

\* Without bus errors a bulk result Complete names a transfer whose payload has
\* been moved: no completion left from an aborted or cut-off transfer is ever
\* taken for that of the next one, for any order of aborts, resets, SET_CONFIG
\* requests and failing commands, with or without zero-length packets.  (With
\* bus errors the status bit of a stale event may be lost, which TLC shows.)
THEOREM ResultsAreTrue ==
    ASSUME "buserr" \notin HostMay
    PROVE  Spec => []CompleteIsTrue
<1>1. Init => TrackInv
  <2> SUFFICES ASSUME Init PROVE TrackInv
    OBVIOUS
  <2>1. \A n \in Bulk : Tracked(Endpoints[n], xfers.landed)
    BY BulkFacts DEF Init, ZeroEndpoint, Tracked
  <2>2. xfers.ep[NULL] \notin Bulk /\ \A b \in Buffers : xfers.told[b] = "none"
    BY NullBuffer DEF Init, Bulk
  <2> QED BY <2>1, <2>2 DEF TrackInv, CompleteIsTrue
<1>2. IInv /\ BufInv /\ TrackInv /\ [Next]_vars => TrackInv'
  BY TrackInvKept
<1>3. TrackInv => CompleteIsTrue
  BY DEF TrackInv
<1>4. Init => BufInv
  BY InitOwn
<1>5. IInv /\ BufInv /\ [Next]_vars => BufInv'
  BY NextOwn
<1> QED BY <1>1, <1>2, <1>3, <1>4, <1>5, Invariance, PTL DEF Spec

-----------------------------------------------------------------------------
(* No completion is lost, for a client that waits for SET_CONFIG and asks   *)
(* for no zero-length packets.                                              *)

\* The controller runs what the driver waits for, or its completion is in q.
Followed(e, q, n) ==
    /\ e.run \in {"idle", "normal"} /\ ~e.ZeroLengthTermination
    /\ e.run = "normal" => e.TransferStarted /\ e.ResourceIndex # 0 /\ e.Trb.hwo /\ Owns(e, "normal")
    /\ e.TransferStarted => e.Enabled
    /\ e.TransferStarted /\ e.run = "idle" => ~e.Trb.hwo /\ Completion(q, n)

\* Before the next SET_CONFIG the client will not start a bulk transfer: it is
\* not configured, or the message it fetches now tells it of the reset.
ConfigMessage(m) == m.type = "Setup" /\ m.packet.req = "SET_CONFIG"
NoConfigMessage(q) == \A i \in 1 .. Len(q) : ~ConfigMessage(q[i])
Unconfigured ==
    /\ pc # "config"
    /\ \/ ~client.configured /\ NoConfigMessage(Messages)
       \/ pc = "pop" /\ Len(Messages) = 1 /\ Messages[1].type = "Reset"
BulkIdle == \A n \in Bulk : Endpoints[n].run = "idle"
Calm == Unconfigured /\ BulkIdle

\* Only a completion on EP0 can bring a SET_CONFIG.  Position i of the queue q
\* is guarded if none lies between it and a bus reset, or the present calm.
ControlEvent(e) == e.type = "complete" /\ e.ep \in ControlEps
NoControl(q, i, j) == \A k \in i .. j : ~ControlEvent(q[k])
Guarded(q, calm, i) ==
    \/ calm /\ NoControl(q, 1, i - 1)
    \/ \E j \in 1 .. (i - 1) : q[j].type = "reset" /\ NoControl(q, j, i - 1)
ConnectsGuarded(q, calm) == \A i \in 1 .. Len(q) : q[i].type = "connect" => Guarded(q, calm, i)

\* CONNECT_DONE, which wipes the bulk endpoints, always comes guarded.
Guards(q, calm, b) ==
    /\ ConnectsGuarded(q, calm)
    /\ b = "reset" => Guarded(q, calm, Len(q) + 1)
GuardInv == Guards(EventBuffer, Calm, host.bus)

UpInv == host.phase # "idle" => host.bus = "up"

AllFollowed == \A n \in Bulk : Followed(Endpoints[n], EventBuffer, n)
LostInv ==
    /\ AllFollowed /\ GuardInv /\ UpInv
    /\ ~RunStop => Calm /\ EventBuffer = <<>>
    /\ RunStop => Started

\* Every step keeps a bulk transfer followed, if the driver forgets transfers
\* only while the controller runs none.
LEMMA FollowedKept ==
    ASSUME NEW n \in Bulk, Followed(Endpoints[n], EventBuffer, n), BulkStep(n),
           "eager" \notin ClientMay, "policy" \notin ClientMay,
           AtEvent("connect") \/ (pc = "client" /\ ~RunStop) => Endpoints[n].run = "idle"
    PROVE  Followed(Endpoints'[n], EventBuffer', n)
<1> DEFINE e == Endpoints[n]
           f == Endpoints'[n]
<1>1. Followed(e, EventBuffer, n)
  OBVIOUS
<1>2. CASE BulkGoesOn(n)
  <2>1. /\ SameWork(e, f)
        /\ e.Enabled /\ e.TransferStarted /\ ~e.Trb.hwo /\ Completion(EventBuffer, n)
              => Completion(EventBuffer', n)
    BY <1>2 DEF BulkGoesOn, CompletionKept, Reports
  <2> HIDE DEF e, f
  <2> QED BY <1>1, <2>1 DEF Followed, SameWork, Owns, f
<1>3. CASE Ends(e, f)
  <2> HIDE DEF e, f
  <2> QED BY <1>1, <1>3 DEF Followed, Ends, Stopped, f
<1>4. CASE BulkWiped(n)
  <2>1. Stopped(e, f) /\ (e.run = "idle" \/ ~(e.Enabled /\ e.TransferStarted))
    BY <1>4 DEF BulkWiped
  <2> HIDE DEF e, f
  <2> QED BY <1>1, <2>1 DEF Followed, Stopped, f
<1>5. CASE BulkReported(n)
  <2>1. Stopped(e, f) /\ ~e.Trb.hwo
    BY <1>5 DEF BulkReported, Reports
  <2> HIDE DEF e, f
  <2> QED BY <1>1, <2>1 DEF Followed, Stopped, f
<1>6. CASE BulkBegun(n)
  <2>1. e.Enabled /\ (Begins(e, f, "normal", xfers.next) \/ e.ZeroLengthTermination)
    BY <1>6 DEF BulkBegun
  <2> HIDE DEF e, f
  <2> QED BY <1>1, <2>1 DEF Followed, Begins, f
<1>7. CASE BulkPaid(n)
  BY <1>1, <1>7 DEF Followed, BulkPaid
<1>8. CASE BulkFinished(n)
  <2>1. e.run \in {"normal", "zlp"} /\ Releases(e, f, "idle") /\ Completion(EventBuffer', n)
    BY <1>8 DEF BulkFinished
  <2> HIDE DEF e, f
  <2> QED BY <1>1, <2>1 DEF Followed, Releases, f
<1> QED BY <1>2, <1>3, <1>4, <1>5, <1>6, <1>7, <1>8 DEF BulkStep, BulkPolicy

\* An idle bulk endpoint stays idle until a configured client starts a transfer.
LEMMA IdleKept ==
    ASSUME NEW n \in Bulk, Endpoints[n] \in Endpoint, Endpoints[n].run = "idle", BulkStep(n),
           pc = "client" => ~client.configured, "eager" \notin ClientMay
    PROVE  Endpoints'[n].run = "idle"
<1>1. CASE BulkGoesOn(n)
  BY <1>1 DEF BulkGoesOn, SameWork
<1>2. CASE Ends(Endpoints[n], Endpoints'[n]) \/ BulkWiped(n) \/ BulkReported(n)
  BY <1>2 DEF Ends, BulkWiped, BulkReported, Stopped
<1>3. CASE BulkPolicy(n)
  BY <1>3 DEF BulkPolicy, Endpoint
<1> QED BY <1>1, <1>2, <1>3 DEF BulkStep, BulkBegun, BulkPaid, BulkFinished

\* Only a Setup message makes a client configured.
LEMMA LearnConfigured ==
    ASSUME NEW c \in ClientViews, NEW m \in MessageSet
    PROVE  /\ m.type = "Reset" => ~Learn(c, m).configured
           /\ ~c.configured /\ ~ConfigMessage(m) => ~Learn(c, m).configured
<1>0. m.type \in BusMessages \union {"Setup", "Result"}
  BY DEF MessageSet
<1>1. CASE m.type = "Setup"
  <2>1. Learn(c, m) = [c EXCEPT !.owes = m.packet.req, !.last = m.packet.serial,
                       !.configured = c.configured \/ m.packet.req = "SET_CONFIG"]
    BY <1>1 DEF Learn
  <2>2. Learn(c, m).configured <=> c.configured \/ m.packet.req = "SET_CONFIG"
    BY <2>1 DEF ClientViews
  <2> QED BY <1>1, <2>2 DEF ConfigMessage
<1>2. CASE m.type \in {"Reset", "Detach"}
  BY <1>2 DEF Learn, ClientViews
<1>3. CASE m.type \in {"Speed", "Suspend", "Resume"}
  <2>1. Learn(c, m).configured <=> c.configured
    BY <1>3 DEF Learn, ClientViews
  <2> QED BY <1>3, <2>1
<1>4. CASE m.type = "Result"
  BY <1>4 DEF Learn
<1> QED BY <1>0, <1>1, <1>2, <1>3, <1>4 DEF BusMessages

\* Dwc3ProcessEvents takes an event.
EventTaken == pc = "events" /\ EventBuffer' = EventsLeft /\ (AtEvent("reset") => BusReset)

\* A step that moves no message and configures no client.
LEMMA UnconfiguredSame ==
    ASSUME Unconfigured, UNCHANGED <<pc, Messages>>, client'.configured => client.configured
    PROVE  Unconfigured'
BY DEF Unconfigured, NoConfigMessage

\* A step of Dwc3ProcessEvents whose message, if any, is no SET_CONFIG.
LEMMA UnconfiguredEvent ==
    ASSUME IInv, Unconfigured, pc = "events", UNCHANGED client, NEW m \in MessageSet,
           ~ConfigMessage(m), NextEvent(Messages) \/ NextEvent(PushMessage(Messages, m))
    PROVE  Unconfigured'
<1>1. Messages = <<>> /\ ~client.configured
  BY DEF IInv, QueueInv, Unconfigured
<1>2. Messages' = <<>> \/ Messages' = <<m>>
  BY <1>1 DEF NextEvent, PushMessage
<1>3. NoConfigMessage(Messages')
  <2>1. CASE Messages' = <<>>
    BY <2>1 DEF NoConfigMessage
  <2>2. CASE Messages' = <<m>>
    BY <2>2 DEF NoConfigMessage
  <2> QED BY <1>2, <2>1, <2>2
<1>4. pc' # "config"
  BY DEF NextEvent
<1> QED BY <1>1, <1>3, <1>4 DEF Unconfigured

\* The calls of the client.
LEMMA ClientCallUnconfigured == ASSUME IInv, Unconfigured, ClientCall PROVE Unconfigured'
<1>1. client \in ClientViews
  BY DEF IInv, TypeOK
<1>2. ASSUME UNCHANGED <<pc, Messages, client>> PROVE Unconfigured'
  BY <1>2, UnconfiguredSame
<1>3. ASSUME NEW x, UNCHANGED <<pc, Messages>>, client' = [client EXCEPT !.owes = x]
      PROVE  Unconfigured'
  <2>1. client'.configured <=> client.configured
    BY <1>1, <1>3 DEF ClientViews
  <2> QED BY <1>3, <2>1, UnconfiguredSame
<1>4. CASE StartController \/ StopController
  <2>1. pc' = "client" /\ Messages' = <<>> /\ pc = "client"
    BY <1>4 DEF StartController, StopController, call
  <2>2. ~client'.configured
    <3>1. ~client.configured
      BY <2>1 DEF Unconfigured
    <3>2. CASE StartController
      BY <3>1, <3>2 DEF StartController
    <3>3. CASE StopController
      BY <3>3 DEF StopController, FreshClient
    <3> QED BY <1>4, <3>2, <3>3
  <2>3. NoConfigMessage(Messages')
    BY <2>1 DEF NoConfigMessage
  <2> QED BY <2>1, <2>2, <2>3 DEF Unconfigured
<1>5. CASE StallEp0
  <2>1. UNCHANGED <<pc, Messages>>
    BY <1>5 DEF StallEp0, call
  <2>2. client'.configured => client.configured
    <3>1. client' = [client EXCEPT !.owes = "none",
                       !.configured = IF client.owes = "SET_CONFIG" THEN FALSE ELSE client.configured]
      BY <1>5 DEF StallEp0
    <3> QED BY <1>1, <3>1 DEF ClientViews
  <2> QED BY <2>1, <2>2, UnconfiguredSame
<1>6. ASSUME NEW n \in ControlEps, TransferEp0(n) PROVE Unconfigured'
  <2>1. UNCHANGED <<pc, Messages>> /\ \E x : client' = [client EXCEPT !.owes = x]
    BY <1>6 DEF TransferEp0, call
  <2> QED BY <1>3, <2>1
<1>7. ASSUME NEW n \in ControlEps, TransferEp0Refused(n) PROVE Unconfigured'
  BY <1>3, <1>7 DEF TransferEp0Refused, call
<1> QED BY <1>2, <1>4, <1>5, <1>6, <1>7
        DEF ClientCall, ConfigureEnableEndpoints, ConfigureFails, AbortTransfer, SetEndpointStallState,
            SetEndpointPolicy, TransferBulk, TransferEp0TooLong, call

\* The steps of EventHandler, except the completions on EP0.
LEMMA PollUnconfigured ==
    ASSUME IInv, Unconfigured, Poll, ~(EventTaken /\ ControlEvent(Head(EventBuffer)))
    PROVE  Unconfigured'
<1>1. client \in ClientViews /\ Messages \in Seq(MessageSet)
  BY DEF IInv, TypeOK
<1>2. CASE EventHandler
  <2>1. pc = "client" /\ pc' # "config" /\ client' = [client EXCEPT !.owes = "none"]
        /\ UNCHANGED Messages
    BY <1>2 DEF EventHandler
  <2>2. client'.configured <=> client.configured
    BY <1>1, <2>1 DEF ClientViews
  <2> QED BY <2>1, <2>2 DEF Unconfigured, NoConfigMessage
<1>3. CASE PopMessage
  <2>1. pc' = "client"
    BY <1>3 DEF PopMessage
  <2>2. CASE Messages = <<>>
    <3>1. ~client.configured
      BY <2>2 DEF Unconfigured
    <3>2. UNCHANGED <<Messages, client>>
      BY <1>3, <2>2 DEF PopMessage
    <3> QED BY <2>1, <2>2, <3>1, <3>2 DEF Unconfigured, NoConfigMessage
  <2>3. CASE Messages # <<>>
    <3> DEFINE m == Messages[1]
    <3>1. Messages' = Tail(Messages) /\ client' = Learn(client, m) /\ m \in MessageSet
      BY <1>1, <1>3, <2>3 DEF PopMessage
    <3>2. CASE ~client.configured /\ NoConfigMessage(Messages)
      <4>1. ~ConfigMessage(m)
        BY <1>1, <2>3, <3>2 DEF NoConfigMessage
      <4>2. NoConfigMessage(Messages')
        BY <1>1, <2>3, <3>1, <3>2 DEF NoConfigMessage
      <4> HIDE DEF m
      <4>3. ~client'.configured
        BY <1>1, <3>1, <3>2, <4>1, LearnConfigured
      <4> QED BY <2>1, <4>2, <4>3 DEF Unconfigured
    <3>3. CASE Len(Messages) = 1 /\ m.type = "Reset"
      <4>1. Len(Messages') = 0
        BY <1>1, <2>3, <3>1, <3>3
      <4>2. NoConfigMessage(Messages')
        BY <4>1 DEF NoConfigMessage
      <4> HIDE DEF m
      <4>3. ~client'.configured
        BY <1>1, <3>1, <3>3, LearnConfigured
      <4> QED BY <2>1, <4>2, <4>3 DEF Unconfigured
    <3> QED BY <3>2, <3>3 DEF Unconfigured
  <2> QED BY <2>2, <2>3
<1>4. /\ BusMessage("Reset") \in MessageSet /\ ~ConfigMessage(BusMessage("Reset"))
      /\ BusMessage("Detach") \in MessageSet /\ ~ConfigMessage(BusMessage("Detach"))
      /\ BusMessage("Suspend") \in MessageSet /\ ~ConfigMessage(BusMessage("Suspend"))
      /\ BusMessage("Resume") \in MessageSet /\ ~ConfigMessage(BusMessage("Resume"))
      /\ \A s \in Speeds : SpeedMessage(s) \in MessageSet /\ ~ConfigMessage(SpeedMessage(s))
  BY MessageTypes DEF BusMessages, BusMessage, SpeedMessage, BlankMessage, ConfigMessage
<1>5. CASE BulkComplete
  <2> DEFINE m == TransferResult(Endpoints, EventEp, ResultStatus(Head(EventBuffer).err))
  <2>1. pc = "events" /\ UNCHANGED client /\ (NextEvent(Messages) \/ NextEvent(PushMessage(Messages, m)))
    BY <1>5 DEF BulkComplete, AtEvent
  <2>2. m \in MessageSet
    BY <2>1, Ep0Facts, MessageTypes DEF ResultStatus, Statuses
  <2>3. ~ConfigMessage(m)
    BY DEF ConfigMessage, TransferResult, BlankMessage
  <2> QED BY <2>1, <2>2, <2>3, UnconfiguredEvent
<1>6. CASE Ep0DataNotReady \/ Ep0StatusNotReady \/ IgnoredEvent
  <2>1. pc = "events" /\ UNCHANGED client /\ NextEvent(Messages)
    BY <1>6 DEF Ep0DataNotReady, Ep0StatusNotReady, IgnoredEvent, AtEvent
  <2> QED BY <1>4, <2>1, UnconfiguredEvent
<1>7. CASE SetupAddress \/ SetupConfig \/ SetupPassed \/ Ep0DataComplete \/ Ep0StatusComplete
  <2>1. EventTaken /\ ControlEvent(Head(EventBuffer))
    BY <1>7 DEF SetupAddress, SetupConfig, SetupPassed, Ep0DataComplete, Ep0StatusComplete,
                Ep0Complete, AtEvent, EventEp, ControlEvent, EventTaken, NextEvent
  <2> QED BY <2>1
<1>8. CASE DeviceEvent
  <2>1. pc = "events" /\ UNCHANGED client /\ host.speed \in Speeds
    BY <1>8 DEF DeviceEvent, BusDisconnect, BusReset, BusConnectDone, LinkStatusChange, Wakeup,
                AtEvent, IInv, TypeOK, HostViews
  <2>2. \E m \in MessageSet :
           ~ConfigMessage(m) /\ (NextEvent(Messages) \/ NextEvent(PushMessage(Messages, m)))
    <3>1. CASE BusDisconnect \/ BusReset \/ Wakeup
      BY <1>4, <3>1 DEF BusDisconnect, BusReset, Wakeup
    <3>2. CASE BusConnectDone
      BY <1>4, <2>1, <3>2 DEF BusConnectDone
    <3>3. CASE LinkStatusChange
      BY <1>4, <3>3 DEF LinkStatusChange, SuspendMessages
    <3> QED BY <1>8, <3>1, <3>2, <3>3 DEF DeviceEvent
  <2> QED BY <2>1, <2>2, UnconfiguredEvent
<1>9. CASE ResetNonControlEndpoint \/ ConfigDone
  BY <1>9 DEF ResetNonControlEndpoint, ConfigDone, AfterConfig, Unconfigured
<1> QED BY <1>2, <1>3, <1>5, <1>6, <1>7, <1>8, <1>9 DEF Poll, EndpointEvent

\* Calm lasts until a completion on EP0 is taken.
LEMMA CalmKept ==
    ASSUME IInv, Calm, Next, ~(EventTaken /\ ControlEvent(Head(EventBuffer))),
           "eager" \notin ClientMay
    PROVE  Calm'
<1>1. Unconfigured'
  <2>1. CASE Environment
    <3>1. UNCHANGED <<pc, Messages, client>>
      BY <2>1 DEF Environment, ControlPipe, HostSetup, HostDataNotReady, HostData, HostEarlyStatus,
                  HostStatusNotReady, HostStatus, HwPayload, HwComplete, HostReset, HostDisconnect,
                  HostConnectDone, HostLink, HwOther, call
    <3> QED BY <3>1, UnconfiguredSame DEF Calm
  <2> QED BY <2>1, ClientCallUnconfigured, PollUnconfigured DEF Calm, Next
<1>2. ASSUME NEW n \in Bulk PROVE Endpoints'[n].run = "idle"
  <2>1. BulkStep(n) /\ Endpoints[n] \in Endpoint
    BY EveryBulkStep, BulkFacts DEF IInv, TypeOK, EndpointTable
  <2>2. Endpoints[n].run = "idle" /\ (pc = "client" => ~client.configured)
    BY DEF Calm, BulkIdle, Unconfigured
  <2> QED BY <2>1, <2>2, IdleKept
<1> QED BY <1>1, <1>2 DEF Calm, BulkIdle

\* The RESET event, and Dwc3StopController, make it calm.
LEMMA MadeCalm ==
    ASSUME IInv, AllFollowed, BusReset \/ StopController
    PROVE  Calm'
<1>1. Endpoints \in EndpointTable /\ Messages \in Seq(MessageSet)
  BY DEF IInv, TypeOK
<1>2. ASSUME NEW n \in Bulk PROVE Endpoints'[n].run = "idle"
  <2>1. \/ Endpoints'[n] = Endpoints[n] /\ ~Endpoints[n].Enabled
        \/ Ends(Endpoints[n], Endpoints'[n])
    BY <1>1, BulkConfigured DEF BusReset, StopController
  <2>2. Followed(Endpoints[n], EventBuffer, n)
    BY DEF AllFollowed
  <2> QED BY <2>1, <2>2 DEF Followed, Ends, Stopped
<1>3. CASE BusReset
  <2>1. Messages = <<>> /\ NextEvent(PushMessage(Messages, BusMessage("Reset")))
    BY <1>3 DEF BusReset, AtEvent, IInv, QueueInv
  <2>2. MessageDepth - 1 # 0
    BY DriverAssumption, EndpointAssumption
  <2>3. Messages' = <<BusMessage("Reset")>> /\ pc' = "pop"
    BY <2>1, <2>2 DEF NextEvent, PushMessage
  <2>4. BusMessage("Reset").type = "Reset"
    BY DEF BusMessage, BlankMessage
  <2>5. Unconfigured'
    BY <2>3, <2>4 DEF Unconfigured
  <2> QED BY <1>2, <2>5 DEF Calm, BulkIdle
<1>4. CASE StopController
  <2>1. pc' = "client" /\ Messages' = <<>> /\ ~client'.configured
    BY <1>4 DEF StopController, call, FreshClient
  <2>2. NoConfigMessage(Messages')
    BY <2>1 DEF NoConfigMessage
  <2> QED BY <1>2, <2>1, <2>2 DEF Calm, BulkIdle, Unconfigured
<1> QED BY <1>3, <1>4

\* A guarded position stays guarded when an event is appended.
LEMMA GuardedAppend ==
    ASSUME NEW q \in Seq(Events), NEW e \in Events, NEW c \in BOOLEAN, NEW d \in BOOLEAN, c => d
    PROVE  /\ \A i \in 1 .. (Len(q) + 1) : Guarded(q, c, i) => Guarded(Append(q, e), d, i)
           /\ Guarded(q, c, Len(q) + 1) /\ ~ControlEvent(e) => Guarded(Append(q, e), d, Len(q) + 2)
           /\ e.type = "reset" => Guarded(Append(q, e), d, Len(q) + 2)
<1> DEFINE r == Append(q, e)
           l == Len(q)
<1>1. l \in Nat /\ r[l + 1] = e /\ \A k \in 1 .. l : r[k] = q[k]
  OBVIOUS
<1> HIDE DEF r, l
<1>2. ASSUME NEW i \in 1 .. (l + 1), Guarded(q, c, i) PROVE Guarded(r, d, i)
  <2>1. ASSUME NEW j \in 1 .. i, NoControl(q, j, i - 1) PROVE NoControl(r, j, i - 1)
    BY <1>1, <2>1 DEF NoControl
  <2>2. CASE c /\ NoControl(q, 1, i - 1)
    <3>1. 1 \in 1 .. i
      BY <1>1
    <3> QED BY <2>1, <2>2, <3>1 DEF Guarded
  <2>3. ASSUME NEW j \in 1 .. (i - 1), q[j].type = "reset", NoControl(q, j, i - 1)
        PROVE  Guarded(r, d, i)
    <3>1. j \in 1 .. i /\ j \in 1 .. l
      BY <1>1
    <3> QED BY <1>1, <2>1, <2>3, <3>1 DEF Guarded
  <2> QED BY <1>2, <2>2, <2>3 DEF Guarded
<1>3. ASSUME Guarded(q, c, l + 1), ~ControlEvent(e) PROVE Guarded(r, d, l + 2)
  <2>1. ASSUME NEW j \in 1 .. (l + 1), NoControl(q, j, l) PROVE NoControl(r, j, l + 1)
    <3>1. ASSUME NEW k \in j .. (l + 1) PROVE ~ControlEvent(r[k])
      <4>1. k = l + 1 \/ (k \in 1 .. l /\ k \in j .. l)
        BY <1>1
      <4> QED BY <1>1, <1>3, <2>1, <4>1 DEF NoControl
    <3> QED BY <3>1 DEF NoControl
  <2>0. (l + 1) - 1 = l /\ (l + 2) - 1 = l + 1
    BY <1>1
  <2>2. CASE c /\ NoControl(q, 1, l)
    <3>1. 1 \in 1 .. (l + 1)
      BY <1>1
    <3> QED BY <2>0, <2>1, <2>2, <3>1 DEF Guarded
  <2>3. ASSUME NEW j \in 1 .. l, q[j].type = "reset", NoControl(q, j, l)
        PROVE  Guarded(r, d, l + 2)
    <3>1. j \in 1 .. (l + 1)
      BY <1>1
    <3> QED BY <1>1, <2>0, <2>1, <2>3, <3>1 DEF Guarded
  <2> QED BY <1>3, <2>0, <2>2, <2>3 DEF Guarded
<1>4. ASSUME e.type = "reset" PROVE Guarded(r, d, l + 2)
  <2>1. (l + 2) - 1 = l + 1 /\ l + 1 \in 1 .. (l + 1) /\ \A k \in (l + 1) .. (l + 1) : k = l + 1
    BY <1>1
  <2>2. NoControl(r, l + 1, l + 1)
    BY <1>1, <1>4, <2>1 DEF NoControl, ControlEvent
  <2> QED BY <1>1, <1>4, <2>1, <2>2 DEF Guarded
<1> QED BY <1>2, <1>3, <1>4 DEF r, l

\* It stays guarded when an event is taken, if a bus reset makes it calm and
\* the calm lasts.
LEMMA GuardedTail ==
    ASSUME NEW q \in Seq(Events), q # <<>>, NEW c \in BOOLEAN, NEW d \in BOOLEAN,
           q[1].type = "reset" => d, c /\ ~ControlEvent(q[1]) => d,
           NEW i \in 1 .. Len(q), Guarded(q, c, i + 1)
    PROVE  Guarded(Tail(q), d, i)
<1> DEFINE r == Tail(q)
           l == Len(q)
<1>1. l \in Nat /\ Len(r) = l - 1 /\ \A k \in 1 .. (l - 1) : r[k] = q[k + 1]
  OBVIOUS
<1>2. (i + 1) - 1 = i /\ i \in 1 .. l
  BY <1>1
<1> HIDE DEF r, l
<1>3. ASSUME NEW j \in 1 .. i, NoControl(q, j, i) PROVE NoControl(r, IF j = 1 THEN 1 ELSE j - 1, i - 1)
  <2>1. ASSUME NEW k \in (IF j = 1 THEN 1 ELSE j - 1) .. (i - 1) PROVE ~ControlEvent(r[k])
    <3>1. k \in 1 .. (l - 1) /\ k + 1 \in j .. i
      BY <1>1, <1>2
    <3> QED BY <1>1, <1>3, <3>1 DEF NoControl
  <2> QED BY <2>1 DEF NoControl
<1>4. CASE c /\ NoControl(q, 1, i)
  <2>1. 1 \in 1 .. i
    BY <1>2
  <2>2. d
    BY <1>4, <2>1 DEF NoControl
  <2>3. NoControl(r, 1, i - 1)
    BY <1>3, <1>4, <2>1
  <2> QED BY <2>2, <2>3 DEF Guarded, r
<1>5. ASSUME NEW j \in 1 .. i, q[j].type = "reset", NoControl(q, j, i) PROVE Guarded(r, d, i)
  <2>1. CASE j = 1
    BY <1>3, <1>5, <2>1 DEF Guarded
  <2>2. CASE j # 1
    <3>1. j - 1 \in 1 .. (i - 1) /\ j - 1 \in 1 .. (l - 1) /\ (j - 1) + 1 = j
      BY <1>1, <1>2, <2>2
    <3>2. NoControl(r, j - 1, i - 1) /\ r[j - 1] = q[j]
      BY <1>1, <1>3, <1>5, <2>2, <3>1
    <3> QED BY <1>5, <3>1, <3>2 DEF Guarded
  <2> QED BY <2>1, <2>2
<1> QED BY <1>2, <1>4, <1>5 DEF Guarded, r

\* What a step does to the event buffer and to the bus.
Appends(e) ==
    /\ RunStop /\ Raise(e)
    /\ e.type = "connect" => host.bus = "reset"
    /\ host'.bus = "reset" => e.type = "reset" \/ (host.bus = "reset" /\ ~ControlEvent(e))
QueueStep ==
    \/ UNCHANGED EventBuffer /\ host'.bus = host.bus
    \/ EventBuffer' = <<>> /\ host'.bus = "off"
    \/ EventTaken /\ host'.bus = host.bus
    \/ \E e \in Events : Appends(e)

\* The steps of client and driver.
LEMMA DriverQueue ==
    ASSUME IInv, UpInv, ~RunStop => EventBuffer = <<>>, RunStop => Started, ClientCall \/ Poll
    PROVE  QueueStep /\ UpInv'
<1>1. host \in HostViews
  BY DEF IInv, TypeOK
<1>2. IdleHost(host).bus = host.bus /\ IdleHost(host).phase = "idle"
  BY <1>1 DEF IdleHost, HostViews
<1>3. ASSUME host' = host \/ host' = IdleHost(host),
             \/ UNCHANGED EventBuffer
             \/ EventTaken
      PROVE  QueueStep /\ UpInv'
  <2>1. host'.bus = host.bus /\ (host'.phase # "idle" => host.phase # "idle")
    BY <1>2, <1>3
  <2> QED BY <1>3, <2>1 DEF QueueStep, UpInv
<1>4. CASE StartController
  <2>1. ~RunStop
    BY <1>4 DEF StartController
  <2>2. UNCHANGED <<EventBuffer, host>>
    BY <1>4, <2>1 DEF StartController
  <2> QED BY <1>3, <2>2
<1>5. CASE StopController
  <2>1. host' = [IdleHost(host) EXCEPT !.bus = "off", !.addr = 0] /\ EventBuffer' = <<>>
    BY <1>5 DEF StopController
  <2>2. host'.bus = "off" /\ host'.phase = "idle"
    BY <1>1, <2>1 DEF IdleHost, HostViews
  <2> QED BY <2>1, <2>2 DEF QueueStep, UpInv
<1>6. \A E : StallAndRestart(E) => host' = host \/ host' = IdleHost(host)
  BY DEF StallAndRestart
<1>7. CASE ClientCall
  <2>1. ASSUME ~StartController, ~StopController, ~StallEp0 PROVE UNCHANGED <<EventBuffer, host>>
    BY <1>7, <2>1
       DEF ClientCall, ConfigureEnableEndpoints, ConfigureFails, AbortTransfer, SetEndpointStallState,
           SetEndpointPolicy, TransferBulk, TransferEp0, TransferEp0TooLong, TransferEp0Refused
  <2>2. CASE StallEp0
    BY <1>3, <1>6, <2>2 DEF StallEp0
  <2> QED BY <1>3, <1>4, <1>5, <2>1, <2>2
<1>8. CASE EndpointEvent
  <2>1. EventTaken
    BY <1>8 DEF EventTaken, EndpointEvent, BulkComplete, SetupAddress, SetupConfig, SetupPassed, Ep0DataComplete,
                Ep0StatusComplete, Ep0DataNotReady, Ep0StatusNotReady, IgnoredEvent,
                Ep0Complete, AtEvent, NextEvent
  <2>2. CASE Ep0DataNotReady
    BY <1>3, <1>6, <2>1, <2>2 DEF Ep0DataNotReady
  <2>3. ASSUME ~Ep0DataNotReady PROVE UNCHANGED host
    BY <1>8, <2>3
       DEF EndpointEvent, BulkComplete, SetupAddress, SetupConfig, SetupPassed, Ep0DataComplete,
           Ep0StatusComplete, Ep0StatusNotReady, IgnoredEvent
  <2> QED BY <1>3, <2>1, <2>2, <2>3
<1>9. CASE DeviceEvent
  <2>1. EventTaken /\ UNCHANGED host
    BY <1>9 DEF EventTaken, DeviceEvent, BusDisconnect, BusReset, BusConnectDone, LinkStatusChange, Wakeup,
                AtEvent, NextEvent
  <2> QED BY <1>3, <2>1
<1>10. CASE EventHandler \/ ResetNonControlEndpoint \/ ConfigDone \/ PopMessage
  BY <1>3, <1>10 DEF EventHandler, ResetNonControlEndpoint, ConfigDone, AfterConfig, PopMessage
<1> QED BY <1>7, <1>8, <1>9, <1>10 DEF Poll

\* The steps of controller and host.
LEMMA EnvironmentQueue == ASSUME IInv, UpInv, Environment PROVE QueueStep /\ UpInv'
<1>1. host \in HostViews
  BY DEF IInv, TypeOK
<1>2. /\ IdleHost(host).bus = host.bus /\ IdleHost(host).phase = "idle"
      /\ \A x, y : /\ [IdleHost(host) EXCEPT !.bus = x, !.addr = y].bus = x
                   /\ [IdleHost(host) EXCEPT !.bus = x, !.addr = y].phase = "idle"
                   /\ [IdleHost(host) EXCEPT !.addr = y].bus = host.bus
                   /\ [IdleHost(host) EXCEPT !.addr = y].phase = "idle"
                   /\ [host EXCEPT !.phase = x, !.notified = y].bus = host.bus
                   /\ [host EXCEPT !.notified = y].bus = host.bus
                   /\ [host EXCEPT !.notified = y].phase = host.phase
                   /\ [host EXCEPT !.bus = x, !.speed = y].bus = x
                   /\ [host EXCEPT !.bus = x, !.speed = y].phase = host.phase
  BY <1>1 DEF IdleHost, HostViews
<1>3. ASSUME NEW e \in Events, RunStop, Raise(e), e.type # "connect", host'.bus = host.bus,
             host.bus = "up" \/ ~ControlEvent(e), UpInv'
      PROVE  QueueStep /\ UpInv'
  <2>1. Appends(e)
    BY <1>3 DEF Appends
  <2> QED BY <1>3, <2>1 DEF QueueStep
<1>4. /\ \A m \in Eps, t \in {"complete", "data", "status", "other"} :
             Event(t, m) \in Events /\ Event(t, m).type = t
      /\ \A t \in {"reset", "connect", "disconnect", "wakeup"} :
             Event(t, EP0_OUT) \in Events /\ Event(t, EP0_OUT).type = t
      /\ \A l \in LinkStates : /\ [Event("link", EP0_OUT) EXCEPT !.link = l] \in Events
                               /\ [Event("link", EP0_OUT) EXCEPT !.link = l].type = "link"
      /\ \A m \in Eps, err \in BOOLEAN :
             /\ [Event("complete", m) EXCEPT !.err = err] \in Events
             /\ [Event("complete", m) EXCEPT !.err = err].type = "complete"
             /\ [Event("complete", m) EXCEPT !.err = err].ep = m
  <2>1. \A t, m : Event(t, m).type = t
    BY DEF Event
  <2>2. \A m, l, err : /\ [Event("link", m) EXCEPT !.link = l].type = "link"
                       /\ [Event("complete", m) EXCEPT !.err = err].type = "complete"
                       /\ [Event("complete", m) EXCEPT !.err = err].ep = m
    BY DEF Event
  <2> QED BY <2>1, <2>2, EventTypes, EpsFacts DEF EpEventTypes, DevEventTypes
<1>5. \A r : DataEp(r) \in Eps /\ StatusEp(r) \in Eps
  BY EpsFacts DEF DataEp, StatusEp
<1>6. ASSUME NEW r \in Requests, HostSetup(r) PROVE QueueStep /\ UpInv'
  <2> DEFINE p == [req |-> r, serial |-> host.setups + 1]
             ph == IF ThreeStage(r) THEN "data" ELSE "status"
  <2>1. /\ RunStop /\ host.bus = "up" /\ Raise(Event("complete", EP0_OUT))
        /\ host' = [host EXCEPT !.phase = ph, !.packet = p, !.notified = FALSE,
                                !.setups = host.setups + 1]
    BY <1>6 DEF HostSetup, HwReady
  <2> HIDE DEF p, ph
  <2>2. host'.bus = host.bus
    BY <1>1, <2>1 DEF HostViews
  <2> QED BY <1>3, <1>4, <2>1, <2>2, EpsFacts DEF UpInv
<1>7. ASSUME NEW m \in ControlEps, HostDataNotReady(m) PROVE QueueStep /\ UpInv'
  <2>1. /\ RunStop /\ host.phase = "data" /\ Raise(Event("data", m)) /\ m \in Eps
        /\ host' = [host EXCEPT !.notified = TRUE]
    BY <1>7, ControlEpsFacts DEF HostDataNotReady, HwReady
  <2> QED BY <1>2, <1>3, <1>4, <2>1 DEF UpInv
<1>8. CASE HostData
  <2>1. /\ RunStop /\ host.phase = "data" /\ Raise(Event("complete", DataEp(HostReq)))
        /\ host' = [host EXCEPT !.phase = "status", !.notified = FALSE]
    BY <1>8 DEF HostData, HwReady
  <2> QED BY <1>2, <1>3, <1>4, <1>5, <2>1 DEF UpInv
<1>9. CASE HostEarlyStatus
  <2>1. /\ host.phase = "data" /\ UNCHANGED EventBuffer
        /\ host' = [host EXCEPT !.phase = "status", !.notified = FALSE]
    BY <1>9 DEF HostEarlyStatus
  <2> QED BY <1>2, <2>1 DEF UpInv, QueueStep
<1>10. CASE HostStatusNotReady
  <2>1. /\ RunStop /\ host.phase = "status" /\ Raise(Event("status", StatusEp(HostReq)))
        /\ host' = [host EXCEPT !.notified = TRUE]
    BY <1>10 DEF HostStatusNotReady, HwReady
  <2> QED BY <1>2, <1>3, <1>4, <1>5, <2>1 DEF UpInv
<1>11. CASE HostStatus
  <2>1. /\ RunStop /\ host.phase = "status" /\ Raise(Event("complete", StatusEp(HostReq)))
        /\ \E y : host' = [IdleHost(host) EXCEPT !.addr = y]
    <3>1. host' = [IdleHost(host) EXCEPT !.addr = IF HostReq = "SET_ADDRESS" THEN 1 ELSE IdleHost(host).addr]
      BY <1>11 DEF HostStatus
    <3> QED BY <1>11, <3>1 DEF HostStatus, HwReady
  <2> QED BY <1>2, <1>3, <1>4, <1>5, <2>1 DEF UpInv
<1>12. ASSUME NEW m \in Bulk, HwPayload(m) PROVE QueueStep /\ UpInv'
  BY <1>12 DEF HwPayload, QueueStep, UpInv
<1>13. ASSUME NEW m \in Bulk, NEW err \in BOOLEAN, HwComplete(m, err) PROVE QueueStep /\ UpInv'
  <2>1. RunStop /\ Raise([Event("complete", m) EXCEPT !.err = err]) /\ UNCHANGED host
    BY <1>13 DEF HwComplete, HwReady
  <2>2. m \in Eps /\ m \notin ControlEps
    BY BulkFacts DEF ControlEps
  <2> QED BY <1>3, <1>4, <2>1, <2>2 DEF UpInv, ControlEvent
<1>14. CASE HostReset
  <2>1. /\ RunStop /\ Raise(Event("reset", EP0_OUT))
        /\ host' = [IdleHost(host) EXCEPT !.bus = "reset", !.addr = 0]
    BY <1>14 DEF HostReset, HwReady
  <2>2. Appends(Event("reset", EP0_OUT)) /\ UpInv'
    BY <1>2, <1>4, <2>1 DEF Appends, UpInv
  <2> QED BY <1>4, <2>2 DEF QueueStep
<1>15. ASSUME NEW s \in HostSpeeds, HostConnectDone(s) PROVE QueueStep /\ UpInv'
  <2>1. /\ RunStop /\ Raise(Event("connect", EP0_OUT)) /\ host.bus = "reset"
        /\ host' = [host EXCEPT !.bus = "up", !.speed = s]
    BY <1>15 DEF HostConnectDone, HwReady
  <2>2. host'.bus = "up"
    BY <1>2, <2>1
  <2>3. Appends(Event("connect", EP0_OUT)) /\ UpInv'
    BY <2>1, <2>2 DEF Appends, UpInv
  <2> QED BY <1>4, <2>3 DEF QueueStep
<1>16. CASE HostDisconnect
  <2>1. /\ RunStop /\ Raise(Event("disconnect", EP0_OUT))
        /\ host' = [IdleHost(host) EXCEPT !.bus = "off", !.addr = 0]
    BY <1>16 DEF HostDisconnect, HwReady
  <2>2. Appends(Event("disconnect", EP0_OUT)) /\ UpInv'
    BY <1>2, <1>4, <2>1 DEF Appends, UpInv
  <2> QED BY <1>4, <2>2 DEF QueueStep
<1>17. CASE \/ \E l \in LinkStates : HostLink([Event("link", EP0_OUT) EXCEPT !.link = l])
            \/ HostLink(Event("wakeup", EP0_OUT))
            \/ \E m \in Eps : HwOther(m)
  <2>1. \E e \in Events : /\ RunStop /\ Raise(e) /\ UNCHANGED host
                          /\ e.type # "connect" /\ ~ControlEvent(e)
    BY <1>4, <1>17 DEF HostLink, HwOther, HwReady, ControlEvent
  <2> QED BY <1>3, <2>1 DEF UpInv
<1> QED BY <1>6, <1>7, <1>8, <1>9, <1>10, <1>11, <1>12, <1>13, <1>14, <1>15, <1>16, <1>17
        DEF Environment, ControlPipe

\* RUN_STOP is cleared by Dwc3StopController only.
LEMMA RunStopStep ==
    ASSUME Next, RunStop => Started
    PROVE  (RunStop' => Started') /\ (~RunStop' => ~RunStop \/ StopController)
<1>1. ASSUME UNCHANGED <<Started, RunStop>>
      PROVE  (RunStop' => Started') /\ (~RunStop' => ~RunStop \/ StopController)
  BY <1>1
<1>2. CASE ClientCall
  BY <1>1, <1>2
     DEF ClientCall, StartController, StopController, ConfigureEnableEndpoints, ConfigureFails,
         AbortTransfer, SetEndpointStallState, StallEp0, SetEndpointPolicy, TransferBulk, TransferEp0,
         TransferEp0TooLong, TransferEp0Refused, driver
<1>3. CASE Poll
  BY <1>1, <1>3
     DEF Poll, EventHandler, EndpointEvent, BulkComplete, SetupAddress, SetupConfig, SetupPassed,
         Ep0DataComplete, Ep0StatusComplete, Ep0DataNotReady, Ep0StatusNotReady, IgnoredEvent,
         DeviceEvent, BusDisconnect, BusReset, BusConnectDone, LinkStatusChange, Wakeup,
         ResetNonControlEndpoint, ConfigDone, AfterConfig, PopMessage, driver
<1>4. CASE Environment
  BY <1>1, <1>4
     DEF Environment, ControlPipe, HostSetup, HostDataNotReady, HostData, HostEarlyStatus,
         HostStatusNotReady, HostStatus, HwPayload, HwComplete, HostReset, HostDisconnect,
         HostConnectDone, HostLink, HwOther, driver
<1> QED BY <1>2, <1>3, <1>4 DEF Next

\* Every step keeps the guards, if a bus reset makes it calm (d) and the calm c
\* lasts until a completion on EP0 is taken.
LEMMA GuardKept ==
    ASSUME IInv, NEW c \in BOOLEAN, NEW d \in BOOLEAN, Guards(EventBuffer, c, host.bus), QueueStep,
           c /\ ~(EventTaken /\ ControlEvent(Head(EventBuffer))) => d,
           BusReset => d
    PROVE  Guards(EventBuffer', d, host'.bus)
<1> DEFINE q == EventBuffer
           r == EventBuffer'
<1>1. /\ q \in Seq(Events)
      /\ pc = "events" => q # <<>> /\ Head(q) = q[1]
  BY DEF IInv, TypeOK, QueueInv
<1>2. CASE EventBuffer' = <<>> /\ host'.bus = "off"
  BY <1>2 DEF Guards, ConnectsGuarded
<1>3. CASE EventTaken /\ host'.bus = host.bus
  <2>1. q # <<>> /\ r = Tail(q) /\ (q[1].type = "reset" => d) /\ (c /\ ~ControlEvent(q[1]) => d)
    BY <1>1, <1>3 DEF EventTaken, AtEvent, EventsLeft
  <2>2. Len(r) = Len(q) - 1 /\ Len(q) \in Nat \ {0} /\ \A i \in 1 .. Len(r) : r[i] = q[i + 1]
    BY <1>1, <2>1
  <2> HIDE DEF q, r
  <2>3. ASSUME NEW i \in 1 .. Len(q), Guarded(q, c, i + 1) PROVE Guarded(r, d, i)
    BY <1>1, <2>1, <2>3, GuardedTail
  <2>4. ASSUME NEW i \in 1 .. Len(r), r[i].type = "connect" PROVE Guarded(r, d, i)
    <3>1. i \in 1 .. Len(q) /\ i + 1 \in 1 .. Len(q)
      BY <2>2
    <3>2. Guarded(q, c, i + 1)
      BY <2>2, <2>4, <3>1 DEF Guards, ConnectsGuarded, q
    <3> QED BY <2>3, <3>1, <3>2
  <2>5. ASSUME host'.bus = "reset" PROVE Guarded(r, d, Len(r) + 1)
    <3>1. Len(q) \in 1 .. Len(q) /\ Len(r) + 1 = Len(q)
      BY <2>2
    <3>2. Guarded(q, c, Len(q) + 1)
      BY <1>3, <2>5 DEF Guards, q
    <3> QED BY <2>3, <3>1, <3>2
  <2> QED BY <2>4, <2>5 DEF Guards, ConnectsGuarded, r
<1>4. ASSUME Len(r) # Len(q) - 1 PROVE c => d
  <2>1. pc = "events" => Len(EventsLeft) = Len(q) - 1
    BY <1>1 DEF EventsLeft
  <2> QED BY <1>4, <2>1 DEF EventTaken
<1>5. CASE UNCHANGED EventBuffer /\ host'.bus = host.bus
  <2>1. c => d
    BY <1>1, <1>4, <1>5
  <2>2. ASSUME NEW i, Guarded(q, c, i) PROVE Guarded(q, d, i)
    BY <2>1, <2>2 DEF Guarded
  <2> QED BY <1>5, <2>2 DEF Guards, ConnectsGuarded
<1>6. ASSUME NEW e \in Events, Appends(e) PROVE Guards(EventBuffer', d, host'.bus)
  <2>1. r = Append(q, e)
    BY <1>6 DEF Appends, Raise
  <2>2. Len(r) = Len(q) + 1 /\ Len(q) \in Nat /\ r[Len(q) + 1] = e
        /\ \A i \in 1 .. Len(q) : r[i] = q[i]
    BY <1>1, <2>1
  <2>3. c => d
    <3>1. Len(r) # Len(q) - 1
      BY <2>2
    <3> QED BY <1>4, <3>1
  <2>4. /\ e.type = "connect" => host.bus = "reset"
        /\ host'.bus = "reset" => e.type = "reset" \/ (host.bus = "reset" /\ ~ControlEvent(e))
    BY <1>6 DEF Appends
  <2> HIDE DEF q, r
  <2>5. /\ \A i \in 1 .. (Len(q) + 1) : Guarded(q, c, i) => Guarded(r, d, i)
        /\ Guarded(q, c, Len(q) + 1) /\ ~ControlEvent(e) => Guarded(r, d, Len(q) + 2)
        /\ e.type = "reset" => Guarded(r, d, Len(q) + 2)
    BY <1>1, <2>1, <2>3, GuardedAppend
  <2>6. host.bus = "reset" => Guarded(q, c, Len(q) + 1)
    BY DEF Guards, q
  <2>7. ASSUME NEW i \in 1 .. Len(r), r[i].type = "connect" PROVE Guarded(r, d, i)
    <3>1. i \in 1 .. (Len(q) + 1) /\ (i \in 1 .. Len(q) \/ i = Len(q) + 1)
      BY <2>2
    <3>2. Guarded(q, c, i)
      <4>1. CASE i \in 1 .. Len(q)
        BY <2>2, <2>7, <4>1 DEF Guards, ConnectsGuarded, q
      <4>2. CASE i = Len(q) + 1
        BY <2>2, <2>4, <2>6, <2>7, <4>2
      <4> QED BY <3>1, <4>1, <4>2
    <3> QED BY <2>5, <3>1, <3>2
  <2>8. ASSUME host'.bus = "reset" PROVE Guarded(r, d, Len(r) + 1)
    <3>1. Len(r) + 1 = Len(q) + 2
      BY <2>2
    <3> QED BY <2>4, <2>5, <2>6, <2>8, <3>1
  <2> QED BY <2>7, <2>8 DEF Guards, ConnectsGuarded, r
<1> QED BY <1>2, <1>3, <1>5, <1>6 DEF QueueStep

\* Every step keeps the invariant, for such a client.
LEMMA LostInvKept ==
    ASSUME IInv, LostInv, [Next]_vars, "eager" \notin ClientMay, "policy" \notin ClientMay
    PROVE  LostInv'
<1>1. CASE UNCHANGED vars
  BY <1>1 DEF vars, driver, call, LostInv, GuardInv, AllFollowed, Calm, Unconfigured, BulkIdle, UpInv
<1>2. CASE Next
  <2>1. QueueStep /\ UpInv'
    <3>1. UpInv /\ (~RunStop => EventBuffer = <<>>) /\ (RunStop => Started)
      BY DEF LostInv
    <3> QED BY <1>2, <3>1, DriverQueue, EnvironmentQueue DEF Next
  <2>2. Calm /\ ~(EventTaken /\ ControlEvent(Head(EventBuffer))) => Calm'
    BY <1>2, CalmKept
  <2>3. BusReset \/ StopController => Calm'
    BY MadeCalm DEF LostInv
  <2>4. GuardInv'
    <3>1. Calm \in BOOLEAN /\ Calm' \in BOOLEAN
      BY DEF Calm, Unconfigured, BulkIdle
    <3> QED BY <2>1, <2>2, <2>3, <3>1, GuardKept DEF LostInv, GuardInv
  <2>5. AllFollowed'
    <3>1. AtEvent("connect") \/ (pc = "client" /\ ~RunStop) => BulkIdle
      <4>1. CASE AtEvent("connect")
        <5>1. 1 \in 1 .. Len(EventBuffer) /\ EventBuffer[1].type = "connect"
          BY <4>1 DEF AtEvent, IInv, TypeOK, QueueInv
        <5>2. Guarded(EventBuffer, Calm, 1)
          BY <5>1 DEF LostInv, GuardInv, Guards, ConnectsGuarded
        <5> QED BY <5>2 DEF Guarded, Calm
      <4> QED BY <4>1 DEF LostInv, Calm
    <3>2. ASSUME NEW n \in Bulk PROVE Followed(Endpoints'[n], EventBuffer', n)
      BY <3>1, EveryBulkStep, FollowedKept DEF LostInv, AllFollowed, BulkIdle
    <3> QED BY <3>2 DEF AllFollowed
  <2>6. (RunStop' => Started') /\ (~RunStop' => ~RunStop \/ StopController)
    BY <1>2, RunStopStep DEF LostInv
  <2>7. ASSUME ~RunStop' PROVE Calm' /\ EventBuffer' = <<>>
    <3>1. CASE StopController
      BY <2>3, <3>1 DEF StopController
    <3>2. CASE ~RunStop
      <4>1. Calm /\ EventBuffer = <<>> /\ pc # "events"
        BY <3>2 DEF LostInv, IInv, QueueInv
      <4> QED BY <2>1, <2>2, <3>2, <4>1 DEF QueueStep, EventTaken, Appends
    <3> QED BY <2>6, <2>7, <3>1, <3>2
  <2> QED BY <2>1, <2>4, <2>5, <2>6, <2>7 DEF LostInv
<1> QED BY <1>1, <1>2

\* It holds at first.
LEMMA LostInit == ASSUME Init PROVE LostInv
<1>1. \A n \in Bulk : Endpoints[n] = ZeroEndpoint
  BY BulkFacts DEF Init
<1>2. AllFollowed /\ BulkIdle
  BY <1>1 DEF AllFollowed, BulkIdle, Followed, ZeroEndpoint
<1>3. Calm
  BY <1>2 DEF Init, FreshClient, Calm, Unconfigured, NoConfigMessage
<1> QED BY <1>2, <1>3 DEF Init, LostInv, GuardInv, Guards, ConnectsGuarded, UpInv

\* For a client that starts bulk transfers only after SET_CONFIG and leaves
\* ZeroLengthTermination alone, no completion is lost: while the driver waits,
\* the controller runs the transfer or its event is in the buffer; what the
\* driver forgets, the controller no longer runs.  This holds for any order of
\* aborts, stalls, bus resets, reconnects, SET_CONFIG requests, restarts of the
\* controller, bus errors and failing commands, although the CONNECT_DONE event
\* wipes the endpoints without stopping the controller.
THEOREM CompletionNeverLost ==
    ASSUME "eager" \notin ClientMay, "policy" \notin ClientMay
    PROVE  Spec => []NoLostCompletion
<1>1. Init => LostInv
  BY LostInit
<1>2. IInv /\ LostInv /\ [Next]_vars => LostInv'
  BY LostInvKept
<1>3. LostInv => NoLostCompletion
  BY DEF LostInv, AllFollowed, Followed, Completion, NoLostCompletion, Outstanding
<1> QED BY <1>1, <1>2, <1>3, Invariance, PTL DEF Spec

=============================================================================
