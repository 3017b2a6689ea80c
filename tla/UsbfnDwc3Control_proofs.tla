---------------------- MODULE UsbfnDwc3Control_proofs ----------------------
(***************************************************************************)
(* TLAPS proofs about the control pipe of UsbfnDwc3: EP0 is armed again    *)
(* after every request, nothing is left behind at a stop, the address, the *)
(* order of SETUP packets, and the data and the TRBs of the control        *)
(* transfers.                                                              *)
(***************************************************************************)
EXTENDS UsbfnDwc3_proofs

(* The control pipe.  The host and the driver take turns: at most one       *)
(* completion on EP0 is in the event buffer, and what it means is decided   *)
(* by the state the driver will be in when it takes it.                     *)

\* XFERNOTREADY on EP0, for the data or the status stage.
Notify(e, t) == e.type = t /\ e.ep \in ControlEps

NoControlIn(q) == NoControl(q, 1, Len(q))
Alone(q) == \A i, j \in 1 .. Len(q) : ControlEvent(q[i]) /\ ControlEvent(q[j]) => i = j

\* rest: the driver waits for a SETUP packet, so that a completion in q brings
\* one; buf is then the request in the EP0 buffer, and r the request handled
\* last.  A status event in q is left from a request that was stalled (the
\* driver will still be at rest), or asks for the status stage of the current
\* request, whose data stage is over and whose completions lie before it unless
\* the status stage is started.
StatusesOk(q, rest, r, over, started) ==
    \A i \in 1 .. Len(q) : Notify(q[i], "status") =>
        \/ rest /\ NoControl(q, 1, i - 1)
        \/ q[i].ep = StatusEp(r) /\ over /\ (started \/ NoControl(q, i, Len(q)))

\* A data event has the direction its request announced.
DatasOk(q, rest, buf, r) ==
    \A i \in 1 .. Len(q) : Notify(q[i], "data") =>
        q[i].ep = DataEp(IF rest /\ ~NoControl(q, 1, i - 1) THEN buf ELSE r)

\* No completion of a data or status stage lies behind a bus reset.
ResetsOk(q, rest) ==
    \A i \in 1 .. Len(q) : q[i].type = "reset" => rest \/ NoControl(q, i, Len(q))

QueueOk(q, rest, buf, r, over, started) ==
    /\ Alone(q)
    /\ StatusesOk(q, rest, IF rest THEN buf ELSE r, over, started)
    /\ DatasOk(q, rest, buf, r)
    /\ ResetsOk(q, rest)

\* Every bus event lies before the SETUP packet in q.
BusOk(q, rest) ==
    \A i \in 1 .. Len(q) : q[i].type \in {"reset", "connect"} => rest /\ ~NoControl(q, i, Len(q))
\* The current request has not asked for its status stage.
NoStatus(q, rest) == \A i \in 1 .. Len(q) : Notify(q[i], "status") => rest /\ NoControl(q, 1, i - 1)
\* A connect event comes after everything on EP0.
LastConnect(q) == \E i \in 1 .. Len(q) : q[i].type = "connect" /\ NoControl(q, i, Len(q))

\* Control events of a queue with e appended.
LEMMA ControlAppend ==
    ASSUME NEW q \in Seq(Events), NEW e \in Events
    PROVE  /\ Len(Append(q, e)) = Len(q) + 1 /\ Len(q) \in Nat
           /\ Append(q, e)[Len(q) + 1] = e /\ \A i \in 1 .. Len(q) : Append(q, e)[i] = q[i]
           /\ \A i \in 1 .. (Len(q) + 1) : NoControl(Append(q, e), 1, i - 1) <=> NoControl(q, 1, i - 1)
           /\ \A i \in 1 .. (Len(q) + 1) : NoControl(Append(q, e), i, Len(q) + 1)
                                           <=> NoControl(q, i, Len(q)) /\ ~ControlEvent(e)
<1> DEFINE r == Append(q, e)
           l == Len(q)
<1>1. l \in Nat /\ r[l + 1] = e /\ Len(r) = l + 1 /\ \A k \in 1 .. l : r[k] = q[k]
  OBVIOUS
<1> HIDE DEF r, l
<1>2. ASSUME NEW i \in 1 .. (l + 1) PROVE NoControl(r, 1, i - 1) <=> NoControl(q, 1, i - 1)
  <2>1. \A k \in 1 .. (i - 1) : k \in 1 .. l
    BY <1>1
  <2> QED BY <1>1, <2>1 DEF NoControl
<1>3. ASSUME NEW i \in 1 .. (l + 1) PROVE NoControl(r, i, l + 1) <=> NoControl(q, i, l) /\ ~ControlEvent(e)
  <2>1. \A k \in i .. l : k \in i .. (l + 1) /\ k \in 1 .. l
    BY <1>1
  <2>2. \A k \in i .. (l + 1) : k \in i .. l \/ k = l + 1
    BY <1>1
  <2>3. l + 1 \in i .. (l + 1)
    BY <1>1
  <2> QED BY <1>1, <2>1, <2>2, <2>3 DEF NoControl
<1> QED BY <1>1, <1>2, <1>3 DEF r, l

\* Control events of a queue whose head is taken.
LEMMA ControlTail ==
    ASSUME NEW q \in Seq(Events), q # <<>>
    PROVE  /\ Len(Tail(q)) = Len(q) - 1 /\ Len(q) \in Nat \ {0}
           /\ \A i \in 1 .. Len(Tail(q)) : i + 1 \in 1 .. Len(q) /\ Tail(q)[i] = q[i + 1]
           /\ \A i \in 1 .. Len(Tail(q)) : NoControl(Tail(q), 1, i - 1) /\ ~ControlEvent(q[1])
                                           <=> NoControl(q, 1, (i + 1) - 1)
           /\ \A i \in 1 .. Len(Tail(q)) : NoControl(Tail(q), i, Len(Tail(q)))
                                           <=> NoControl(q, i + 1, Len(q))
           /\ NoControlIn(Tail(q)) /\ ~ControlEvent(q[1]) <=> NoControlIn(q)
<1> DEFINE r == Tail(q)
           l == Len(q)
<1>1. l \in Nat \ {0} /\ Len(r) = l - 1 /\ \A k \in 1 .. (l - 1) : r[k] = q[k + 1]
  OBVIOUS
<1> HIDE DEF r, l
<1>2. ASSUME NEW i \in 1 .. l
      PROVE  NoControl(r, 1, i - 1) /\ ~ControlEvent(q[1]) <=> NoControl(q, 1, (i + 1) - 1)
  <2>1. \A k \in 1 .. (i - 1) : k \in 1 .. (l - 1) /\ k + 1 \in 1 .. ((i + 1) - 1)
    BY <1>1
  <2>2. \A k \in 1 .. ((i + 1) - 1) : k = 1 \/ (k - 1 \in 1 .. (i - 1) /\ k - 1 \in 1 .. (l - 1) /\ (k - 1) + 1 = k)
    BY <1>1
  <2>3. 1 \in 1 .. ((i + 1) - 1)
    BY <1>1
  <2> QED BY <1>1, <2>1, <2>2, <2>3 DEF NoControl
<1>3. ASSUME NEW i \in 1 .. (l - 1) PROVE NoControl(r, i, l - 1) <=> NoControl(q, i + 1, l)
  <2>1. \A k \in i .. (l - 1) : k \in 1 .. (l - 1) /\ k + 1 \in (i + 1) .. l
    BY <1>1
  <2>2. \A k \in (i + 1) .. l : k - 1 \in i .. (l - 1) /\ k - 1 \in 1 .. (l - 1) /\ (k - 1) + 1 = k
    BY <1>1
  <2> QED BY <1>1, <2>1, <2>2 DEF NoControl
<1>4. \A i \in 1 .. (l - 1) : i \in 1 .. l /\ i + 1 \in 1 .. l
  BY <1>1
<1>5. NoControlIn(r) /\ ~ControlEvent(q[1]) <=> NoControlIn(q)
  <2>1. l \in 1 .. l /\ (l + 1) - 1 = l
    BY <1>1
  <2> QED BY <1>1, <1>2, <2>1 DEF NoControlIn, l
<1> QED BY <1>1, <1>2, <1>3, <1>4, <1>5 DEF r, l

\* A completion in the queue.
LEMMA ControlInside ==
    ASSUME NEW q \in Seq(Events), NEW k \in 1 .. Len(q), ControlEvent(q[k])
    PROVE  /\ ~NoControlIn(q)
           /\ \A i \in 1 .. Len(q) : i <= k => ~NoControl(q, i, Len(q))
           /\ \A i \in 1 .. Len(q) : k < i => ~NoControl(q, 1, i - 1)
<1>1. Len(q) \in Nat /\ k \in Nat /\ 1 <= k /\ k <= Len(q)
  OBVIOUS
<1>2. \A i \in 1 .. Len(q) : (i <= k => k \in i .. Len(q)) /\ (k < i => k \in 1 .. (i - 1))
  BY <1>1
<1> QED BY <1>2 DEF NoControl, NoControlIn

\* A queue without completions, or with one at its head.
LEMMA ControlNowhere ==
    ASSUME NEW q \in Seq(Events), NoControlIn(q)
    PROVE  \A i \in 1 .. Len(q) : NoControl(q, 1, i - 1) /\ NoControl(q, i, Len(q)) /\ ~ControlEvent(q[i])
<1>1. \A i \in 1 .. Len(q) : \A k \in 1 .. (i - 1) : k \in 1 .. Len(q)
  OBVIOUS
<1>2. \A i \in 1 .. Len(q) : \A k \in i .. Len(q) : k \in 1 .. Len(q)
  OBVIOUS
<1>3. \A i \in 1 .. Len(q) : ~ControlEvent(q[i])
  BY DEF NoControlIn, NoControl
<1> QED BY <1>1, <1>2, <1>3 DEF NoControl

\* The completion at the head is the only one.
LEMMA ControlAlone ==
    ASSUME NEW q \in Seq(Events), q # <<>>, Alone(q), ControlEvent(q[1])
    PROVE  NoControlIn(Tail(q))
<1>1. Len(q) \in Nat \ {0} /\ Len(Tail(q)) = Len(q) - 1 /\ \A i \in 1 .. Len(Tail(q)) : Tail(q)[i] = q[i + 1]
  OBVIOUS
<1>2. ASSUME NEW i \in 1 .. Len(Tail(q)) PROVE ~ControlEvent(Tail(q)[i])
  <2>1. i + 1 \in 1 .. Len(q) /\ i + 1 # 1 /\ 1 \in 1 .. Len(q)
    BY <1>1
  <2> QED BY <1>1, <2>1 DEF Alone
<1> QED BY <1>2 DEF NoControlIn, NoControl

\* An event that the control pipe does not care about.
Neutral(e) == ~ControlEvent(e) /\ ~Notify(e, "status") /\ ~Notify(e, "data")

\* An event other than a completion is appended: XFERNOTREADY asks for what
\* comes next.
LEMMA QueueAppend ==
    ASSUME NEW q \in Seq(Events), NEW e \in Events, NEW rest \in BOOLEAN, NEW buf, NEW r,
           NEW over \in BOOLEAN, NEW started \in BOOLEAN,
           QueueOk(q, rest, buf, r, over, started), ~ControlEvent(e),
           Notify(e, "status") => over /\ e.ep = StatusEp(IF rest THEN buf ELSE r),
           Notify(e, "data") => e.ep = DataEp(IF rest THEN buf ELSE r) /\ (rest => ~NoControlIn(q))
    PROVE  QueueOk(Append(q, e), rest, buf, r, over, started)
<1> DEFINE p == Append(q, e)
           l == Len(q)
<1>1. /\ l \in Nat /\ Len(p) = l + 1 /\ p[l + 1] = e /\ \A i \in 1 .. l : p[i] = q[i]
      /\ \A i \in 1 .. (l + 1) : NoControl(p, 1, i - 1) <=> NoControl(q, 1, i - 1)
      /\ \A i \in 1 .. (l + 1) : NoControl(p, i, l + 1) <=> NoControl(q, i, l)
  BY ControlAppend
<1>2. \A i \in 1 .. (l + 1) : i \in 1 .. l \/ i = l + 1
  BY <1>1
<1>3. l + 1 \in 1 .. (l + 1) /\ (l + 1) - 1 = l /\ NoControl(q, l + 1, l)
  BY <1>1 DEF NoControl
<1> HIDE DEF p, l
<1>4. \A i \in 1 .. l : i \in 1 .. (l + 1)
  BY <1>1
<1>5. Alone(p)
  BY <1>1, <1>2 DEF QueueOk, Alone, l
<1>6. StatusesOk(p, rest, IF rest THEN buf ELSE r, over, started)
  BY <1>1, <1>2, <1>3, <1>4 DEF QueueOk, StatusesOk, l
<1>7. DatasOk(p, rest, buf, r)
  BY <1>1, <1>2, <1>3, <1>4 DEF QueueOk, DatasOk, NoControlIn, l
<1>8. ResetsOk(p, rest)
  BY <1>1, <1>2, <1>3, <1>4 DEF QueueOk, ResetsOk, l
<1> QED BY <1>5, <1>6, <1>7, <1>8 DEF QueueOk, p

\* The only completion is appended: a SETUP packet the driver waits for,
LEMMA QueueSetup ==
    ASSUME NEW q \in Seq(Events), NEW e \in Events, NEW buf, NEW buf2, NEW r,
           NEW over \in BOOLEAN, NEW over2 \in BOOLEAN, NEW started \in BOOLEAN,
           QueueOk(q, TRUE, buf, r, over, started), ControlEvent(e), NoControlIn(q)
    PROVE  QueueOk(Append(q, e), TRUE, buf2, r, over2, started)
<1> DEFINE p == Append(q, e)
           l == Len(q)
<1>1. /\ l \in Nat /\ Len(p) = l + 1 /\ p[l + 1] = e /\ \A i \in 1 .. l : p[i] = q[i]
      /\ \A i \in 1 .. (l + 1) : NoControl(p, 1, i - 1) <=> NoControl(q, 1, i - 1)
  BY ControlAppend
<1>2. \A i \in 1 .. (l + 1) : i \in 1 .. l \/ i = l + 1
  BY <1>1
<1>3. \A i \in 1 .. l : i \in 1 .. (l + 1) /\ NoControl(q, 1, i - 1) /\ ~ControlEvent(q[i])
  BY <1>1, ControlNowhere DEF l
<1>4. ~Notify(e, "status") /\ ~Notify(e, "data") /\ e.type # "reset"
  BY DEF Notify, ControlEvent
<1>5. StatusesOk(q, TRUE, buf, over, started) /\ DatasOk(q, TRUE, buf, r)
  BY DEF QueueOk
<1> HIDE DEF p, l
<1>6. Alone(p)
  BY <1>1, <1>2, <1>3 DEF Alone
<1>7. StatusesOk(p, TRUE, buf2, over2, started)
  BY <1>1, <1>2, <1>3, <1>4, <1>5 DEF StatusesOk, NoStatus, l
<1>8. DatasOk(p, TRUE, buf2, r)
  BY <1>1, <1>2, <1>3, <1>4, <1>5 DEF DatasOk, l
<1>9. ResetsOk(p, TRUE)
  BY <1>1, <1>2, <1>3, <1>4, <1>5 DEF ResetsOk, BusOk, l
<1> QED BY <1>6, <1>7, <1>8, <1>9 DEF QueueOk, p

\* or the end of a data or status stage.
LEMMA QueueStage ==
    ASSUME NEW q \in Seq(Events), NEW e \in Events, NEW buf, NEW buf2, NEW r,
           NEW over \in BOOLEAN, NEW over2 \in BOOLEAN, NEW started \in BOOLEAN,
           QueueOk(q, FALSE, buf, r, over, started), ControlEvent(e), NoControlIn(q),
           over => over2, BusOk(q, FALSE), started \/ NoStatus(q, FALSE)
    PROVE  QueueOk(Append(q, e), FALSE, buf2, r, over2, started)
<1> DEFINE p == Append(q, e)
           l == Len(q)
<1>1. /\ l \in Nat /\ Len(p) = l + 1 /\ p[l + 1] = e /\ \A i \in 1 .. l : p[i] = q[i]
      /\ \A i \in 1 .. (l + 1) : NoControl(p, 1, i - 1) <=> NoControl(q, 1, i - 1)
  BY ControlAppend
<1>2. \A i \in 1 .. (l + 1) : i \in 1 .. l \/ i = l + 1
  BY <1>1
<1>3. \A i \in 1 .. l : i \in 1 .. (l + 1) /\ NoControl(q, 1, i - 1) /\ ~ControlEvent(q[i])
  BY <1>1, ControlNowhere DEF l
<1>4. ~Notify(e, "status") /\ ~Notify(e, "data") /\ e.type # "reset"
  BY DEF Notify, ControlEvent
<1>5. StatusesOk(q, FALSE, r, over, started) /\ DatasOk(q, FALSE, buf, r)
  BY DEF QueueOk
<1> HIDE DEF p, l
<1>6. Alone(p)
  BY <1>1, <1>2, <1>3 DEF Alone
<1>7. StatusesOk(p, FALSE, r, over2, started)
  BY <1>1, <1>2, <1>3, <1>4, <1>5 DEF StatusesOk, NoStatus, l
<1>8. DatasOk(p, FALSE, buf2, r)
  BY <1>1, <1>2, <1>3, <1>4, <1>5 DEF DatasOk, l
<1>9. ResetsOk(p, FALSE)
  BY <1>1, <1>2, <1>3, <1>4, <1>5 DEF ResetsOk, BusOk, l
<1> QED BY <1>6, <1>7, <1>8, <1>9 DEF QueueOk, p

\* An event other than a completion is taken.
LEMMA QueueTail ==
    ASSUME NEW q \in Seq(Events), q # <<>>, NEW rest \in BOOLEAN, NEW buf, NEW r,
           NEW over \in BOOLEAN, NEW started \in BOOLEAN,
           QueueOk(q, rest, buf, r, over, started), ~ControlEvent(q[1])
    PROVE  QueueOk(Tail(q), rest, buf, r, over, started)
<1> DEFINE p == Tail(q)
           l == Len(q)
<1>1. /\ l \in Nat \ {0} /\ Len(p) = l - 1
      /\ \A i \in 1 .. (l - 1) : i + 1 \in 1 .. l /\ p[i] = q[i + 1]
      /\ \A i \in 1 .. (l - 1) : NoControl(p, 1, i - 1) <=> NoControl(q, 1, (i + 1) - 1)
      /\ \A i \in 1 .. (l - 1) : NoControl(p, i, l - 1) <=> NoControl(q, i + 1, l)
  BY ControlTail
<1>2. \A i, j \in 1 .. (l - 1) : i + 1 = j + 1 => i = j
  BY <1>1
<1> HIDE DEF p, l
<1>3. Alone(p)
  BY <1>1, <1>2 DEF QueueOk, Alone, l
<1>4. StatusesOk(p, rest, IF rest THEN buf ELSE r, over, started)
  BY <1>1 DEF QueueOk, StatusesOk, l
<1>5. DatasOk(p, rest, buf, r)
  BY <1>1 DEF QueueOk, DatasOk, l
<1>6. ResetsOk(p, rest)
  BY <1>1 DEF QueueOk, ResetsOk, l
<1> QED BY <1>3, <1>4, <1>5, <1>6 DEF QueueOk, p

\* The queue behind the completion at its head.
LEMMA QueueBehind ==
    ASSUME NEW q \in Seq(Events), q # <<>>, Alone(q), ControlEvent(q[1])
    PROVE  /\ \A i \in 1 .. Len(Tail(q)) : i + 1 \in 1 .. Len(q) /\ Tail(q)[i] = q[i + 1]
           /\ \A i \in 1 .. Len(Tail(q)) : NoControl(Tail(q), i, Len(Tail(q))) /\ ~ControlEvent(Tail(q)[i])
           /\ \A i \in 1 .. Len(Tail(q)) : ~NoControl(q, 1, (i + 1) - 1)
           /\ Alone(Tail(q)) /\ ResetsOk(Tail(q), FALSE)
<1> DEFINE p == Tail(q)
           l == Len(q)
<1>1. /\ l \in Nat \ {0} /\ Len(p) = l - 1 /\ 1 \in 1 .. l
      /\ \A i \in 1 .. (l - 1) : i + 1 \in 1 .. l /\ p[i] = q[i + 1]
  BY ControlTail
<1>2. NoControlIn(p)
  BY ControlAlone
<1>3. \A i \in 1 .. (l - 1) : NoControl(p, i, l - 1) /\ ~ControlEvent(p[i])
  <2>1. p \in Seq(Events)
    OBVIOUS
  <2> QED BY <1>1, <1>2, <2>1, ControlNowhere
<1>4. \A i \in 1 .. (l - 1) : ~NoControl(q, 1, (i + 1) - 1)
  <2>1. \A i \in 1 .. (l - 1) : 1 \in 1 .. ((i + 1) - 1)
    BY <1>1
  <2> QED BY <2>1 DEF NoControl
<1> HIDE DEF p, l
<1>5. Alone(p) /\ ResetsOk(p, FALSE)
  BY <1>1, <1>3 DEF Alone, ResetsOk
<1> QED BY <1>1, <1>3, <1>4, <1>5 DEF p, l

\* A SETUP packet is taken by a driver that waited for it,
LEMMA QueueSetupTaken ==
    ASSUME NEW q \in Seq(Events), q # <<>>, NEW buf, NEW r, NEW over \in BOOLEAN, NEW over2 \in BOOLEAN,
           over => over2, NEW started \in BOOLEAN,
           QueueOk(q, TRUE, buf, r, over, started), ControlEvent(q[1])
    PROVE  QueueOk(Tail(q), FALSE, buf, buf, over2, started)
<1> DEFINE p == Tail(q)
           l == Len(p)
<1>1. Alone(q) /\ StatusesOk(q, TRUE, buf, over, started) /\ DatasOk(q, TRUE, buf, r)
  BY DEF QueueOk
<1>2. /\ \A i \in 1 .. l : i + 1 \in 1 .. Len(q) /\ p[i] = q[i + 1]
      /\ \A i \in 1 .. l : NoControl(p, i, l) /\ ~NoControl(q, 1, (i + 1) - 1)
      /\ Alone(p) /\ ResetsOk(p, FALSE)
  BY <1>1, QueueBehind
<1> HIDE DEF p, l
<1>3. StatusesOk(p, FALSE, buf, over2, started)
  BY <1>1, <1>2 DEF StatusesOk, l
<1>4. DatasOk(p, FALSE, buf, buf)
  BY <1>1, <1>2 DEF DatasOk, l
<1> QED BY <1>2, <1>3, <1>4 DEF QueueOk, p

\* or the completion of a data or status stage.
LEMMA QueueStageTaken ==
    ASSUME NEW q \in Seq(Events), q # <<>>, NEW buf, NEW r, NEW over \in BOOLEAN,
           NEW started \in BOOLEAN,
           QueueOk(q, FALSE, buf, r, over, started), ControlEvent(q[1])
    PROVE  QueueOk(Tail(q), FALSE, buf, r, over, started)
<1> DEFINE p == Tail(q)
           l == Len(p)
<1>1. Alone(q) /\ StatusesOk(q, FALSE, r, over, started) /\ DatasOk(q, FALSE, buf, r)
  BY DEF QueueOk
<1>2. /\ \A i \in 1 .. l : i + 1 \in 1 .. Len(q) /\ p[i] = q[i + 1]
      /\ \A i \in 1 .. l : NoControl(p, i, l) /\ ~NoControl(q, 1, (i + 1) - 1)
      /\ Alone(p) /\ ResetsOk(p, FALSE)
  BY <1>1, QueueBehind
<1> HIDE DEF p, l
<1>3. StatusesOk(p, FALSE, r, over, started)
  BY <1>1, <1>2 DEF StatusesOk, l
<1>4. DatasOk(p, FALSE, buf, r)
  BY <1>1, <1>2 DEF DatasOk, l
<1> QED BY <1>2, <1>3, <1>4 DEF QueueOk, p

\* The driver goes to rest with no completion left.
LEMMA QueueRests ==
    ASSUME NEW q \in Seq(Events), NEW buf, NEW buf2, NEW r, NEW over \in BOOLEAN, NEW over2 \in BOOLEAN,
           NEW started \in BOOLEAN, NEW started2 \in BOOLEAN,
           QueueOk(q, FALSE, buf, r, over, started), NoControlIn(q)
    PROVE  QueueOk(q, TRUE, buf2, r, over2, started2)
<1>1. \A i \in 1 .. Len(q) : NoControl(q, 1, i - 1)
  BY ControlNowhere
<1> QED BY <1>1 DEF QueueOk, StatusesOk, DatasOk, ResetsOk

\* The data stage is over, the status stage is started.
LEMMA QueueOver ==
    ASSUME NEW q \in Seq(Events), NEW rest \in BOOLEAN, NEW buf, NEW buf2, NEW r,
           NEW over \in BOOLEAN, NEW over2 \in BOOLEAN, over => over2,
           NEW started \in BOOLEAN, NEW started2 \in BOOLEAN, started => started2,
           rest => buf2 = buf,
           QueueOk(q, rest, buf, r, over, started)
    PROVE  QueueOk(q, rest, buf2, r, over2, started2)
<1>1. \A i \in 1 .. Len(q) : DataEp(IF rest /\ ~NoControl(q, 1, i - 1) THEN buf2 ELSE r)
                           = DataEp(IF rest /\ ~NoControl(q, 1, i - 1) THEN buf ELSE r)
  OBVIOUS
<1> QED BY <1>1 DEF QueueOk, StatusesOk, DatasOk, ResetsOk

-----------------------------------------------------------------------------
(* The turns of the control pipe.                                           *)

\* o and i are the stages of EP0 OUT and EP0 IN, st and ss the driver's EP0
\* state and whether it has started the status stage, c whether it is in the
\* loop of SET_CONFIG, r the request it handles.
ModeOk(o, i, st, ss, c, r) ==
    \/ st = "Setup" /\ ~ss /\ ~c /\ i = "quiet" /\ o \in {"quiet", "done", "setup", "data", "status"}
    \/ st = "Setup" /\ ~ss /\ c /\ i = "quiet" /\ o = "quiet" /\ r = "SET_CONFIG"
    \/ st = "Data" /\ ~ss /\ ~c /\ r = "GET" /\ o = "quiet" /\ i \in {"quiet", "done", "data"}
    \/ st = "Data" /\ ~ss /\ ~c /\ r = "OUT" /\ i = "quiet" /\ o \in {"quiet", "done", "data"}
    \/ st = "Status" /\ ~ss /\ ~c /\ i = "quiet" /\ o = "quiet" /\ ~ThreeStage(r)
    \/ st = "Status" /\ ss /\ ~c /\ r = "GET" /\ o \in {"done", "status"}
          /\ (i = "quiet" \/ (i = "data" /\ "early" \in HostMay))
    \/ st = "Status" /\ ss /\ ~c /\ r # "GET" /\ o = "quiet" /\ i \in {"done", "status"}

\* A completion in the buffer belongs to the direction the controller is done with.
DoneOk(q, o, i) ==
    /\ \A k \in 1 .. Len(q) : ControlEvent(q[k]) => (IF q[k].ep = EP0_OUT THEN o ELSE i) = "done"
    /\ o = "done" \/ i = "done" => ~NoControlIn(q)

\* A host without a request will find a SETUP TRB, now or when the events in q
\* are handled; or a reset has cut EP0 off.
Ready(q, st, o) ==
    \/ o = "setup" \/ (st = "Setup" /\ o \in {"data", "status"})
    \/ st = "Status" /\ ~NoControlIn(q)
    \/ LastConnect(q)

\* The host (h) and the driver agree on the request (cur), and on its stage.
HostOk(q, rest, cur, st, o, over, h) ==
    /\ h.phase # "idle" =>
          /\ h.bus = "up" /\ cur = h.packet /\ BusOk(q, rest)
          /\ rest => ~NoControlIn(q)
          /\ st = "Status" => NoControlIn(q)
    /\ h.phase = "data" =>
          /\ ThreeStage(h.packet.req) /\ NoStatus(q, rest)
          /\ st = "Setup" \/ (st = "Data" /\ NoControlIn(q))
    /\ h.phase = "status" => over
    /\ h.bus = "up" /\ h.phase = "idle" => Ready(q, st, o)

\* w: the client is still to answer the request.  The data stage of a request is
\* over when the client's transfer is; the host waits for it, unless it cuts IN
\* data short.
Awaited(r) == r = "OUT" \/ (r = "GET" /\ "early" \notin HostMay)
AtRest(st, c) == st = "Setup" /\ ~c
OverOk(cur, st, o, i, w) ==
    Awaited(cur.req) => st # "Setup" /\ (IF ExpectIn(cur.req) THEN i ELSE o) \in {"quiet", "done"} /\ ~w
Current(st, c, sp, buf) == IF AtRest(st, c) THEN buf ELSE sp
PipeOk(q, o, i, st, ss, c, sp, buf, w, h) ==
    /\ ModeOk(o, i, st, ss, c, sp.req)
    /\ DoneOk(q, o, i)
    /\ QueueOk(q, AtRest(st, c), buf.req, sp.req, OverOk(Current(st, c, sp, buf), st, o, i, w), ss)
    /\ HostOk(q, AtRest(st, c), Current(st, c, sp, buf), st, o, OverOk(Current(st, c, sp, buf), st, o, i, w), h)

\* The facts about the parts are Boolean.
LEMMA PipeBooleans ==
    \A st, c, cur, o, i, w : AtRest(st, c) \in BOOLEAN /\ OverOk(cur, st, o, i, w) \in BOOLEAN
BY DEF AtRest, OverOk, Awaited, ExpectIn

\* A direction is done if and only if its completion is in the queue.
LEMMA DoneFacts ==
    ASSUME NEW q \in Seq(Events), NEW o, NEW i, DoneOk(q, o, i)
    PROVE  /\ o # "done" /\ i # "done" <=> NoControlIn(q)
           /\ q # <<>> /\ ControlEvent(q[1]) => (IF q[1].ep = EP0_OUT THEN o ELSE i) = "done"
<1>1. q # <<>> => 1 \in 1 .. Len(q)
  OBVIOUS
<1> QED BY <1>1 DEF DoneOk, NoControlIn, NoControl

\* What the parts of the invariant become when an event that is no completion is
\* taken.
LEMMA TailKeeps ==
    ASSUME NEW q \in Seq(Events), q # <<>>, ~ControlEvent(q[1]), NEW o, NEW i, NEW rest \in BOOLEAN
    PROVE  /\ NoControlIn(Tail(q)) <=> NoControlIn(q)
           /\ BusOk(q, rest) => BusOk(Tail(q), rest)
           /\ NoStatus(q, rest) => NoStatus(Tail(q), rest)
           /\ LastConnect(q) /\ q[1].type # "connect" => LastConnect(Tail(q))
           /\ DoneOk(q, o, i) => DoneOk(Tail(q), o, i)
<1> DEFINE p == Tail(q)
           l == Len(q)
<1>1. /\ l \in Nat \ {0} /\ Len(p) = l - 1
      /\ \A k \in 1 .. (l - 1) : k + 1 \in 1 .. l /\ p[k] = q[k + 1]
      /\ \A k \in 1 .. (l - 1) : NoControl(p, 1, k - 1) <=> NoControl(q, 1, (k + 1) - 1)
      /\ \A k \in 1 .. (l - 1) : NoControl(p, k, l - 1) <=> NoControl(q, k + 1, l)
      /\ NoControlIn(p) <=> NoControlIn(q)
  BY ControlTail
<1>2. \A k \in 1 .. l : k = 1 \/ (k - 1 \in 1 .. (l - 1) /\ (k - 1) + 1 = k)
  BY <1>1
<1> HIDE DEF p, l
<1>3. BusOk(q, rest) => BusOk(p, rest)
  BY <1>1 DEF BusOk, l
<1>4. NoStatus(q, rest) => NoStatus(p, rest)
  BY <1>1 DEF NoStatus, l
<1>5. ASSUME LastConnect(q), q[1].type # "connect" PROVE LastConnect(p)
  <2>1. PICK k \in 1 .. l : q[k].type = "connect" /\ NoControl(q, k, l)
    BY <1>5 DEF LastConnect, l
  <2>2. k - 1 \in 1 .. (l - 1) /\ (k - 1) + 1 = k
    BY <1>2, <1>5, <2>1
  <2>3. p[k - 1] = q[k] /\ NoControl(p, k - 1, l - 1)
    BY <1>1, <2>1, <2>2
  <2> QED BY <1>1, <2>1, <2>2, <2>3 DEF LastConnect
<1>6. DoneOk(q, o, i) => DoneOk(p, o, i)
  BY <1>1 DEF DoneOk, l
<1> QED BY <1>1, <1>3, <1>4, <1>5, <1>6 DEF p

\* The same when such an event is appended.
LEMMA AppendKeeps ==
    ASSUME NEW q \in Seq(Events), NEW e \in Events, ~ControlEvent(e), NEW o, NEW i, NEW rest \in BOOLEAN
    PROVE  /\ NoControlIn(Append(q, e)) <=> NoControlIn(q)
           /\ BusOk(q, rest) /\ e.type \notin {"reset", "connect"} => BusOk(Append(q, e), rest)
           /\ NoStatus(q, rest) /\ ~Notify(e, "status") => NoStatus(Append(q, e), rest)
           /\ LastConnect(q) \/ e.type = "connect" => LastConnect(Append(q, e))
           /\ DoneOk(q, o, i) => DoneOk(Append(q, e), o, i)
<1> DEFINE p == Append(q, e)
           l == Len(q)
<1>1. /\ l \in Nat /\ Len(p) = l + 1 /\ p[l + 1] = e /\ \A k \in 1 .. l : p[k] = q[k]
      /\ \A k \in 1 .. (l + 1) : NoControl(p, 1, k - 1) <=> NoControl(q, 1, k - 1)
      /\ \A k \in 1 .. (l + 1) : NoControl(p, k, l + 1) <=> NoControl(q, k, l)
  BY ControlAppend
<1>2. /\ \A k \in 1 .. (l + 1) : k \in 1 .. l \/ k = l + 1
      /\ \A k \in 1 .. l : k \in 1 .. (l + 1)
      /\ l + 1 \in 1 .. (l + 1) /\ 1 \in 1 .. (l + 1)
  BY <1>1
<1>3. NoControl(q, l + 1, l)
  BY <1>1 DEF NoControl
<1> HIDE DEF p, l
<1>4. NoControlIn(p) <=> NoControlIn(q)
  BY <1>1, <1>2 DEF NoControlIn, l
<1>5. BusOk(q, rest) /\ e.type \notin {"reset", "connect"} => BusOk(p, rest)
  BY <1>1, <1>2 DEF BusOk, l
<1>6. NoStatus(q, rest) /\ ~Notify(e, "status") => NoStatus(p, rest)
  BY <1>1, <1>2 DEF NoStatus, l
<1>7. LastConnect(q) \/ e.type = "connect" => LastConnect(p)
  BY <1>1, <1>2, <1>3 DEF LastConnect, l
<1>8. DoneOk(q, o, i) => DoneOk(p, o, i)
  BY <1>1, <1>2, <1>4 DEF DoneOk, l
<1> QED BY <1>4, <1>5, <1>6, <1>7, <1>8 DEF p

\* The same when the only completion is taken,
LEMMA TakenKeeps ==
    ASSUME NEW q \in Seq(Events), q # <<>>, Alone(q), ControlEvent(q[1]), NEW rest \in BOOLEAN
    PROVE  /\ NoControlIn(Tail(q))
           /\ BusOk(q, rest) => BusOk(Tail(q), FALSE)
           /\ NoStatus(q, rest) => NoStatus(Tail(q), FALSE)
           /\ LastConnect(q) => LastConnect(Tail(q))
           /\ \A o, i : o # "done" /\ i # "done" => DoneOk(Tail(q), o, i)
<1> DEFINE p == Tail(q)
           l == Len(q)
<1>1. /\ l \in Nat \ {0} /\ Len(p) = l - 1 /\ p \in Seq(Events)
      /\ \A k \in 1 .. (l - 1) : k + 1 \in 1 .. l /\ p[k] = q[k + 1]
      /\ \A k \in 1 .. (l - 1) : NoControl(p, k, l - 1) <=> NoControl(q, k + 1, l)
  BY ControlTail
<1>2. /\ \A k \in 1 .. l : k = 1 \/ (k - 1 \in 1 .. (l - 1) /\ (k - 1) + 1 = k)
      /\ \A k \in 1 .. (l - 1) : 1 \in 1 .. ((k + 1) - 1)
      /\ 1 \in 1 .. l
  BY <1>1
<1>3. NoControlIn(p)
  BY ControlAlone
<1> HIDE DEF p, l
<1>4. \A k \in 1 .. (l - 1) : NoControl(q, k + 1, l) /\ ~ControlEvent(p[k])
  BY <1>1, <1>3, ControlNowhere
<1>5. \A k \in 1 .. (l - 1) : ~NoControl(q, 1, (k + 1) - 1)
  BY <1>2 DEF NoControl
<1>6. BusOk(q, rest) => BusOk(p, FALSE)
  BY <1>1, <1>4 DEF BusOk, l
<1>7. NoStatus(q, rest) => NoStatus(p, FALSE)
  BY <1>1, <1>5 DEF NoStatus, l
<1>8. ASSUME LastConnect(q) PROVE LastConnect(p)
  <2>1. PICK k \in 1 .. l : q[k].type = "connect" /\ NoControl(q, k, l)
    BY <1>8 DEF LastConnect, l
  <2>2. k # 1
    BY <2>1 DEF ControlEvent
  <2>3. k - 1 \in 1 .. (l - 1) /\ p[k - 1] = q[k] /\ NoControl(p, k - 1, l - 1)
    BY <1>1, <1>2, <2>1, <2>2
  <2> QED BY <1>1, <2>1, <2>3 DEF LastConnect
<1>9. ASSUME NEW o, NEW i, o # "done", i # "done" PROVE DoneOk(p, o, i)
  BY <1>1, <1>4, <1>9 DEF DoneOk
<1> QED BY <1>3, <1>6, <1>7, <1>8, <1>9 DEF p

\* and when it is appended.
LEMMA CompletionKeeps ==
    ASSUME NEW q \in Seq(Events), NoControlIn(q), NEW e \in Events, ControlEvent(e)
    PROVE  /\ ~NoControlIn(Append(q, e))
           /\ BusOk(Append(q, e), TRUE)
           /\ BusOk(q, FALSE) => BusOk(Append(q, e), FALSE)
           /\ NoStatus(Append(q, e), TRUE)
           /\ \A o, i : (IF e.ep = EP0_OUT THEN o ELSE i) = "done" => DoneOk(Append(q, e), o, i)
<1> DEFINE p == Append(q, e)
           l == Len(q)
<1>1. /\ l \in Nat /\ Len(p) = l + 1 /\ p[l + 1] = e /\ \A k \in 1 .. l : p[k] = q[k]
      /\ \A k \in 1 .. (l + 1) : NoControl(p, 1, k - 1) <=> NoControl(q, 1, k - 1)
      /\ p \in Seq(Events)
  BY ControlAppend
<1>2. /\ \A k \in 1 .. (l + 1) : k \in 1 .. l \/ k = l + 1
      /\ \A k \in 1 .. l : k \in 1 .. (l + 1) /\ k <= l + 1
      /\ l + 1 \in 1 .. (l + 1) /\ 1 \in 1 .. (l + 1)
      /\ \A k \in 1 .. (l + 1) : k <= l + 1
  BY <1>1
<1>3. \A k \in 1 .. l : NoControl(q, 1, k - 1) /\ ~ControlEvent(q[k])
  BY ControlNowhere DEF l
<1> HIDE DEF p, l
<1>4. ~NoControlIn(p) /\ \A k \in 1 .. (l + 1) : ~NoControl(p, k, l + 1)
  <2>1. l + 1 \in 1 .. Len(p) /\ ControlEvent(p[l + 1])
    BY <1>1, <1>2
  <2>2. /\ ~NoControlIn(p)
        /\ \A k \in 1 .. Len(p) : k <= l + 1 => ~NoControl(p, k, Len(p))
    BY <1>1, <2>1, ControlInside
  <2> QED BY <1>1, <1>2, <2>2
<1>5. e.type \notin {"reset", "connect"} /\ ~Notify(e, "status")
  BY DEF ControlEvent, Notify
<1>6. BusOk(p, TRUE)
  BY <1>1, <1>4 DEF BusOk
<1>7. BusOk(q, FALSE) => BusOk(p, FALSE)
  BY <1>1, <1>2, <1>5 DEF BusOk, l
<1>8. NoStatus(p, TRUE)
  BY <1>1, <1>2, <1>3, <1>5 DEF NoStatus
<1>9. ASSUME NEW o, NEW i, (IF e.ep = EP0_OUT THEN o ELSE i) = "done" PROVE DoneOk(p, o, i)
  BY <1>1, <1>2, <1>3, <1>4, <1>9 DEF DoneOk
<1> QED BY <1>4, <1>6, <1>7, <1>8, <1>9 DEF p

-----------------------------------------------------------------------------
(* What each kind of step does to the control pipe.                         *)

\* The client answers, or nothing happens.
LEMMA PipeSame ==
    ASSUME NEW q \in Seq(Events), NEW o, NEW i, NEW st, NEW ss \in BOOLEAN, NEW c \in BOOLEAN,
           NEW sp, NEW buf, NEW w \in BOOLEAN, NEW w2 \in BOOLEAN, w2 => w, NEW h,
           PipeOk(q, o, i, st, ss, c, sp, buf, w, h)
    PROVE  PipeOk(q, o, i, st, ss, c, sp, buf, w2, h)
<1> DEFINE rest == AtRest(st, c)
           cur == Current(st, c, sp, buf)
           over == OverOk(cur, st, o, i, w)
           over2 == OverOk(cur, st, o, i, w2)
<1>1. /\ ModeOk(o, i, st, ss, c, sp.req) /\ DoneOk(q, o, i)
      /\ QueueOk(q, rest, buf.req, sp.req, over, ss) /\ HostOk(q, rest, cur, st, o, over, h)
  BY DEF PipeOk
<1>2. (over => over2) /\ over \in BOOLEAN /\ over2 \in BOOLEAN /\ rest \in BOOLEAN
  BY PipeBooleans DEF OverOk, Awaited, ExpectIn
<1> HIDE DEF rest, cur, over, over2
<1>3. QueueOk(q, rest, buf.req, sp.req, over2, ss)
  BY <1>1, <1>2, QueueOver
<1>4. HostOk(q, rest, cur, st, o, over2, h)
  BY <1>1, <1>2 DEF HostOk
<1> QED BY <1>1, <1>3, <1>4 DEF PipeOk, rest, cur, over2

\* An event of no concern to EP0 is taken, and nothing else changes.
LEMMA PipeTail ==
    ASSUME NEW q \in Seq(Events), NEW o, NEW i, NEW st, NEW ss \in BOOLEAN, NEW c \in BOOLEAN,
           NEW sp, NEW buf, NEW w \in BOOLEAN, NEW h,
           PipeOk(q, o, i, st, ss, c, sp, buf, w, h),
           q # <<>>, ~ControlEvent(q[1]), q[1].type # "connect"
    PROVE  PipeOk(Tail(q), o, i, st, ss, c, sp, buf, w, h)
<1> DEFINE rest == AtRest(st, c)
           cur == Current(st, c, sp, buf)
           over == OverOk(cur, st, o, i, w)
           p == Tail(q)
<1>1. /\ ModeOk(o, i, st, ss, c, sp.req) /\ DoneOk(q, o, i)
      /\ QueueOk(q, rest, buf.req, sp.req, over, ss) /\ HostOk(q, rest, cur, st, o, over, h)
  BY DEF PipeOk
<1>2. over \in BOOLEAN /\ rest \in BOOLEAN
  BY PipeBooleans
<1> HIDE DEF rest, cur, over, p
<1>3. QueueOk(p, rest, buf.req, sp.req, over, ss)
  BY <1>1, <1>2, QueueTail DEF p
<1>4. /\ NoControlIn(p) <=> NoControlIn(q)
      /\ BusOk(q, rest) => BusOk(p, rest)
      /\ NoStatus(q, rest) => NoStatus(p, rest)
      /\ LastConnect(q) => LastConnect(p)
      /\ DoneOk(p, o, i)
  BY <1>1, <1>2, TailKeeps DEF p
<1>5. HostOk(p, rest, cur, st, o, over, h)
  BY <1>1, <1>4 DEF HostOk, Ready
<1> QED BY <1>1, <1>3, <1>4, <1>5 DEF PipeOk, rest, cur, over, p

\* An event of no concern to EP0 is appended.
LEMMA PipeAppend ==
    ASSUME NEW q \in Seq(Events), NEW o, NEW i, NEW st, NEW ss \in BOOLEAN, NEW c \in BOOLEAN,
           NEW sp, NEW buf, NEW w \in BOOLEAN, NEW h,
           PipeOk(q, o, i, st, ss, c, sp, buf, w, h),
           NEW e \in Events, Neutral(e), e.type \notin {"reset", "connect"}
    PROVE  PipeOk(Append(q, e), o, i, st, ss, c, sp, buf, w, h)
<1> DEFINE rest == AtRest(st, c)
           cur == Current(st, c, sp, buf)
           over == OverOk(cur, st, o, i, w)
           p == Append(q, e)
<1>1. /\ ModeOk(o, i, st, ss, c, sp.req) /\ DoneOk(q, o, i)
      /\ QueueOk(q, rest, buf.req, sp.req, over, ss) /\ HostOk(q, rest, cur, st, o, over, h)
  BY DEF PipeOk
<1>2. over \in BOOLEAN /\ rest \in BOOLEAN
      /\ ~ControlEvent(e) /\ ~Notify(e, "status") /\ ~Notify(e, "data")
  BY PipeBooleans DEF Neutral
<1> HIDE DEF rest, cur, over, p
<1>3. QueueOk(p, rest, buf.req, sp.req, over, ss)
  BY <1>1, <1>2, QueueAppend DEF p
<1>4. /\ NoControlIn(p) <=> NoControlIn(q)
      /\ BusOk(q, rest) => BusOk(p, rest)
      /\ NoStatus(q, rest) => NoStatus(p, rest)
      /\ LastConnect(q) => LastConnect(p)
      /\ DoneOk(p, o, i)
  BY <1>1, <1>2, AppendKeeps DEF p
<1>5. HostOk(p, rest, cur, st, o, over, h)
  BY <1>1, <1>4 DEF HostOk, Ready
<1> QED BY <1>1, <1>3, <1>4, <1>5 DEF PipeOk, rest, cur, over, p

\* A bus reset, a connect or a disconnect is raised.
LEMMA PipeBus ==
    ASSUME NEW q \in Seq(Events), NEW o, NEW i, NEW st, NEW ss \in BOOLEAN, NEW c \in BOOLEAN,
           NEW sp, NEW buf, NEW w \in BOOLEAN, NEW h, NEW h2,
           PipeOk(q, o, i, st, ss, c, sp, buf, w, h),
           NEW e \in Events, Neutral(e), h2.phase = "idle", h2.bus = "up" => e.type = "connect"
    PROVE  PipeOk(Append(q, e), o, i, st, ss, c, sp, buf, w, h2)
<1> DEFINE rest == AtRest(st, c)
           cur == Current(st, c, sp, buf)
           over == OverOk(cur, st, o, i, w)
           p == Append(q, e)
<1>1. /\ ModeOk(o, i, st, ss, c, sp.req) /\ DoneOk(q, o, i)
      /\ QueueOk(q, rest, buf.req, sp.req, over, ss)
  BY DEF PipeOk
<1>2. over \in BOOLEAN /\ rest \in BOOLEAN
      /\ ~ControlEvent(e) /\ ~Notify(e, "status") /\ ~Notify(e, "data")
  BY PipeBooleans DEF Neutral
<1> HIDE DEF rest, cur, over, p
<1>3. QueueOk(p, rest, buf.req, sp.req, over, ss)
  BY <1>1, <1>2, QueueAppend DEF p
<1>4. DoneOk(p, o, i) /\ (e.type = "connect" => LastConnect(p))
  BY <1>1, <1>2, AppendKeeps DEF p
<1>5. HostOk(p, rest, cur, st, o, over, h2)
  BY <1>4 DEF HostOk, Ready
<1> QED BY <1>1, <1>3, <1>4, <1>5 DEF PipeOk, rest, cur, over, p

\* RESET is handled: EP0 IN is ended and the driver waits for a SETUP packet.
LEMMA PipeReset ==
    ASSUME NEW q \in Seq(Events), NEW o, NEW i, NEW st \in Ep0States, NEW ss \in BOOLEAN, NEW sp, NEW buf, NEW h,
           PipeOk(q, o, i, st, ss, FALSE, sp, buf, FALSE, h),
           q # <<>>, q[1].type = "reset"
    PROVE  PipeOk(Tail(q), o, "quiet", "Setup", FALSE, FALSE, sp, buf, FALSE, h)
<1> DEFINE p == Tail(q)
<1>1. ~ControlEvent(q[1]) /\ q[1].type # "connect"
  BY DEF ControlEvent
<1>2. PipeOk(p, o, i, st, ss, FALSE, sp, buf, FALSE, h)
  BY <1>1, PipeTail
<1>3. CASE st = "Setup"
  <2>1. i = "quiet" /\ ~ss
    BY <1>2, <1>3 DEF PipeOk, ModeOk
  <2>2. ss = FALSE
    BY <2>1
  <2> QED BY <1>2, <1>3, <2>1, <2>2
<1>4. CASE st # "Setup"
  <2> DEFINE over == OverOk(sp, st, o, i, FALSE)
             over2 == OverOk(buf, "Setup", o, "quiet", FALSE)
  <2>1. /\ ~AtRest(st, FALSE) /\ AtRest("Setup", FALSE) /\ Current(st, FALSE, sp, buf) = sp
        /\ Current("Setup", FALSE, sp, buf) = buf
    BY <1>4 DEF AtRest, Current
  <2>2. /\ ModeOk(o, i, st, ss, FALSE, sp.req) /\ DoneOk(q, o, i) /\ DoneOk(p, o, i)
        /\ QueueOk(q, FALSE, buf.req, sp.req, over, ss) /\ HostOk(q, FALSE, sp, st, o, over, h)
        /\ QueueOk(p, FALSE, buf.req, sp.req, over, ss) /\ HostOk(p, FALSE, sp, st, o, over, h)
    <3>1. AtRest(st, FALSE) = FALSE
      BY <2>1 DEF AtRest
    <3> QED BY <1>2, <2>1, <3>1 DEF PipeOk
  <2>3. over \in BOOLEAN /\ over2 \in BOOLEAN /\ p \in Seq(Events)
    BY DEF OverOk, Awaited, ExpectIn
  <2>4. NoControlIn(p) /\ NoControlIn(q)
    <3>1. 1 \in 1 .. Len(q)
      OBVIOUS
    <3>2. NoControl(q, 1, Len(q))
      BY <2>2, <3>1 DEF QueueOk, ResetsOk
    <3> QED BY <1>1, <3>2, TailKeeps DEF NoControlIn
  <2>5. o # "done" /\ i # "done"
    BY <2>2, <2>4 DEF DoneOk
  <2>6. o \in {"quiet", "data", "status"}
    BY <1>4, <2>2, <2>5 DEF ModeOk
  <2> HIDE DEF over, over2, p
  <2>7. QueueOk(p, TRUE, buf.req, sp.req, over2, FALSE)
    BY <2>2, <2>3, <2>4, QueueRests
  <2>8. ModeOk(o, "quiet", "Setup", FALSE, FALSE, sp.req)
    BY <2>6 DEF ModeOk
  <2>9. DoneOk(p, o, "quiet")
    BY <2>2, <2>4, <2>5 DEF DoneOk
  <2>10. HostOk(p, TRUE, buf, "Setup", o, over2, h)
    <3>1. h.phase = "idle"
      <4>1. 1 \in 1 .. Len(q)
        OBVIOUS
      <4> QED BY <2>2, <4>1 DEF HostOk, BusOk
    <3> QED BY <2>2, <2>4, <2>6, <3>1 DEF HostOk, Ready
  <2>11. AtRest("Setup", FALSE) = TRUE
    BY DEF AtRest
  <2> QED BY <2>1, <2>7, <2>8, <2>9, <2>10, <2>11 DEF PipeOk, over2, p
<1> QED BY <1>3, <1>4

\* The invariant while the driver waits for a SETUP packet,
LEMMA PipeRest ==
    ASSUME NEW q, NEW o, NEW i, NEW ss, NEW sp, NEW buf, NEW w, NEW h
    PROVE  PipeOk(q, o, i, "Setup", ss, FALSE, sp, buf, w, h)
           <=> /\ ModeOk(o, i, "Setup", ss, FALSE, sp.req) /\ DoneOk(q, o, i)
               /\ QueueOk(q, TRUE, buf.req, sp.req, OverOk(buf, "Setup", o, i, w), ss)
               /\ HostOk(q, TRUE, buf, "Setup", o, OverOk(buf, "Setup", o, i, w), h)
<1>1. AtRest("Setup", FALSE) = TRUE /\ Current("Setup", FALSE, sp, buf) = buf
  BY DEF AtRest, Current
<1> QED BY <1>1 DEF PipeOk

\* and while it handles a request.
LEMMA PipeBusy ==
    ASSUME NEW q, NEW o, NEW i, NEW st, NEW ss, NEW c \in BOOLEAN, NEW sp, NEW buf, NEW w, NEW h,
           c \/ st # "Setup"
    PROVE  PipeOk(q, o, i, st, ss, c, sp, buf, w, h)
           <=> /\ ModeOk(o, i, st, ss, c, sp.req) /\ DoneOk(q, o, i)
               /\ QueueOk(q, FALSE, buf.req, sp.req, OverOk(sp, st, o, i, w), ss)
               /\ HostOk(q, FALSE, sp, st, o, OverOk(sp, st, o, i, w), h)
<1>1. AtRest(st, c) = FALSE /\ Current(st, c, sp, buf) = sp
  BY DEF AtRest, Current
<1> QED BY <1>1 DEF PipeOk

\* CONNECT_DONE is handled while the driver waits for a SETUP packet: EP0 is armed
\* (o2) unless it looks busy.
LEMMA PipeConnect ==
    ASSUME NEW q \in Seq(Events), NEW o, NEW o2, NEW i, NEW ss \in BOOLEAN, NEW sp, NEW buf, NEW h,
           PipeOk(q, o, i, "Setup", ss, FALSE, sp, buf, FALSE, h),
           q # <<>>, q[1].type = "connect", o2 = IF o = "quiet" THEN "setup" ELSE o
    PROVE  PipeOk(Tail(q), o2, "quiet", "Setup", FALSE, FALSE, sp, buf, FALSE, h)
<1> DEFINE p == Tail(q)
           over == OverOk(buf, "Setup", o, i, FALSE)
<1>1. ~ControlEvent(q[1])
  BY DEF ControlEvent
<1>2. /\ ModeOk(o, i, "Setup", ss, FALSE, sp.req) /\ DoneOk(q, o, i)
      /\ QueueOk(q, TRUE, buf.req, sp.req, over, ss) /\ HostOk(q, TRUE, buf, "Setup", o, over, h)
  BY PipeRest
<1>3. i = "quiet" /\ ss = FALSE /\ o \in {"quiet", "done", "setup", "data", "status"}
  BY <1>2 DEF ModeOk
<1>4. ModeOk(o2, "quiet", "Setup", FALSE, FALSE, sp.req) /\ over \in BOOLEAN
      /\ over = OverOk(buf, "Setup", o2, "quiet", FALSE)
  BY <1>3 DEF ModeOk, OverOk, Awaited, ExpectIn
<1> HIDE DEF over, p
<1>5. QueueOk(p, TRUE, buf.req, sp.req, over, FALSE)
  BY <1>1, <1>2, <1>3, <1>4, QueueTail DEF p
<1>6. /\ NoControlIn(p) <=> NoControlIn(q)
      /\ BusOk(q, TRUE) => BusOk(p, TRUE)
      /\ NoStatus(q, TRUE) => NoStatus(p, TRUE)
      /\ DoneOk(p, o, i)
  BY <1>1, <1>2, TailKeeps DEF p
<1>7. DoneOk(p, o2, "quiet")
  BY <1>3, <1>6 DEF DoneOk
<1>8. HostOk(p, TRUE, buf, "Setup", o2, over, h)
  <2>1. CASE h.phase # "idle"
    <3>1. ~NoControlIn(q) /\ BusOk(q, TRUE)
      BY <1>2, <2>1 DEF HostOk
    <3>2. o = "done" /\ o2 = "done"
      BY <1>2, <1>3, <3>1, DoneFacts
    <3> QED BY <1>2, <1>6, <2>1, <3>2 DEF HostOk
  <2>2. CASE h.phase = "idle"
    <3>1. ASSUME o = "done", LastConnect(q) PROVE LastConnect(p)
      <4>1. ~NoControlIn(q)
        BY <1>2, <3>1 DEF DoneOk
      <4>2. PICK k \in 1 .. Len(q) : q[k].type = "connect" /\ NoControl(q, k, Len(q))
        BY <3>1 DEF LastConnect
      <4>3. k # 1
        BY <4>1, <4>2 DEF NoControlIn
      <4>4. /\ k - 1 \in 1 .. Len(p) /\ (k - 1) + 1 = k
            /\ \A j \in 1 .. Len(p) : p[j] = q[j + 1]
            /\ \A j \in 1 .. Len(p) : NoControl(p, j, Len(p)) <=> NoControl(q, j + 1, Len(q))
        <5>1. /\ Len(p) = Len(q) - 1 /\ Len(q) \in Nat \ {0}
              /\ \A j \in 1 .. Len(p) : p[j] = q[j + 1]
              /\ \A j \in 1 .. Len(p) : NoControl(p, j, Len(p)) <=> NoControl(q, j + 1, Len(q))
          BY ControlTail DEF p
        <5>2. k - 1 \in 1 .. Len(p) /\ (k - 1) + 1 = k
          BY <4>3, <5>1
        <5> QED BY <5>1, <5>2
      <4> QED BY <4>2, <4>4 DEF LastConnect
    <3> QED BY <1>2, <1>3, <2>2, <3>1 DEF HostOk, Ready
  <2> QED BY <2>1, <2>2
<1>9. QueueOk(p, TRUE, buf.req, sp.req, OverOk(buf, "Setup", o2, "quiet", FALSE), FALSE)
      /\ HostOk(p, TRUE, buf, "Setup", o2, OverOk(buf, "Setup", o2, "quiet", FALSE), h)
  BY <1>4, <1>5, <1>8
<1> QED BY <1>4, <1>7, <1>9, PipeRest DEF p

\* The completion of the data stage is taken.
LEMMA PipeDataTaken ==
    ASSUME NEW q \in Seq(Events), NEW o, NEW i, NEW ss \in BOOLEAN, NEW sp, NEW buf, NEW h,
           PipeOk(q, o, i, "Data", ss, FALSE, sp, buf, FALSE, h),
           q # <<>>, ControlEvent(q[1])
    PROVE  /\ IF q[1].ep = EP0_OUT THEN o = "done" /\ i = "quiet" ELSE i = "done" /\ o = "quiet"
           /\ PipeOk(Tail(q), "quiet", "quiet", "Data", ss, FALSE, sp, buf, FALSE, h)
<1> DEFINE p == Tail(q)
           over == OverOk(sp, "Data", o, i, FALSE)
<1>1. /\ ModeOk(o, i, "Data", ss, FALSE, sp.req) /\ DoneOk(q, o, i)
      /\ QueueOk(q, FALSE, buf.req, sp.req, over, ss) /\ HostOk(q, FALSE, sp, "Data", o, over, h)
  BY PipeBusy
<1>2. (IF q[1].ep = EP0_OUT THEN o ELSE i) = "done"
  BY <1>1, DoneFacts
<1>3. IF q[1].ep = EP0_OUT THEN o = "done" /\ i = "quiet" ELSE i = "done" /\ o = "quiet"
  BY <1>1, <1>2 DEF ModeOk
<1>4. ModeOk("quiet", "quiet", "Data", ss, FALSE, sp.req)
      /\ over = TRUE /\ OverOk(sp, "Data", "quiet", "quiet", FALSE) = TRUE
  BY <1>1, <1>3 DEF ModeOk, OverOk, Awaited, ExpectIn
<1> HIDE DEF over, p
<1>5. QueueOk(p, FALSE, buf.req, sp.req, TRUE, ss)
  <2>1. QueueOk(q, FALSE, buf.req, sp.req, TRUE, ss)
    BY <1>1, <1>4
  <2> QED BY <2>1, QueueStageTaken DEF p
<1>6. Alone(q) /\ FALSE \in BOOLEAN
  BY <1>1 DEF QueueOk
<1>7. /\ NoControlIn(p)
      /\ BusOk(q, FALSE) => BusOk(p, FALSE)
      /\ LastConnect(q) => LastConnect(p)
      /\ DoneOk(p, "quiet", "quiet")
  BY <1>6, TakenKeeps DEF p
<1>8. ~NoControlIn(q)
  BY <1>1, <1>2, DoneFacts
<1>9. HostOk(p, FALSE, sp, "Data", "quiet", TRUE, h)
  <2>1. h.phase # "data"
    BY <1>1, <1>8 DEF HostOk
  <2>2. h.bus = "up" /\ h.phase = "idle" => LastConnect(q)
    BY <1>1, <1>3 DEF HostOk, Ready
  <2> QED BY <1>1, <1>7, <2>1, <2>2 DEF HostOk, Ready
<1>10. PipeOk(p, "quiet", "quiet", "Data", ss, FALSE, sp, buf, FALSE, h)
  BY <1>4, <1>5, <1>7, <1>9, PipeBusy
<1> QED BY <1>3, <1>10 DEF p

\* The completion of the status stage is taken, and EP0 armed.
LEMMA PipeStatusTaken ==
    ASSUME NEW q \in Seq(Events), NEW o, NEW i, NEW sp, NEW buf, NEW h,
           PipeOk(q, o, i, "Status", TRUE, FALSE, sp, buf, FALSE, h),
           q # <<>>, ControlEvent(q[1])
    PROVE  /\ q[1].ep = EP0_OUT => o = "done"
           /\ q[1].ep # EP0_OUT => i = "done"
           /\ PipeOk(Tail(q), "setup", "quiet", "Setup", FALSE, FALSE, sp, buf, FALSE, h)
<1> DEFINE p == Tail(q)
           over == OverOk(sp, "Status", o, i, FALSE)
           over2 == OverOk(buf, "Setup", "setup", "quiet", FALSE)
<1>1. /\ ModeOk(o, i, "Status", TRUE, FALSE, sp.req) /\ DoneOk(q, o, i)
      /\ QueueOk(q, FALSE, buf.req, sp.req, over, TRUE) /\ HostOk(q, FALSE, sp, "Status", o, over, h)
  BY PipeBusy
<1>2. (IF q[1].ep = EP0_OUT THEN o ELSE i) = "done"
  BY <1>1, DoneFacts
<1>3. /\ o \in {"quiet", "done", "status"} /\ i \in {"quiet", "done", "data", "status"}
      /\ ModeOk("setup", "quiet", "Setup", FALSE, FALSE, sp.req)
  BY <1>1 DEF ModeOk
<1>4. over \in BOOLEAN /\ over2 \in BOOLEAN /\ FALSE \in BOOLEAN /\ TRUE \in BOOLEAN /\ (over => over)
  BY PipeBooleans
<1> HIDE DEF over, over2, p
<1>5. Alone(q) /\ p \in Seq(Events)
  BY <1>1 DEF QueueOk, p
<1>6. NoControlIn(p) /\ DoneOk(p, "setup", "quiet")
  BY <1>4, <1>5, TakenKeeps DEF p
<1>7. ~NoControlIn(q)
  BY <1>1, <1>2, DoneFacts
<1>8. QueueOk(p, TRUE, buf.req, sp.req, over2, FALSE)
  <2>1. QueueOk(p, FALSE, buf.req, sp.req, over, TRUE)
    BY <1>1, <1>4, QueueStageTaken DEF p
  <2> QED BY <1>4, <1>5, <1>6, <2>1, QueueRests
<1>9. h.phase = "idle"
  BY <1>1, <1>7 DEF HostOk
<1>10. HostOk(p, TRUE, buf, "Setup", "setup", over2, h)
  BY <1>9 DEF HostOk, Ready
<1>11. PipeOk(p, "setup", "quiet", "Setup", FALSE, FALSE, sp, buf, FALSE, h)
  BY <1>3, <1>6, <1>8, <1>10, PipeRest DEF over2
<1> QED BY <1>2, <1>3, <1>9, <1>11 DEF p

\* What the invariant knows of the host is its request, its phase and the bus.
LEMMA HostSame ==
    ASSUME NEW q, NEW rest, NEW cur, NEW st, NEW o, NEW over, NEW h, NEW h2,
           h2.phase = h.phase, h2.packet = h.packet, h2.bus = h.bus
    PROVE  HostOk(q, rest, cur, st, o, over, h) <=> HostOk(q, rest, cur, st, o, over, h2)
BY DEF HostOk

\* The host asks for the status stage, and the driver starts it.
LEMMA PipeStatusStart ==
    ASSUME NEW q \in Seq(Events), NEW o, NEW i, NEW st, NEW sp, NEW buf, NEW h,
           PipeOk(q, o, i, st, FALSE, FALSE, sp, buf, FALSE, h),
           q # <<>>, Notify(q[1], "status"), st # "Setup", NEW o2, NEW i2,
           IF q[1].ep = EP0_OUT THEN o2 = "status" /\ i2 = i ELSE o2 = o /\ i2 = "status"
    PROVE  PipeOk(Tail(q), o2, i2, "Status", TRUE, FALSE, sp, buf, FALSE, h)
<1> DEFINE p == Tail(q)
           over == OverOk(sp, st, o, i, FALSE)
           over2 == OverOk(sp, "Status", o2, i2, FALSE)
<1>1. /\ ModeOk(o, i, st, FALSE, FALSE, sp.req) /\ DoneOk(q, o, i)
      /\ QueueOk(q, FALSE, buf.req, sp.req, over, FALSE) /\ HostOk(q, FALSE, sp, st, o, over, h)
  BY PipeBusy
<1>2. 1 \in 1 .. Len(q) /\ ~ControlEvent(q[1]) /\ q[1].type # "connect"
  BY DEF Notify, ControlEvent
<1>3. q[1].ep = StatusEp(sp.req) /\ over /\ NoControlIn(q)
  BY <1>1, <1>2 DEF QueueOk, StatusesOk, NoControlIn
<1>4. o # "done" /\ i # "done"
  BY <1>1, <1>3, DoneFacts
<1>5. ModeOk(o2, i2, "Status", TRUE, FALSE, sp.req) /\ over2 /\ o # "setup" /\ o2 # "done" /\ i2 # "done"
  BY <1>1, <1>3, <1>4, EpsFacts DEF ModeOk, OverOk, StatusEp, ThreeStage, ExpectIn, EP0_OUT, EP0_IN, Awaited
<1>6. over \in BOOLEAN /\ over2 \in BOOLEAN /\ FALSE \in BOOLEAN /\ TRUE \in BOOLEAN
  BY PipeBooleans
<1>12. p \in Seq(Events)
  OBVIOUS
<1> HIDE DEF over, over2, p
<1>7. QueueOk(p, FALSE, buf.req, sp.req, over2, TRUE)
  <2>1. QueueOk(p, FALSE, buf.req, sp.req, over, FALSE)
    BY <1>1, <1>2, <1>6, QueueTail DEF p
  <2>2. StatusesOk(p, FALSE, sp.req, over2, TRUE)
    BY <1>5, <2>1 DEF QueueOk, StatusesOk
  <2> QED BY <2>1, <2>2 DEF QueueOk
<1>8. /\ NoControlIn(p)
      /\ BusOk(q, FALSE) => BusOk(p, FALSE)
      /\ LastConnect(q) => LastConnect(p)
  BY <1>2, <1>3, <1>6, TailKeeps DEF p
<1>9. DoneOk(p, o2, i2)
  BY <1>5, <1>8 DEF DoneOk, NoControlIn, NoControl
<1>10. HostOk(p, FALSE, sp, "Status", o2, over2, h)
  <2>1. h.phase # "data"
    BY <1>1, <1>2 DEF HostOk, NoStatus
  <2>2. h.bus = "up" /\ h.phase = "idle" => LastConnect(q)
    BY <1>1, <1>3, <1>5 DEF HostOk, Ready
  <2> QED BY <1>1, <1>5, <1>8, <2>1, <2>2 DEF HostOk, Ready
<1>11. PipeOk(p, o2, i2, "Status", TRUE, FALSE, sp, buf, FALSE, h)
  BY <1>5, <1>7, <1>9, <1>10, PipeBusy DEF over2
<1> QED BY <1>11 DEF p

\* The client submits the data stage.
LEMMA PipeDataStarted ==
    ASSUME NEW q \in Seq(Events), NEW ss \in BOOLEAN, NEW sp, NEW buf, NEW h,
           PipeOk(q, "quiet", "quiet", "Data", ss, FALSE, sp, buf, TRUE, h), NEW o2, NEW i2,
           IF ExpectIn(sp.req) THEN o2 = "quiet" /\ i2 = "data" ELSE o2 = "data" /\ i2 = "quiet"
    PROVE  PipeOk(q, o2, i2, "Data", ss, FALSE, sp, buf, FALSE, h)
<1> DEFINE over == OverOk(sp, "Data", "quiet", "quiet", TRUE)
           over2 == OverOk(sp, "Data", o2, i2, FALSE)
<1>1. /\ ModeOk("quiet", "quiet", "Data", ss, FALSE, sp.req) /\ DoneOk(q, "quiet", "quiet")
      /\ QueueOk(q, FALSE, buf.req, sp.req, over, ss) /\ HostOk(q, FALSE, sp, "Data", "quiet", over, h)
  BY PipeBusy
<1>2. ModeOk(o2, i2, "Data", ss, FALSE, sp.req)
  BY <1>1 DEF ModeOk, ExpectIn
<1>3. over = over2 /\ o2 # "done" /\ i2 # "done"
  BY DEF OverOk, ExpectIn, Awaited
<1> HIDE DEF over, over2
<1>4. QueueOk(q, FALSE, buf.req, sp.req, over2, ss)
  BY <1>1, <1>3
<1>5. NoControlIn(q)
  BY <1>1, DoneFacts
<1>6. DoneOk(q, o2, i2)
  BY <1>3, <1>5 DEF DoneOk, NoControlIn, NoControl
<1>7. HostOk(q, FALSE, sp, "Data", o2, over2, h)
  BY <1>1, <1>3, <1>5 DEF HostOk, Ready
<1> QED BY <1>2, <1>4, <1>6, <1>7, PipeBusy DEF over2

\* The client rejects the request, and EP0 is armed.
LEMMA PipeStall ==
    ASSUME NEW q \in Seq(Events), NEW st, NEW ss \in BOOLEAN, NEW sp, NEW buf, NEW w \in BOOLEAN,
           NEW h, NEW h2,
           PipeOk(q, "quiet", "quiet", st, ss, FALSE, sp, buf, w, h), st # "Setup", h2.phase = "idle"
    PROVE  PipeOk(q, "setup", "quiet", "Setup", FALSE, FALSE, sp, buf, FALSE, h2)
<1> DEFINE over == OverOk(sp, st, "quiet", "quiet", w)
           over2 == OverOk(buf, "Setup", "setup", "quiet", FALSE)
<1>1. DoneOk(q, "quiet", "quiet") /\ QueueOk(q, FALSE, buf.req, sp.req, over, ss)
  BY PipeBusy
<1>2. NoControlIn(q)
  BY <1>1, DoneFacts
<1>3. over \in BOOLEAN /\ over2 \in BOOLEAN /\ FALSE \in BOOLEAN
  BY PipeBooleans
<1> HIDE DEF over, over2
<1>4. QueueOk(q, TRUE, buf.req, sp.req, over2, FALSE)
  BY <1>1, <1>2, <1>3, QueueRests
<1>5. DoneOk(q, "setup", "quiet")
  BY <1>2 DEF DoneOk, NoControlIn, NoControl
<1>6. HostOk(q, TRUE, buf, "Setup", "setup", over2, h2)
  BY DEF HostOk, Ready
<1>7. ModeOk("setup", "quiet", "Setup", FALSE, FALSE, sp.req)
  BY DEF ModeOk
<1> QED BY <1>4, <1>5, <1>6, <1>7, PipeRest DEF over2

\* The controller is started, and EP0 armed.
LEMMA PipeArm ==
    ASSUME NEW sp, NEW buf, NEW h, h.bus = "off", h.phase = "idle"
    PROVE  PipeOk(<<>>, "setup", "quiet", "Setup", FALSE, FALSE, sp, buf, FALSE, h)
<1> DEFINE over == OverOk(buf, "Setup", "setup", "quiet", FALSE)
<1>1. \A k : k \notin 1 .. Len(<<>>)
  OBVIOUS
<1>2. DoneOk(<<>>, "setup", "quiet") /\ QueueOk(<<>>, TRUE, buf.req, sp.req, over, FALSE)
  BY <1>1 DEF DoneOk, QueueOk, Alone, StatusesOk, DatasOk, ResetsOk
<1>3. HostOk(<<>>, TRUE, buf, "Setup", "setup", over, h)
  BY DEF HostOk
<1>4. ModeOk("setup", "quiet", "Setup", FALSE, FALSE, sp.req)
  BY DEF ModeOk
<1> QED BY <1>2, <1>3, <1>4, PipeRest

\* A SETUP packet arrives.
LEMMA PipeHostSetup ==
    ASSUME NEW q \in Seq(Events), NEW i, NEW st, NEW ss \in BOOLEAN, NEW c \in BOOLEAN, NEW sp, NEW buf, NEW buf2,
           NEW h, NEW h2, NEW w,
           PipeOk(q, "setup", i, st, ss, c, sp, buf, w, h), w = FALSE,
           NEW e \in Events, ControlEvent(e), e.ep = EP0_OUT,
           h2.packet = buf2, h2.bus = "up", h2.phase = IF ThreeStage(buf2.req) THEN "data" ELSE "status"
    PROVE  PipeOk(Append(q, e), "done", i, st, ss, c, sp, buf2, w, h2)
<1>1. st = "Setup" /\ c = FALSE /\ ss = FALSE /\ i = "quiet"
  BY DEF PipeOk, ModeOk
<1> DEFINE p == Append(q, e)
           over == OverOk(buf, "Setup", "setup", "quiet", FALSE)
           over2 == OverOk(buf2, "Setup", "done", i, FALSE)
<1>2. DoneOk(q, "setup", i) /\ QueueOk(q, TRUE, buf.req, sp.req, over, ss)
  BY <1>1, PipeRest
<1>3. NoControlIn(q)
  BY <1>1, <1>2, DoneFacts
<1>4. over \in BOOLEAN /\ over2 \in BOOLEAN /\ TRUE \in BOOLEAN /\ (h2.phase = "status" => over2)
  BY DEF OverOk, ThreeStage, Awaited, ExpectIn
<1> HIDE DEF over, over2, p
<1>5. QueueOk(p, TRUE, buf2.req, sp.req, over2, ss)
  BY <1>2, <1>3, <1>4, QueueSetup DEF p
<1>6. /\ ~NoControlIn(p) /\ BusOk(p, TRUE) /\ NoStatus(p, TRUE) /\ DoneOk(p, "done", i)
  BY <1>3, CompletionKeeps DEF p
<1>7. HostOk(p, TRUE, buf2, "Setup", "done", over2, h2)
  BY <1>4, <1>6 DEF HostOk
<1>8. ModeOk("done", i, "Setup", FALSE, FALSE, sp.req)
  BY <1>1 DEF ModeOk
<1>9. PipeOk(p, "done", i, "Setup", FALSE, FALSE, sp, buf2, FALSE, h2)
  BY <1>1, <1>5, <1>6, <1>7, <1>8, PipeRest DEF over2
<1> QED BY <1>1, <1>9 DEF p

\* The host asks for the data stage or the status stage.
LEMMA PipeNotReady ==
    ASSUME NEW q \in Seq(Events), NEW o, NEW i, NEW st, NEW ss \in BOOLEAN, NEW c \in BOOLEAN,
           NEW sp, NEW buf, NEW w \in BOOLEAN, NEW h, NEW h2,
           PipeOk(q, o, i, st, ss, c, sp, buf, w, h),
           h2.phase = h.phase, h2.packet = h.packet, h2.bus = h.bus,
           NEW e \in Events,
           \/ h.phase = "data" /\ Notify(e, "data") /\ e.ep = DataEp(h.packet.req)
           \/ h.phase = "status" /\ Notify(e, "status") /\ e.ep = StatusEp(h.packet.req)
    PROVE  PipeOk(Append(q, e), o, i, st, ss, c, sp, buf, w, h2)
<1> DEFINE p == Append(q, e)
           rest == AtRest(st, c)
           cur == Current(st, c, sp, buf)
           over == OverOk(cur, st, o, i, w)
<1>1. /\ ModeOk(o, i, st, ss, c, sp.req) /\ DoneOk(q, o, i)
      /\ QueueOk(q, rest, buf.req, sp.req, over, ss) /\ HostOk(q, rest, cur, st, o, over, h)
  BY DEF PipeOk
<1>2. ~ControlEvent(e) /\ e.type \notin {"reset", "connect"}
      /\ (Notify(e, "status") <=> h.phase = "status") /\ (Notify(e, "data") <=> h.phase = "data")
  BY DEF ControlEvent, Notify
<1>3. rest \in BOOLEAN /\ over \in BOOLEAN /\ (IF rest THEN buf.req ELSE sp.req) = cur.req
  BY PipeBooleans DEF Current
<1> HIDE DEF rest, cur, over, p
<1>4. h.packet = cur /\ (rest => ~NoControlIn(q)) /\ (h.phase = "status" => over)
  BY <1>1, <1>2 DEF HostOk
<1>5. QueueOk(p, rest, buf.req, sp.req, over, ss)
  <2>1. Notify(e, "status") => over /\ e.ep = StatusEp(IF rest THEN buf.req ELSE sp.req)
    BY <1>2, <1>3, <1>4
  <2>2. Notify(e, "data") => e.ep = DataEp(IF rest THEN buf.req ELSE sp.req) /\ (rest => ~NoControlIn(q))
    BY <1>2, <1>3, <1>4
  <2> QED BY <1>1, <1>2, <1>3, <2>1, <2>2, QueueAppend DEF p
<1>6. /\ NoControlIn(p) <=> NoControlIn(q)
      /\ BusOk(q, rest) => BusOk(p, rest)
      /\ h.phase = "data" /\ NoStatus(q, rest) => NoStatus(p, rest)
      /\ DoneOk(p, o, i)
  BY <1>1, <1>2, <1>3, AppendKeeps DEF p
<1>7. HostOk(p, rest, cur, st, o, over, h2)
  BY <1>1, <1>2, <1>6 DEF HostOk
<1> QED BY <1>1, <1>5, <1>6, <1>7 DEF PipeOk, rest, cur, over, p

\* The controller has executed the TRB of type t on one direction of EP0.
Executed(n, t, o, i, o2, i2) ==
    IF n = EP0_OUT THEN o = t /\ o2 = "done" /\ i2 = i ELSE i = t /\ i2 = "done" /\ o2 = o

\* A data stage that takes place belongs to a request the client has answered.
LEMMA DataStage ==
    ASSUME NEW q \in Seq(Events), NEW o, NEW i, NEW st, NEW ss \in BOOLEAN, NEW c \in BOOLEAN,
           NEW sp, NEW buf, NEW h, NEW n, NEW o2, NEW i2,
           PipeOk(q, o, i, st, ss, c, sp, buf, FALSE, h), h.phase = "data",
           Executed(n, "data", o, i, o2, i2)
    PROVE  st = "Data"
<1>1. \/ i = "data" /\ st # "Setup"
      \/ o = "data" /\ st # "Setup"
      \/ o = "data" /\ i = "quiet" /\ AtRest(st, c)
  BY DEF PipeOk, ModeOk, AtRest, Executed
<1>2. DoneOk(q, o, i) /\ (AtRest(st, c) => ~NoControlIn(q))
  BY DEF PipeOk, HostOk
<1>3. st # "Setup"
  BY <1>1, <1>2, DoneFacts
<1> QED BY <1>3 DEF PipeOk, HostOk, ModeOk

\* The data stage takes place.
LEMMA PipeHostData ==
    ASSUME NEW q \in Seq(Events), NEW o, NEW i, NEW st, NEW ss \in BOOLEAN, NEW c \in BOOLEAN,
           NEW o2, NEW i2, NEW sp, NEW buf, NEW buf2, NEW h, NEW h2, NEW e \in Events,
           PipeOk(q, o, i, st, ss, c, sp, buf, FALSE, h), h.phase = "data",
           h2.packet = h.packet, h2.bus = h.bus, h2.phase = "status",
           ControlEvent(e), e.ep = DataEp(h.packet.req),
           Executed(e.ep, "data", o, i, o2, i2)
    PROVE  PipeOk(Append(q, e), o2, i2, st, ss, c, sp, buf2, FALSE, h2)
<1>1. st = "Data" /\ c = FALSE /\ NoControlIn(q)
  <2>1. st = "Data"
    BY DataStage
  <2> QED BY <2>1 DEF PipeOk, HostOk, ModeOk
<1> DEFINE p == Append(q, e)
           over == OverOk(sp, "Data", o, i, FALSE)
           over2 == OverOk(sp, "Data", o2, i2, FALSE)
<1>2. /\ ModeOk(o, i, "Data", ss, FALSE, sp.req)
      /\ QueueOk(q, FALSE, buf.req, sp.req, over, ss) /\ HostOk(q, FALSE, sp, "Data", o, over, h)
  BY <1>1, PipeBusy
<1>3. h.packet = sp /\ BusOk(q, FALSE) /\ NoStatus(q, FALSE) /\ h.bus = "up"
  BY <1>2 DEF HostOk
<1>4. ModeOk(o2, i2, "Data", ss, FALSE, sp.req) /\ over2
  BY <1>2, EpsFacts DEF Executed, ModeOk, OverOk, EP0_OUT, EP0_IN, DataEp, ExpectIn, Awaited
<1>5. over \in BOOLEAN /\ over2 \in BOOLEAN /\ FALSE \in BOOLEAN
  BY PipeBooleans
<1> HIDE DEF over, over2, p
<1>6. QueueOk(p, FALSE, buf2.req, sp.req, over2, ss)
  BY <1>1, <1>2, <1>3, <1>4, <1>5, QueueStage DEF p
<1>7. BusOk(p, FALSE) /\ DoneOk(p, o2, i2)
  BY <1>1, <1>3, CompletionKeeps DEF p, Executed
<1>8. HostOk(p, FALSE, sp, "Data", o2, over2, h2)
  BY <1>3, <1>4, <1>7 DEF HostOk
<1>9. PipeOk(p, o2, i2, "Data", ss, FALSE, sp, buf2, FALSE, h2)
  BY <1>4, <1>6, <1>7, <1>8, PipeBusy DEF over2
<1> QED BY <1>1, <1>9 DEF p

\* The host skips the rest of an IN data stage.
LEMMA PipeEarly ==
    ASSUME NEW q \in Seq(Events), NEW o, NEW i, NEW st, NEW ss \in BOOLEAN, NEW c \in BOOLEAN,
           NEW sp, NEW buf, NEW w, NEW h, NEW h2,
           PipeOk(q, o, i, st, ss, c, sp, buf, w, h), h.phase = "data", ExpectIn(h.packet.req),
           h2.packet = h.packet, h2.bus = h.bus, h2.phase = "status", "early" \in HostMay
    PROVE  PipeOk(q, o, i, st, ss, c, sp, buf, w, h2)
<1> DEFINE rest == AtRest(st, c)
           cur == Current(st, c, sp, buf)
           over == OverOk(cur, st, o, i, w)
<1>1. /\ ModeOk(o, i, st, ss, c, sp.req) /\ DoneOk(q, o, i)
      /\ QueueOk(q, rest, buf.req, sp.req, over, ss) /\ HostOk(q, rest, cur, st, o, over, h)
  BY DEF PipeOk
<1>2. over
  <2>1. cur.req = "GET"
    BY <1>1 DEF HostOk, ExpectIn
  <2> QED BY <2>1 DEF OverOk, Awaited, ExpectIn
<1> HIDE DEF rest, cur, over
<1>3. HostOk(q, rest, cur, st, o, over, h2)
  BY <1>1, <1>2 DEF HostOk
<1> QED BY <1>1, <1>3 DEF PipeOk, rest, cur, over

\* The status stage takes place.
LEMMA PipeHostStatus ==
    ASSUME NEW q \in Seq(Events), NEW o, NEW i, NEW st, NEW ss \in BOOLEAN, NEW c \in BOOLEAN,
           NEW sp, NEW buf, NEW w, NEW h, NEW h2,
           PipeOk(q, o, i, st, ss, c, sp, buf, w, h), h.phase = "status",
           h2.bus = h.bus, h2.phase = "idle",
           NEW e \in Events, ControlEvent(e), e.ep = StatusEp(h.packet.req), NEW o2, NEW i2,
           Executed(e.ep, "status", o, i, o2, i2)
    PROVE  /\ PipeOk(Append(q, e), o2, i2, st, ss, c, sp, buf, w, h2)
           /\ st = "Status" /\ ss /\ sp = h.packet
<1>1. \/ st = "Status" /\ ss /\ ~c
      \/ o = "status" /\ i = "quiet" /\ AtRest(st, c)
  BY DEF PipeOk, ModeOk, AtRest, Executed
<1>2. DoneOk(q, o, i) /\ (AtRest(st, c) => ~NoControlIn(q))
  BY DEF PipeOk, HostOk
<1>3. st = "Status" /\ ss = TRUE /\ c = FALSE
  BY <1>1, <1>2, DoneFacts
<1> DEFINE p == Append(q, e)
           over == OverOk(sp, "Status", o, i, w)
           over2 == OverOk(sp, "Status", o2, i2, w)
<1>4. /\ ModeOk(o, i, "Status", TRUE, FALSE, sp.req)
      /\ QueueOk(q, FALSE, buf.req, sp.req, over, TRUE) /\ HostOk(q, FALSE, sp, "Status", o, over, h)
  BY <1>3, PipeBusy
<1>5. NoControlIn(q) /\ h.packet = sp /\ BusOk(q, FALSE) /\ h.bus = "up" /\ over
  BY <1>4 DEF HostOk
<1>6. ModeOk(o2, i2, "Status", TRUE, FALSE, sp.req) /\ over2
  BY <1>4, <1>5, EpsFacts DEF Executed, ModeOk, OverOk, EP0_OUT, EP0_IN, StatusEp, ExpectIn, ThreeStage, Awaited
<1>7. over \in BOOLEAN /\ over2 \in BOOLEAN /\ FALSE \in BOOLEAN /\ TRUE \in BOOLEAN
  BY PipeBooleans
<1> HIDE DEF over, over2, p
<1>8. QueueOk(p, FALSE, buf.req, sp.req, over2, TRUE)
  BY <1>4, <1>5, <1>6, <1>7, QueueStage DEF p
<1>9. ~NoControlIn(p) /\ DoneOk(p, o2, i2)
  BY <1>5, CompletionKeeps DEF p, Executed
<1>10. HostOk(p, FALSE, sp, "Status", o2, over2, h2)
  BY <1>9 DEF HostOk, Ready
<1>11. PipeOk(p, o2, i2, "Status", TRUE, FALSE, sp, buf, w, h2)
  BY <1>6, <1>8, <1>9, <1>10, PipeBusy DEF over2
<1> QED BY <1>3, <1>5, <1>11 DEF p

-----------------------------------------------------------------------------
(* The control pipe in the state of the driver, the controller and the host. *)

OutStage == Stage(Endpoints[EP0_OUT])
InStage  == Stage(Endpoints[EP0_IN])

\* A SETUP packet is on its way to the client, or the client has not answered it.
Asks(q) == \E i \in 1 .. Len(q) : q[i].type = "Setup"
Waits   == client.owes # "none" \/ Asks(Messages)

\* The driver is in the loop of SET_CONFIG, or waits for a SETUP packet.
Looping == pc = "config"
Rest    == AtRest(ep0.State, Looping)

PipeInv ==
    PipeOk(EventBuffer, OutStage, InStage, ep0.State, ep0.StatusStarted, Looping,
           ep0.SetupPacket, ep0.Buffer, Waits, host)

\* While the client is to answer, nothing goes on on EP0.
Answerable ==
    /\ ep0.State = AfterSetup(ep0.SetupPacket) /\ ~ep0.StatusStarted
    /\ OutStage = "quiet" /\ InStage = "quiet" /\ ep0.SetupPacket.req # "SET_ADDRESS"
AsksLast(q, p) == \A i \in 1 .. Len(q) : q[i].type = "Setup" => i = Len(q) /\ q[i].packet = p
AskInv ==
    /\ Waits => Answerable
    /\ client.owes # "none" =>
          pc = "client" /\ ~Asks(Messages) /\ client.owes = ep0.SetupPacket.req
    /\ Asks(Messages) => pc \in {"client", "pop"}
    /\ AsksLast(Messages, ep0.SetupPacket)

Ep0On == Endpoints[EP0_OUT].Enabled /\ Endpoints[EP0_IN].Enabled

\* The controller runs, or it is stopped and nothing goes on.
UpAndRunning == Started /\ Ep0On /\ PipeInv /\ AskInv /\ Guards(EventBuffer, Rest, host.bus)
Off ==
    /\ OutStage = "quiet" /\ InStage = "quiet" /\ EventBuffer = <<>> /\ Messages = <<>>
    /\ pc \in {"client", "pop"} /\ client.owes = "none" /\ host.bus = "off" /\ host.phase = "idle"
ControlInv == IF RunStop THEN UpAndRunning ELSE Off

\* The class of client, host and controller the control pipe is proved for: the
\* client answers what it is told of and no more, the host keeps to the direction
\* it announced, and only commands that configure endpoints fail.
Wellbehaved ==
    /\ "wrongdir" \notin HostMay /\ "lazy" \notin ClientMay
    /\ "start" \notin CmdFails /\ "stall" \notin CmdFails

\* Fields of EP0 that matter here do not change.
Ep0Kept ==
    /\ ep0'.State = ep0.State /\ ep0'.StatusStarted = ep0.StatusStarted
    /\ ep0'.SetupPacket = ep0.SetupPacket /\ ep0'.Buffer = ep0.Buffer
StagesKept == OutStage' = OutStage /\ InStage' = InStage /\ (Ep0On => Ep0On')

\* Types of what the invariant is about.
LEMMA PipeTypes ==
    ASSUME IInv
    PROVE  /\ EventBuffer \in Seq(Events) /\ Messages \in Seq(MessageSet)
           /\ ep0 \in Ep0Fields /\ ep0.State \in Ep0States /\ ep0.StatusStarted \in BOOLEAN
           /\ Waits \in BOOLEAN /\ Looping \in BOOLEAN
           /\ host \in HostViews /\ client \in ClientViews
           /\ Endpoints \in EndpointTable
BY DEF IInv, TypeOK, Ep0Fields, Waits, Looping

\* Updates of EP0 fields that are of no concern here.
LEMMA Ep0FieldsKept ==
    ASSUME ep0 \in Ep0Fields,
           \/ UNCHANGED ep0
           \/ \E x : ep0' = [ep0 EXCEPT !.Bounced = x]
           \/ \E x, y : ep0' = [ep0 EXCEPT !.Bounced = x, !.BounceTarget = y]
    PROVE  Ep0Kept
BY DEF Ep0Kept, Ep0Fields

\* Entries of EP0 that are alike.
LEMMA StagesAlike ==
    ASSUME Like(Endpoints[EP0_OUT], Endpoints'[EP0_OUT]), Like(Endpoints[EP0_IN], Endpoints'[EP0_IN])
    PROVE  StagesKept
BY DEF Like, StagesKept, OutStage, InStage, Ep0On

\* A step of which EP0 knows nothing.
LEMMA SameStep ==
    ASSUME IInv, PipeInv, Ep0Kept, StagesKept, UNCHANGED <<EventBuffer, host>>,
           Looping' = Looping, Waits' \in BOOLEAN, Waits' => Waits
    PROVE  PipeInv'
<1>1. PipeOk(EventBuffer, OutStage, InStage, ep0.State, ep0.StatusStarted, Looping,
             ep0.SetupPacket, ep0.Buffer, Waits', host)
  BY PipeTypes, PipeSame DEF PipeInv
<1> QED BY <1>1 DEF PipeInv, Ep0Kept, StagesKept

\* The client's part, when nothing is asked of it,
LEMMA NothingAsked ==
    ASSUME client'.owes = "none", ~Asks(Messages')
    PROVE  ~Waits' /\ Waits' \in BOOLEAN /\ AskInv'
BY DEF Waits, AskInv, Asks, AsksLast

\* and when a call changes nothing it depends on.
LEMMA SameAsk ==
    ASSUME AskInv, Ep0Kept, StagesKept, UNCHANGED <<Messages, pc>>, client'.owes \in {client.owes, "none"}
    PROVE  AskInv' /\ (Waits' => Waits) /\ Waits' \in BOOLEAN
BY DEF Waits, AskInv, Answerable, Ep0Kept, StagesKept

\* What the handlers start from.
LEMMA AtEventFacts ==
    ASSUME IInv, AskInv, pc = "events"
    PROVE  /\ EventBuffer \in Seq(Events) /\ EventBuffer # <<>> /\ EventBuffer[1] \in Events
           /\ EventsLeft = Tail(EventBuffer) /\ EventEp = EventBuffer[1].ep
           /\ \A t : AtEvent(t) <=> EventBuffer[1].type = t
           /\ Messages = <<>> /\ client.owes = "none" /\ Waits = FALSE /\ Looping = FALSE
<1>1. EventBuffer \in Seq(Events) /\ EventBuffer # <<>> /\ Messages = <<>>
  BY DEF IInv, TypeOK, QueueInv
<1>2. Head(EventBuffer) = EventBuffer[1] /\ EventBuffer[1] \in Events
  BY <1>1
<1>3. client.owes = "none" /\ ~Asks(Messages)
  BY <1>1 DEF AskInv, Asks
<1> QED BY <1>1, <1>2, <1>3 DEF EventsLeft, EventEp, AtEvent, Waits, Looping

\* An event is taken, and the client told of nothing it has to answer.
LEMMA EventTakenAsk ==
    ASSUME IInv, AskInv, pc = "events", UNCHANGED client, NEW m \in MessageSet, m.type # "Setup",
           NextEvent(Messages) \/ NextEvent(PushMessage(Messages, m))
    PROVE  /\ AskInv' /\ Waits' = FALSE /\ Looping' = FALSE
           /\ EventBuffer' = Tail(EventBuffer)
<1>1. Messages = <<>> /\ client.owes = "none" /\ EventsLeft = Tail(EventBuffer)
  BY AtEventFacts
<1>2. Messages' = <<>> \/ Messages' = <<m>>
  BY <1>1 DEF NextEvent, PushMessage
<1>3. ~Asks(Messages')
  <2>1. CASE Messages' = <<>>
    BY <2>1 DEF Asks
  <2>2. CASE Messages' = <<m>>
    BY <2>2 DEF Asks
  <2> QED BY <1>2, <2>1, <2>2
<1>4. pc' # "config" /\ EventBuffer' = EventsLeft
  BY DEF NextEvent
<1>5. AskInv' /\ ~Waits'
  BY <1>1, <1>3, NothingAsked
<1> QED BY <1>1, <1>4, <1>5 DEF Looping, Waits

\* Messages that are no SETUP packet.
LEMMA NoSetupMessages ==
    /\ \A t \in BusMessages : BusMessage(t) \in MessageSet /\ BusMessage(t).type # "Setup"
    /\ \A s \in Speeds : SpeedMessage(s) \in MessageSet /\ SpeedMessage(s).type # "Setup"
    /\ \A E \in EndpointTable, n \in Eps, s \in Statuses :
          TransferResult(E, n, s) \in MessageSet /\ TransferResult(E, n, s).type # "Setup"
<1>1. /\ \A t \in BusMessages : BusMessage(t).type = t /\ t # "Setup"
      /\ \A s : SpeedMessage(s).type = "Speed" /\ \A E, n : TransferResult(E, n, s).type = "Result"
  BY DEF BusMessages, BusMessage, SpeedMessage, TransferResult, BlankMessage
<1> QED BY <1>1, MessageTypes

\* An event of which EP0 knows nothing is taken.
LEMMA SameEvent ==
    ASSUME IInv, PipeInv, AskInv, Ep0Kept, StagesKept, pc = "events", UNCHANGED <<host, client>>,
           NEW m \in MessageSet, m.type # "Setup",
           NextEvent(Messages) \/ NextEvent(PushMessage(Messages, m)),
           ~ControlEvent(EventBuffer[1]), EventBuffer[1].type # "connect"
    PROVE  PipeInv' /\ AskInv'
<1>1. AskInv' /\ Waits' = FALSE /\ Looping' = FALSE /\ EventBuffer' = Tail(EventBuffer)
  BY EventTakenAsk
<1>2. EventBuffer # <<>> /\ Waits = FALSE /\ Looping = FALSE
  BY AtEventFacts
<1>3. PipeOk(Tail(EventBuffer), OutStage, InStage, ep0.State, ep0.StatusStarted, Looping,
             ep0.SetupPacket, ep0.Buffer, Waits, host)
  BY <1>2, PipeTypes, PipeTail DEF PipeInv
<1> QED BY <1>1, <1>2, <1>3 DEF PipeInv, Ep0Kept, StagesKept

\* Entries of EP0 that are not touched at all.
EntriesSame == Endpoints'[EP0_OUT] = Endpoints[EP0_OUT] /\ Endpoints'[EP0_IN] = Endpoints[EP0_IN]

\* They say the same of the stages.
LEMMA EntriesKept ==
    ASSUME Endpoints'[EP0_OUT] = Endpoints[EP0_OUT], Endpoints'[EP0_IN] = Endpoints[EP0_IN]
    PROVE  StagesKept
BY DEF StagesKept, OutStage, InStage, Ep0On

\* An operation on a bulk endpoint touches none of them.
LEMMA BulkCallStages ==
    ASSUME IInv, NEW n \in Bulk,
           \/ \E b : Endpoints' = [EndTransfer(Endpoints, n) EXCEPT ![n].TransferBuffer = b]
           \/ \E type, id, ok : Endpoints' = Submitted(Endpoints, n, type, id, ok)
           \/ \E stall, ok : Endpoints' = SetHalt(Endpoints, n, stall, ok)
           \/ \E z : Endpoints' = [Endpoints EXCEPT ![n].ZeroLengthTermination = z]
           \/ \E ok : Endpoints' = Reconfigure(Endpoints, n, ok)
           \/ Endpoints' = Completed(Endpoints, n)
           \/ Endpoints' = PayloadMoved(Endpoints, n)
    PROVE  StagesKept /\ EntriesSame
<1>1. Endpoints \in EndpointTable
  BY PipeTypes
<1>2. ASSUME NEW m \in {EP0_OUT, EP0_IN} PROVE Endpoints'[m] = Endpoints[m]
  <2>1. /\ \A b : [EndTransfer(Endpoints, n) EXCEPT ![n].TransferBuffer = b][m] = Endpoints[m]
        /\ \A type, id, ok : Submitted(Endpoints, n, type, id, ok)[m] = Endpoints[m]
        /\ \A stall, ok : SetHalt(Endpoints, n, stall, ok)[m] = Endpoints[m]
        /\ \A z : [Endpoints EXCEPT ![n].ZeroLengthTermination = z][m] = Endpoints[m]
        /\ \A ok : Reconfigure(Endpoints, n, ok)[m] = Endpoints[m]
        /\ Completed(Endpoints, n)[m] = Endpoints[m]
        /\ PayloadMoved(Endpoints, n)[m] = Endpoints[m]
    BY <1>1, Ep0Untouched
  <2> QED BY <2>1
<1> QED BY <1>2, EntriesKept DEF EntriesSame

\* A client that is not lazy answers the request it was told of.
LEMMA PromptAnswer ==
    ASSUME IInv, AskInv, "lazy" \notin ClientMay, NEW n, Answers(n), pc = "client"
    PROVE  /\ Answerable /\ ep0.State = "Data" /\ n = DataEp(ep0.SetupPacket.req)
           /\ ThreeStage(ep0.SetupPacket.req) /\ Waits /\ ~Asks(Messages)
<1>1. ThreeStage(client.owes) /\ n = DataEp(client.owes)
  BY DEF Answers
<1>2. client.owes # "none"
  BY <1>1 DEF ThreeStage
<1>3. Waits /\ Answerable /\ client.owes = ep0.SetupPacket.req /\ ~Asks(Messages)
  BY <1>2 DEF Waits, AskInv
<1> QED BY <1>1, <1>3 DEF Answerable, AfterSetup

\* So no transfer on EP0 is refused.
LEMMA NeverRefused ==
    ASSUME IInv, AskInv, "lazy" \notin ClientMay, NEW n \in ControlEps
    PROVE  ~TransferEp0Refused(n)
<1>1. ASSUME Answers(n), pc = "client" PROVE Ep0Accepts(n)
  <2>1. ep0.State = "Data" /\ n = DataEp(ep0.SetupPacket.req)
    BY <1>1, PromptAnswer
  <2>2. (n = EP0_IN) <=> ep0.SetupPacket.req = "GET"
    BY <2>1 DEF DataEp, ExpectIn, EP0_IN, EP0_OUT
  <2> QED BY <2>1, <2>2 DEF Ep0Accepts, ExpectIn
<1> QED BY <1>1 DEF TransferEp0Refused

\* Calls of the client that leave EP0 as it is.
LEMMA CallStill ==
    ASSUME IInv, AskInv, "lazy" \notin ClientMay,
           \/ \E n \in Eps : AbortTransfer(n)
           \/ \E n \in Bulk, b \in BOOLEAN : SetEndpointStallState(n, b)
           \/ \E n \in Bulk, b \in BOOLEAN : SetEndpointPolicy(n, b)
           \/ \E n \in Bulk, aligned \in BOOLEAN : TransferBulk(n, aligned)
           \/ TransferEp0TooLong
    PROVE  /\ Ep0Kept /\ StagesKept
           /\ UNCHANGED <<EventBuffer, host, Messages, pc, client, Started, RunStop>>
<1>1. Endpoints \in EndpointTable /\ ep0 \in Ep0Fields
  BY PipeTypes
<1>2. ASSUME NEW n \in Eps, AbortTransfer(n)
      PROVE  /\ Ep0Kept /\ StagesKept
             /\ UNCHANGED <<EventBuffer, host, Messages, pc, client, Started, RunStop>>
  <2>1. n \in Bulk
    <3>1. n \notin ControlEps
      BY <1>2 DEF AbortTransfer
    <3> QED BY <3>1, EndpointAssumption DEF ControlEps, Eps, Bulk, EP0_OUT, EP0_IN
  <2>2. /\ Endpoints' = [EndTransfer(Endpoints, n) EXCEPT ![n].TransferBuffer = NULL]
        /\ UNCHANGED <<driver, ep0, Messages, EventBuffer, call, host, client>>
    BY <1>2 DEF AbortTransfer
  <2>3. StagesKept
    BY <2>1, <2>2, BulkCallStages
  <2> QED BY <1>1, <2>2, <2>3, Ep0FieldsKept DEF driver, call
<1>3. ASSUME NEW n \in Bulk, NEW b \in BOOLEAN, SetEndpointStallState(n, b)
      PROVE  /\ Ep0Kept /\ StagesKept
             /\ UNCHANGED <<EventBuffer, host, Messages, pc, client, Started, RunStop>>
  <2>1. /\ \E ok : Endpoints' = SetHalt(Endpoints, n, b, ok)
        /\ UNCHANGED <<driver, ep0, Messages, EventBuffer, call, host, client>>
    BY <1>3 DEF SetEndpointStallState
  <2>2. StagesKept
    BY <2>1, BulkCallStages
  <2> QED BY <1>1, <2>1, <2>2, Ep0FieldsKept DEF driver, call
<1>4. ASSUME NEW n \in Bulk, NEW b \in BOOLEAN, SetEndpointPolicy(n, b)
      PROVE  /\ Ep0Kept /\ StagesKept
             /\ UNCHANGED <<EventBuffer, host, Messages, pc, client, Started, RunStop>>
  <2>1. /\ Endpoints' = [Endpoints EXCEPT ![n].ZeroLengthTermination = b]
        /\ UNCHANGED <<driver, ep0, Messages, EventBuffer, call, host, client>>
    BY <1>4 DEF SetEndpointPolicy
  <2>2. StagesKept
    BY <2>1, BulkCallStages
  <2> QED BY <1>1, <2>1, <2>2, Ep0FieldsKept DEF driver, call
<1>5. ASSUME NEW n \in Bulk, NEW aligned \in BOOLEAN, TransferBulk(n, aligned)
      PROVE  /\ Ep0Kept /\ StagesKept
             /\ UNCHANGED <<EventBuffer, host, Messages, pc, client, Started, RunStop>>
  <2>1. PICK ok : Submit(Endpoints, n, NormalTrb(Endpoints[n], n, aligned), ok, FALSE)
    BY <1>5 DEF TransferBulk
  <2>2. \E type, id : Endpoints' = Submitted(Endpoints, n, type, id, ok)
    BY <2>1 DEF Submit, Submitted
  <2>3. StagesKept
    BY <2>2, BulkCallStages
  <2>4. \E x, y : ep0' = [ep0 EXCEPT !.Bounced = x, !.BounceTarget = y]
    BY <2>1 DEF Submit
  <2>5. UNCHANGED <<driver, Messages, EventBuffer, call, host, client>>
    BY <1>5 DEF TransferBulk
  <2> QED BY <1>1, <2>3, <2>4, <2>5, Ep0FieldsKept DEF driver, call
<1>6. CASE TransferEp0TooLong
  <2>1. /\ pc = "client" /\ Answers(EP0_OUT) /\ Endpoints' = EndTransfer(Endpoints, EP0_OUT)
        /\ ep0' = [ep0 EXCEPT !.Bounced = FALSE]
        /\ UNCHANGED <<driver, Messages, EventBuffer, call, host, client>>
    BY <1>6 DEF TransferEp0TooLong
  <2>2. Stage(Endpoints[EP0_OUT]) = "quiet"
    BY <2>1, PromptAnswer DEF Answerable, OutStage
  <2>3. /\ Stage(EndTransfer(Endpoints, EP0_OUT)[EP0_OUT]) = "quiet"
        /\ EndTransfer(Endpoints, EP0_OUT)[EP0_OUT].Enabled <=> Endpoints[EP0_OUT].Enabled
        /\ Like(Endpoints[Ep0Other(EP0_OUT)], EndTransfer(Endpoints, EP0_OUT)[Ep0Other(EP0_OUT)])
    BY <1>1, <2>2, Ep0EndTransfer
  <2>4. Ep0Other(EP0_OUT) = EP0_IN
    BY DEF Ep0Other
  <2>5. StagesKept
    BY <2>1, <2>2, <2>3, <2>4, StagesAlike DEF Like
  <2>6. \E x : ep0' = [ep0 EXCEPT !.Bounced = x]
    BY <2>1
  <2> QED BY <1>1, <2>1, <2>5, <2>6, Ep0FieldsKept DEF driver, call
<1> QED BY <1>2, <1>3, <1>4, <1>5, <1>6

\* The EventHandler call begins: the client has answered by now.
LEMMA HandlerPipe ==
    ASSUME IInv, PipeInv, AskInv, EventHandler, "lazy" \notin ClientMay
    PROVE  /\ PipeInv' /\ AskInv' /\ Ep0Kept /\ StagesKept
           /\ UNCHANGED <<EventBuffer, host, Messages, Started, RunStop>>
<1>1. /\ pc = "client" /\ pc' \in {"pop", "events"} /\ (Messages # <<>> => pc' = "pop")
      /\ client' = [client EXCEPT !.owes = "none"]
      /\ UNCHANGED <<driver, Endpoints, ep0, Messages, EventBuffer, host>>
  BY DEF EventHandler, EventsToTake
<1>2. Ep0Kept /\ StagesKept
  BY <1>1, PipeTypes, Ep0FieldsKept, EntriesKept
<1>3. client'.owes = "none"
  BY <1>1, PipeTypes DEF ClientViews
<1>4. Waits' \in BOOLEAN /\ (Waits' => Waits) /\ Looping' = Looping
  BY <1>1, <1>3 DEF Waits, Looping
<1>5. Asks(Messages) => Messages # <<>>
  BY DEF Asks
<1>6. AskInv'
  BY <1>1, <1>2, <1>3, <1>4, <1>5 DEF AskInv, Answerable, Ep0Kept, StagesKept
<1>7. PipeInv'
  BY <1>1, <1>2, <1>4, SameStep
<1> QED BY <1>1, <1>2, <1>6, <1>7 DEF driver

\* The client reads a message.
LEMMA PopPipe ==
    ASSUME IInv, PipeInv, AskInv, PopMessage
    PROVE  /\ PipeInv' /\ AskInv' /\ Ep0Kept /\ StagesKept
           /\ UNCHANGED <<EventBuffer, host, Started, RunStop>>
<1>1. /\ pc = "pop" /\ pc' = "client"
      /\ UNCHANGED <<driver, Endpoints, ep0, EventBuffer, host>>
      /\ IF Messages = <<>> THEN UNCHANGED <<Messages, client>>
         ELSE Messages' = Tail(Messages) /\ client' = Learn(client, Head(Messages))
  BY DEF PopMessage
<1>2. Ep0Kept /\ StagesKept
  BY <1>1, PipeTypes, Ep0FieldsKept, EntriesKept
<1>3. client.owes = "none"
  BY <1>1 DEF AskInv
<1>4. Looping' = Looping
  BY <1>1 DEF Looping
<1>5. AskInv' /\ Waits' \in BOOLEAN /\ (Waits' => Waits)
  <2>1. CASE Messages = <<>>
    <3>1. ~Asks(Messages') /\ client'.owes = "none"
      BY <1>1, <1>3, <2>1 DEF Asks
    <3>2. AskInv' /\ ~Waits' /\ Waits' \in BOOLEAN
      BY <3>1, NothingAsked
    <3> QED BY <3>2
  <2>2. CASE Messages # <<>>
    <3> DEFINE m == Messages[1]
    <3>1. /\ Messages' = Tail(Messages) /\ client' = Learn(client, m) /\ m \in MessageSet
          /\ Messages \in Seq(MessageSet) /\ Len(Messages) \in Nat \ {0}
      BY <1>1, <2>2, PipeTypes
    <3>2. Len(Messages') = Len(Messages) - 1 /\ \A i \in 1 .. Len(Messages') : Messages'[i] = Messages[i + 1]
      BY <2>2, <3>1
    <3>3. CASE m.type = "Setup"
      <4>1. Asks(Messages) /\ Len(Messages) = 1 /\ m.packet = ep0.SetupPacket
        <5>1. 1 \in 1 .. Len(Messages)
          BY <3>1
        <5>2. AsksLast(Messages, ep0.SetupPacket)
          BY DEF AskInv
        <5>3. 1 = Len(Messages) /\ m.packet = ep0.SetupPacket
          BY <3>3, <5>1, <5>2 DEF AsksLast
        <5> QED BY <3>3, <5>1, <5>3 DEF Asks
      <4>2. ~Asks(Messages')
        BY <3>2, <4>1 DEF Asks
      <4>3. Waits /\ Answerable
        BY <4>1 DEF Waits, AskInv
      <4>4. client' = [client EXCEPT !.owes = m.packet.req, !.last = m.packet.serial,
                                     !.configured = client.configured \/ m.packet.req = "SET_CONFIG"]
        BY <3>1, <3>3 DEF Learn
      <4>5. client'.owes = m.packet.req
        BY <4>4, PipeTypes DEF ClientViews
      <4> HIDE DEF m
      <4>6. Answerable'
        BY <1>2, <4>3 DEF Answerable, Ep0Kept, StagesKept
      <4>7. AsksLast(Messages', ep0'.SetupPacket)
        BY <4>2 DEF Asks, AsksLast
      <4> QED BY <1>1, <1>2, <4>1, <4>2, <4>3, <4>5, <4>6, <4>7 DEF AskInv, Waits, Ep0Kept
    <3>4. CASE m.type # "Setup"
      <4>1. client'.owes = client.owes
        BY <3>1, <3>4, PipeTypes DEF Learn, ClientViews
      <4>2. \A i \in 1 .. Len(Messages') : i + 1 \in 1 .. Len(Messages) /\ i \in Nat
        BY <3>1, <3>2
      <4>3. Asks(Messages') => Asks(Messages)
        BY <3>2, <4>2 DEF Asks
      <4>4. ASSUME NEW i \in 1 .. Len(Messages'), Messages'[i].type = "Setup"
            PROVE  i = Len(Messages') /\ Messages'[i].packet = ep0.SetupPacket
        <5>1. i + 1 = Len(Messages) /\ Messages[i + 1].packet = ep0.SetupPacket
          <6>1. AsksLast(Messages, ep0.SetupPacket) /\ i + 1 \in 1 .. Len(Messages)
            BY <4>2 DEF AskInv
          <6>2. Messages[i + 1].type = "Setup"
            BY <3>2, <4>4
          <6> QED BY <6>1, <6>2 DEF AsksLast
        <5>2. Len(Messages') = Len(Messages) - 1 /\ Messages'[i] = Messages[i + 1] /\ i \in Nat
          BY <3>2, <4>2, <4>4
        <5> QED BY <5>1, <5>2
      <4> HIDE DEF m
      <4>5. AsksLast(Messages', ep0'.SetupPacket)
        BY <1>2, <4>4 DEF AsksLast, Ep0Kept
      <4>6. Waits' => Waits
        BY <1>3, <4>1, <4>3 DEF Waits
      <4>7. Waits' => Answerable'
        BY <1>2, <4>6 DEF AskInv, Answerable, Ep0Kept, StagesKept
      <4> QED BY <1>1, <1>3, <4>1, <4>5, <4>6, <4>7 DEF AskInv, Waits
    <3> QED BY <3>3, <3>4
  <2> QED BY <2>1, <2>2
<1>6. PipeInv'
  BY <1>1, <1>2, <1>4, <1>5, SameStep
<1> QED BY <1>1, <1>2, <1>5, <1>6 DEF driver

\* One endpoint of the loop of SET_CONFIG.
LEMMA LoopPipe ==
    ASSUME IInv, PipeInv, AskInv, ResetNonControlEndpoint
    PROVE  /\ PipeInv' /\ AskInv' /\ Ep0Kept /\ StagesKept
           /\ UNCHANGED <<EventBuffer, host, Started, RunStop>>
<1> DEFINE m == TransferResult(Endpoints, Index, "Aborted")
<1>1. /\ pc = "config" /\ pc' = "config" /\ \E ok : Endpoints' = Reconfigure(Endpoints, Index, ok)
      /\ Messages' = Messages \/ Messages' = PushMessage(Messages, m)
      /\ UNCHANGED <<driver, ep0, EventBuffer, host, client>> /\ Index < NumPhysicalEps
  BY DEF ResetNonControlEndpoint
<1>2. Index \in Bulk
  <2>1. Index >= 2 /\ Index \in 0 .. NumPhysicalEps
    BY <1>1 DEF IInv, TypeOK, QueueInv
  <2> QED BY <1>1, <2>1, EndpointAssumption DEF Bulk
<1>3. Ep0Kept /\ StagesKept
  BY <1>1, <1>2, PipeTypes, Ep0FieldsKept, BulkCallStages
<1>4. client.owes = "none" /\ ~Asks(Messages) /\ ~Waits
  BY <1>1 DEF AskInv, Waits
<1>5. m \in MessageSet /\ m.type # "Setup" /\ Messages \in Seq(MessageSet)
  BY <1>2, PipeTypes, NoSetupMessages, BulkFacts DEF Statuses
<1> HIDE DEF m
<1>6. ~Asks(Messages')
  <2>1. CASE Messages' = Messages
    BY <1>4, <2>1
  <2>2. CASE Messages' = PushMessage(Messages, m) /\ Messages' # Messages
    <3>1. Messages' = Append(Messages, m)
      BY <2>2 DEF PushMessage
    <3>2. Len(Messages') = Len(Messages) + 1 /\ Len(Messages) \in Nat /\ Messages'[Len(Messages) + 1] = m
          /\ \A i \in 1 .. Len(Messages) : Messages'[i] = Messages[i]
      BY <1>5, <3>1
    <3>3. \A i \in 1 .. Len(Messages') : i \in 1 .. Len(Messages) \/ i = Len(Messages) + 1
      BY <3>2
    <3> QED BY <1>4, <1>5, <3>2, <3>3 DEF Asks
  <2> QED BY <1>1, <2>1, <2>2
<1>7. client'.owes = "none"
  BY <1>1, <1>4
<1>8. AskInv' /\ ~Waits' /\ Waits' \in BOOLEAN
  BY <1>6, <1>7, NothingAsked
<1>9. Looping' = Looping /\ Waits' \in BOOLEAN /\ (Waits' => Waits)
  BY <1>1, <1>8 DEF Looping
<1>10. PipeInv'
  BY <1>1, <1>3, <1>9, SameStep
<1> QED BY <1>1, <1>3, <1>8, <1>10 DEF driver

\* The loop ends, and the client is told of the request.
LEMMA ConfigPipe ==
    ASSUME IInv, PipeInv, AskInv, ConfigDone
    PROVE  /\ PipeInv' /\ AskInv' /\ StagesKept
           /\ UNCHANGED <<EventBuffer, host, Started, RunStop>>
<1> DEFINE m == SetupMessage(ep0.SetupPacket)
<1>1. /\ pc = "config" /\ pc' = "pop" /\ Index = NumPhysicalEps
      /\ ep0' = [ep0 EXCEPT !.State = AfterSetup(ep0.SetupPacket)]
      /\ Messages' = PushMessage(Messages, m)
      /\ UNCHANGED <<driver, Endpoints, EventBuffer, host, client>>
  BY DEF ConfigDone, AfterConfig
<1>2. /\ ep0'.State = AfterSetup(ep0.SetupPacket) /\ ep0'.StatusStarted = ep0.StatusStarted
      /\ ep0'.SetupPacket = ep0.SetupPacket /\ ep0'.Buffer = ep0.Buffer
  BY <1>1, PipeTypes DEF Ep0Fields
<1>3. StagesKept
  BY <1>1, EntriesKept
<1>4. client.owes = "none" /\ ~Asks(Messages)
  BY <1>1 DEF AskInv
<1>5. Looping = TRUE /\ Looping' = FALSE
  BY <1>1 DEF Looping
<1>6. /\ ep0.StatusStarted = FALSE /\ OutStage = "quiet" /\ InStage = "quiet"
      /\ ep0.SetupPacket.req = "SET_CONFIG"
  BY <1>5 DEF PipeInv, PipeOk, ModeOk
<1>7. ep0'.State = "Status"
  BY <1>2, <1>6 DEF AfterSetup, ThreeStage
<1>8. /\ Messages' = Append(Messages, m) /\ Messages \in Seq(MessageSet) /\ m.type = "Setup"
      /\ m.packet = ep0.SetupPacket /\ m \in MessageSet
  <2>1. Len(Messages) \in Nat /\ Len(Messages) <= NumPhysicalEps - 2 /\ Messages \in Seq(MessageSet)
    BY <1>1, PipeTypes, EndpointAssumption DEF IInv, QueueInv
  <2>2. Len(Messages) # MessageDepth - 1
    BY <2>1, EndpointAssumption, DriverAssumption
  <2>3. m.type = "Setup" /\ m.packet = ep0.SetupPacket
    BY DEF SetupMessage, BlankMessage
  <2>4. m \in MessageSet
    BY PipeTypes, MessageTypes DEF Ep0Fields
  <2> HIDE DEF m
  <2> QED BY <1>1, <2>1, <2>2, <2>3, <2>4 DEF PushMessage
<1> HIDE DEF m
<1>9. /\ Len(Messages') = Len(Messages) + 1 /\ Len(Messages) \in Nat /\ Messages'[Len(Messages) + 1] = m
      /\ \A i \in 1 .. Len(Messages) : Messages'[i] = Messages[i]
  BY <1>8
<1>10. /\ \A i \in 1 .. Len(Messages') : i \in 1 .. Len(Messages) \/ i = Len(Messages')
       /\ Len(Messages) + 1 \in 1 .. Len(Messages')
  BY <1>9
<1>11. Asks(Messages') /\ AsksLast(Messages', ep0.SetupPacket)
  BY <1>4, <1>8, <1>9, <1>10 DEF Asks, AsksLast
<1>12. Waits' \in BOOLEAN
  BY DEF Waits
<1>13. Answerable'
  BY <1>2, <1>3, <1>6 DEF Answerable, StagesKept
<1>14. AskInv'
  BY <1>1, <1>2, <1>4, <1>11, <1>13 DEF AskInv
<1>15. PipeOk(EventBuffer, OutStage, InStage, "Status", ep0.StatusStarted, Looping',
              ep0.SetupPacket, ep0.Buffer, Waits', host)
  <2> DEFINE sp == ep0.SetupPacket
             bufr == ep0.Buffer.req
             ss == ep0.StatusStarted
             over == OverOk(sp, ep0.State, OutStage, InStage, Waits)
             over2 == OverOk(sp, "Status", OutStage, InStage, Waits')
  <2>1. over = TRUE /\ over2 = TRUE
    BY <1>6 DEF OverOk, Awaited, ExpectIn
  <2>2. DoneOk(EventBuffer, OutStage, InStage) /\ QueueOk(EventBuffer, FALSE, bufr, sp.req, over, ss)
        /\ HostOk(EventBuffer, FALSE, sp, ep0.State, OutStage, over, host)
    <3>1. Looping \in BOOLEAN /\ Looping
      BY <1>5
    <3> QED BY <3>1, PipeBusy DEF PipeInv
  <2>3. ModeOk(OutStage, InStage, "Status", ss, Looping', sp.req)
    BY <1>5, <1>6 DEF ModeOk, ThreeStage
  <2>4. NoControlIn(EventBuffer)
    BY <1>6, <2>2, PipeTypes, DoneFacts
  <2> HIDE DEF over, over2, sp, ss, bufr
  <2>5. HostOk(EventBuffer, FALSE, sp, "Status", OutStage, over2, host)
    <3>1. ThreeStage(sp.req) = FALSE /\ OutStage = "quiet"
      BY <1>6 DEF ThreeStage, sp
    <3> QED BY <2>1, <2>2, <2>4, <3>1 DEF HostOk, Ready
  <2>6. QueueOk(EventBuffer, FALSE, bufr, sp.req, over2, ss)
    BY <2>1, <2>2
  <2>7. Looping' \in BOOLEAN /\ "Status" # "Setup"
    BY <1>5
  <2> QED BY <2>2, <2>3, <2>5, <2>6, <2>7, PipeBusy DEF over2, sp, ss, bufr
<1>16. PipeInv'
  BY <1>1, <1>2, <1>3, <1>7, <1>15 DEF PipeInv, StagesKept
<1> QED BY <1>1, <1>3, <1>14, <1>16 DEF driver

\* Dwc3Ep0OutStart, when STARTTRANSFER does not fail.
LEMMA Ep0OutStartStages ==
    ASSUME IInv, NEW E \in EndpointTable, Stage(E[EP0_OUT]) # "lost", Stage(E[EP0_IN]) # "lost",
           "start" \notin CmdFails, Ep0OutStart(E),
           Ep0On => E[EP0_OUT].Enabled /\ E[EP0_IN].Enabled
    PROVE  /\ OutStage' = "setup" /\ InStage' = "quiet" /\ (Ep0On => Ep0On')
           /\ ep0'.State = "Setup" /\ ep0'.StatusStarted = FALSE
           /\ ep0'.SetupPacket = ep0.SetupPacket /\ ep0'.Buffer = ep0.Buffer
<1>1. /\ Stage(Ep0Ended(E)[EP0_OUT]) = "quiet"
      /\ Stage(Ep0Armed(E, TRUE)[EP0_OUT]) = "setup"
      /\ Stage(Ep0Armed(E, TRUE)[EP0_IN]) = "quiet"
      /\ Ep0Armed(E, TRUE)[EP0_OUT].Enabled <=> E[EP0_OUT].Enabled
      /\ Ep0Armed(E, TRUE)[EP0_IN].Enabled <=> E[EP0_IN].Enabled
  BY Ep0ArmedStages
<1>2. StartResults(Ep0Ended(E), EP0_OUT) = {TRUE}
  BY <1>1, Ep0Starts
<1>3. Endpoints' = Ep0Armed(E, TRUE)
  BY <1>2 DEF Ep0OutStart
<1>4. ep0' = [ep0 EXCEPT !.State = "Setup", !.StatusStarted = FALSE, !.Bounced = FALSE]
  BY DEF Ep0OutStart
<1>5. /\ ep0'.State = "Setup" /\ ep0'.StatusStarted = FALSE
      /\ ep0'.SetupPacket = ep0.SetupPacket /\ ep0'.Buffer = ep0.Buffer
  BY <1>4, PipeTypes DEF Ep0Fields
<1> QED BY <1>1, <1>3, <1>5 DEF OutStage, InStage, Ep0On

\* The client rejects the request it was told of: EP0 is armed.
LEMMA StallPipe ==
    ASSUME IInv, PipeInv, AskInv, Wellbehaved, StallEp0
    PROVE  /\ PipeInv' /\ AskInv' /\ (Ep0On => Ep0On') /\ ep0'.State = "Setup"
           /\ UNCHANGED <<EventBuffer, Started, RunStop>> /\ host' = IdleHost(host)
<1> DEFINE F == Ep0Unstalled(Endpoints)
<1>1. /\ pc = "client" /\ client.owes # "none" /\ StallAndRestart(Endpoints)
      /\ client' = [client EXCEPT !.owes = "none",
                       !.configured = IF client.owes = "SET_CONFIG" THEN FALSE ELSE client.configured]
      /\ UNCHANGED <<driver, Messages, EventBuffer, call>>
  BY DEF StallEp0, Wellbehaved
<1>2. Waits = TRUE /\ Answerable /\ ~Asks(Messages) /\ Looping = FALSE /\ Looping' = FALSE
  BY <1>1 DEF Waits, AskInv, Looping, call
<1>3. /\ host' = IdleHost(host) /\ host'.phase = "idle" /\ host'.bus = host.bus
  <2>1. CmdResults("stall") = {TRUE}
    BY DEF CmdResults, Wellbehaved
  <2> QED BY <1>1, <2>1, PipeTypes DEF StallAndRestart, IdleHost, HostViews
<1>4. /\ F \in EndpointTable
      /\ Like(Endpoints[EP0_OUT], F[EP0_OUT]) /\ Like(Endpoints[EP0_IN], F[EP0_IN])
  <2>1. F \in EndpointTable /\ Endpoints \in EndpointTable
    BY PipeTypes, Ep0UnstalledType
  <2>2. /\ EP0_OUT \in Eps /\ EP0_IN \in Eps /\ EP0_OUT # EP0_IN
        /\ Endpoints[EP0_OUT] \in Endpoint /\ Endpoints[EP0_IN] \in Endpoint
    BY <2>1, EpsFacts DEF EndpointTable, EP0_OUT, EP0_IN
  <2>3. /\ F[EP0_OUT] = [Endpoints[EP0_OUT] EXCEPT !.Stalled = FALSE]
        /\ F[EP0_IN] = [Endpoints[EP0_IN] EXCEPT !.Stalled = FALSE]
    BY <2>1, <2>2 DEF Ep0Unstalled, EndpointTable
  <2>4. /\ Like(Endpoints[EP0_OUT], [Endpoints[EP0_OUT] EXCEPT !.Stalled = FALSE])
        /\ Like(Endpoints[EP0_IN], [Endpoints[EP0_IN] EXCEPT !.Stalled = FALSE])
    BY <2>2, LikeFields
  <2> QED BY <2>1, <2>3, <2>4
<1>5. Ep0OutStart(F)
  BY <1>1 DEF StallAndRestart
<1> HIDE DEF F
<1>6. Stage(F[EP0_OUT]) # "lost" /\ Stage(F[EP0_IN]) # "lost"
  BY <1>2, <1>4 DEF Answerable, OutStage, InStage, Like
<1>7. /\ OutStage' = "setup" /\ InStage' = "quiet" /\ (Ep0On => Ep0On')
      /\ ep0'.State = "Setup" /\ ep0'.StatusStarted = FALSE
      /\ ep0'.SetupPacket = ep0.SetupPacket /\ ep0'.Buffer = ep0.Buffer
  BY <1>4, <1>5, <1>6, Ep0OutStartStages DEF Like, Ep0On, Wellbehaved
<1>8. client'.owes = "none" /\ ~Asks(Messages')
  BY <1>1, <1>2, PipeTypes DEF ClientViews
<1>9. AskInv' /\ Waits' = FALSE
  BY <1>8, NothingAsked DEF Waits
<1>10. PipeOk(EventBuffer, "quiet", "quiet", ep0.State, ep0.StatusStarted, FALSE,
              ep0.SetupPacket, ep0.Buffer, Waits, host)
  BY <1>2 DEF PipeInv, Answerable
<1>11. ep0.State # "Setup"
  BY <1>2 DEF Answerable, AfterSetup
<1>12. PipeOk(EventBuffer, "setup", "quiet", "Setup", FALSE, FALSE,
              ep0.SetupPacket, ep0.Buffer, FALSE, host')
  BY <1>3, <1>10, <1>11, PipeTypes, PipeStall
<1>13. PipeInv'
  BY <1>1, <1>2, <1>7, <1>9, <1>12 DEF PipeInv
<1> QED BY <1>1, <1>3, <1>7, <1>9, <1>13 DEF driver

\* The client submits the data stage of the request it was told of.
LEMMA TransferPipe ==
    ASSUME IInv, PipeInv, AskInv, Wellbehaved, NEW n \in ControlEps, TransferEp0(n)
    PROVE  /\ PipeInv' /\ AskInv' /\ (Ep0On => Ep0On') /\ ep0'.State = ep0.State
           /\ UNCHANGED <<EventBuffer, host, pc, Started, RunStop>>
           /\ IF n = EP0_OUT THEN OutStage' = "data" /\ InStage' = "quiet"
                             ELSE OutStage' = "quiet" /\ InStage' = "data"
           /\ Submit(EndTransfer(Endpoints, n), n, "data", TRUE, n = EP0_OUT)
<1> DEFINE F == EndTransfer(Endpoints, n)
           b == xfers.next
           G == StartTransfer(F, n, "data", b, TRUE)
<1>1. /\ pc = "client" /\ Answers(n) /\ b <= MaxXfers
      /\ UNCHANGED <<driver, Messages, EventBuffer, call, host>>
  BY DEF TransferEp0
<1>2. /\ Answerable /\ ep0.State = "Data" /\ n = DataEp(ep0.SetupPacket.req)
      /\ Waits = TRUE /\ ~Asks(Messages)
  BY <1>1, PromptAnswer, PipeTypes DEF Wellbehaved
<1>3. n \in {EP0_OUT, EP0_IN} /\ Endpoints \in EndpointTable /\ Stage(Endpoints[n]) = "quiet"
      /\ Stage(Endpoints[Ep0Other(n)]) = "quiet"
  BY <1>2, PipeTypes DEF ControlEps, Answerable, OutStage, InStage, Ep0Other
<1>4. /\ F \in EndpointTable /\ Stage(F[n]) = "quiet" /\ (F[n].Enabled <=> Endpoints[n].Enabled)
      /\ Like(Endpoints[Ep0Other(n)], F[Ep0Other(n)])
  BY <1>3, Ep0EndTransfer
<1>5. b \in Buffers
  <2>1. b \in 1 .. (MaxXfers + 1) /\ MaxXfers \in Nat
    BY EndpointAssumption DEF IInv, TypeOK, Histories
  <2> QED BY <1>1, <2>1 DEF Buffers
<1> HIDE DEF F, b
<1>6. StartResults(F, n) = {TRUE}
  BY <1>4, Ep0Starts DEF Wellbehaved
<1>7. Submit(F, n, "data", TRUE, n = EP0_OUT) /\ client' = [client EXCEPT !.owes = "none"]
  BY <1>6 DEF TransferEp0, F
<1>8. /\ G \in EndpointTable /\ Stage(G[n]) = "data" /\ (G[n].Enabled <=> F[n].Enabled)
      /\ Like(F[Ep0Other(n)], G[Ep0Other(n)])
  BY <1>3, <1>4, <1>5, Ep0StartTransfer
<1>9. Endpoints' = [G EXCEPT ![n].TransferBuffer = b]
  BY <1>7 DEF Submit, b
<1> HIDE DEF G
<1>10. /\ Endpoints'[n] = [G[n] EXCEPT !.TransferBuffer = b]
       /\ Endpoints'[Ep0Other(n)] = G[Ep0Other(n)]
  BY <1>3, <1>8, <1>9, Ep0Pair DEF EndpointTable
<1>11. Like(G[n], Endpoints'[n])
  <2>1. G[n] \in Endpoint
    BY <1>3, <1>8, Ep0Pair DEF EndpointTable
  <2> QED BY <1>10, <2>1, LikeFields
<1>12. /\ Stage(Endpoints'[n]) = "data" /\ (Endpoints'[n].Enabled <=> Endpoints[n].Enabled)
       /\ Like(Endpoints[Ep0Other(n)], Endpoints'[Ep0Other(n)])
  BY <1>4, <1>8, <1>10, <1>11 DEF Like
<1>13. /\ IF ExpectIn(ep0.SetupPacket.req) THEN OutStage' = "quiet" /\ InStage' = "data"
                                           ELSE OutStage' = "data" /\ InStage' = "quiet"
       /\ Ep0On => Ep0On'
  BY <1>2, <1>3, <1>12, Ep0Pair DEF DataEp, OutStage, InStage, Like, Ep0Other, Ep0On
<1>14. Ep0Kept
  <2>1. \E x, y : ep0' = [ep0 EXCEPT !.Bounced = x, !.BounceTarget = y]
    BY <1>7 DEF Submit
  <2> QED BY <2>1, PipeTypes, Ep0FieldsKept
<1>15. client'.owes = "none" /\ ~Asks(Messages')
  BY <1>1, <1>2, <1>7, PipeTypes DEF ClientViews
<1>16. AskInv' /\ Waits' = FALSE /\ Looping = FALSE /\ Looping' = FALSE
  BY <1>1, <1>15, NothingAsked DEF Looping, call, Waits
<1>17. PipeOk(EventBuffer, "quiet", "quiet", "Data", ep0.StatusStarted, FALSE,
              ep0.SetupPacket, ep0.Buffer, TRUE, host)
  BY <1>2, <1>16 DEF PipeInv, Answerable
<1>18. PipeOk(EventBuffer, OutStage', InStage', "Data", ep0.StatusStarted, FALSE,
              ep0.SetupPacket, ep0.Buffer, FALSE, host)
  BY <1>13, <1>17, PipeTypes, PipeDataStarted
<1>19. PipeInv'
  BY <1>1, <1>2, <1>14, <1>16, <1>18 DEF PipeInv, Ep0Kept
<1>20. IF n = EP0_OUT THEN OutStage' = "data" /\ InStage' = "quiet"
                      ELSE OutStage' = "quiet" /\ InStage' = "data"
  BY <1>2, <1>13 DEF DataEp, EP0_OUT, EP0_IN
<1> QED BY <1>1, <1>7, <1>13, <1>14, <1>16, <1>19, <1>20 DEF driver, call, Ep0Kept, F

\* What the handlers of completions on EP0 start from.
LEMMA CompleteFacts ==
    ASSUME IInv, AskInv, NEW st, Ep0Complete(st)
    PROVE  /\ pc = "events" /\ ep0.State = st /\ EventBuffer \in Seq(Events) /\ EventBuffer # <<>>
           /\ EventsLeft = Tail(EventBuffer) /\ EventEp = EventBuffer[1].ep
           /\ ControlEvent(EventBuffer[1]) /\ EventEp \in {EP0_OUT, EP0_IN}
           /\ Messages = <<>> /\ client.owes = "none" /\ Waits = FALSE /\ Looping = FALSE
<1>1. pc = "events" /\ AtEvent("complete") /\ EventEp \in ControlEps /\ ep0.State = st
  BY DEF Ep0Complete, AtEvent
<1> QED BY <1>1, AtEventFacts DEF ControlEvent, ControlEps

\* A SETUP packet is taken: nothing goes on on EP0 any more.
LEMMA SetupTaken ==
    ASSUME IInv, PipeInv, AskInv, Ep0Complete("Setup"), Endpoints' = Ep0Taken,
           NEW st, NEW c \in BOOLEAN, NEW w \in BOOLEAN,
           IF c THEN st = "Setup" /\ ep0.Buffer.req = "SET_CONFIG" ELSE st = AfterSetup(ep0.Buffer)
    PROVE  /\ OutStage' = "quiet" /\ InStage' = "quiet" /\ (Ep0On => Ep0On') /\ ep0.StatusStarted = FALSE
           /\ PipeOk(EventsLeft, "quiet", "quiet", st, FALSE, c, ep0.Buffer, ep0.Buffer, w, host)
<1> DEFINE q == EventBuffer
           F == [Endpoints EXCEPT ![EP0_OUT].TransferStarted = FALSE]
<1>1. /\ q \in Seq(Events) /\ q # <<>> /\ EventsLeft = Tail(q) /\ EventEp = q[1].ep
      /\ ControlEvent(q[1]) /\ ep0.State = "Setup" /\ Waits = FALSE /\ Looping = FALSE
  BY CompleteFacts
<1>2. /\ ep0.StatusStarted = FALSE
      /\ PipeOk(q, OutStage, InStage, "Setup", FALSE, FALSE, ep0.SetupPacket, ep0.Buffer, FALSE, host)
  <2>1. PipeOk(q, OutStage, InStage, "Setup", ep0.StatusStarted, FALSE, ep0.SetupPacket, ep0.Buffer, FALSE, host)
    BY <1>1 DEF PipeInv
  <2>2. ep0.StatusStarted = FALSE
    BY <2>1, PipeTypes DEF PipeOk, ModeOk
  <2> QED BY <2>1, <2>2
<1>3. IF c THEN st = "Setup" /\ ep0.Buffer.req = "SET_CONFIG"
           ELSE st = IF ThreeStage(ep0.Buffer.req) THEN "Data" ELSE "Status"
  BY DEF AfterSetup
<1> DEFINE p == Tail(q)
           o == OutStage
           i == InStage
           buf == ep0.Buffer
           over == OverOk(buf, "Setup", o, i, FALSE)
           over2 == OverOk(buf, st, "quiet", "quiet", w)
<1> HIDE DEF q, F
<1>4. /\ q[1].ep = EP0_OUT /\ o = "done" /\ i = "quiet"
      /\ PipeOk(p, "quiet", "quiet", st, FALSE, c, buf, buf, w, host)
  <2>1. /\ ModeOk(o, i, "Setup", FALSE, FALSE, ep0.SetupPacket.req) /\ DoneOk(q, o, i)
        /\ QueueOk(q, TRUE, buf.req, ep0.SetupPacket.req, over, FALSE)
        /\ HostOk(q, TRUE, buf, "Setup", o, over, host)
    BY <1>2, PipeRest
  <2>2. i = "quiet"
    BY <2>1 DEF ModeOk
  <2>3. q[1].ep = EP0_OUT /\ o = "done"
    BY <1>1, <2>1, <2>2, DoneFacts
  <2>4. ModeOk("quiet", "quiet", st, FALSE, c, buf.req)
    BY <1>3 DEF ModeOk, ThreeStage
  <2>5. over \in BOOLEAN /\ over2 \in BOOLEAN /\ (over => over2) /\ (c \/ st # "Setup")
        /\ FALSE \in BOOLEAN
    BY <1>3 DEF ThreeStage, OverOk, Awaited, ExpectIn
  <2> HIDE DEF over, over2, p, o, i, buf
  <2>6. QueueOk(p, FALSE, buf.req, buf.req, over2, FALSE)
    BY <1>1, <2>1, <2>5, QueueSetupTaken DEF p
  <2>7. Alone(q)
    BY <2>1 DEF QueueOk
  <2>8. /\ NoControlIn(p)
        /\ BusOk(q, TRUE) => BusOk(p, FALSE)
        /\ NoStatus(q, TRUE) => NoStatus(p, FALSE)
        /\ LastConnect(q) => LastConnect(p)
        /\ DoneOk(p, "quiet", "quiet")
    BY <1>1, <2>7, TakenKeeps DEF p
  <2>9. HostOk(p, FALSE, buf, st, "quiet", over2, host)
    <3>1. host.phase = "data" => st \in {"Setup", "Data"}
      BY <1>3, <2>1 DEF HostOk, buf
    <3>2. host.bus = "up" /\ host.phase = "idle" => LastConnect(q)
      BY <2>1, <2>3 DEF HostOk, Ready
    <3> QED BY <2>1, <2>5, <2>8, <3>1, <3>2 DEF HostOk, Ready
  <2>10. PipeOk(p, "quiet", "quiet", st, FALSE, c, buf, buf, w, host)
    BY <2>4, <2>5, <2>6, <2>8, <2>9, PipeBusy DEF over2
  <2> QED BY <2>2, <2>3, <2>10
<1>5. Endpoints' = F /\ Endpoints \in EndpointTable
  BY <1>1, <1>4, PipeTypes DEF Ep0Taken, F
<1>6. /\ Stage(F[EP0_OUT]) = "quiet" /\ (F[EP0_OUT].Enabled <=> Endpoints[EP0_OUT].Enabled)
      /\ F[Ep0Other(EP0_OUT)] = Endpoints[Ep0Other(EP0_OUT)]
  BY <1>4, <1>5, Ep0TakenStages DEF OutStage, F
<1>7. OutStage' = "quiet" /\ InStage' = "quiet" /\ (Ep0On => Ep0On')
  BY <1>4, <1>5, <1>6 DEF OutStage, InStage, Ep0On, Ep0Other
<1> QED BY <1>1, <1>2, <1>4, <1>7

\* SET_ADDRESS is handled by the driver.
LEMMA AddressPipe ==
    ASSUME IInv, PipeInv, AskInv, SetupAddress
    PROVE  PipeInv' /\ AskInv' /\ (Ep0On => Ep0On') /\ UNCHANGED <<host, Started, RunStop>>
<1>1. /\ Ep0Complete("Setup") /\ ep0.Buffer.req = "SET_ADDRESS" /\ Endpoints' = Ep0Taken
      /\ ep0' = [ep0 EXCEPT !.SetupPacket = ep0.Buffer, !.State = "Status"]
      /\ NextEvent(Messages) /\ UNCHANGED <<host, client, Started, RunStop>>
  BY DEF SetupAddress
<1>2. /\ ep0'.State = "Status" /\ ep0'.SetupPacket = ep0.Buffer /\ ep0'.Buffer = ep0.Buffer
      /\ ep0'.StatusStarted = ep0.StatusStarted
  BY <1>1, PipeTypes DEF Ep0Fields
<1>3. AfterSetup(ep0.Buffer) = "Status"
  BY <1>1 DEF AfterSetup, ThreeStage
<1>4. FALSE \in BOOLEAN
  OBVIOUS
<1>5. /\ OutStage' = "quiet" /\ InStage' = "quiet" /\ (Ep0On => Ep0On') /\ ep0.StatusStarted = FALSE
      /\ PipeOk(EventsLeft, "quiet", "quiet", "Status", FALSE, FALSE, ep0.Buffer, ep0.Buffer, FALSE, host)
  BY <1>1, <1>3, <1>4, SetupTaken
<1>6. AskInv' /\ Waits' = FALSE /\ Looping' = FALSE
  <2>1. BusMessage("Reset") \in MessageSet /\ BusMessage("Reset").type # "Setup"
    BY NoSetupMessages DEF BusMessages
  <2>2. pc = "events"
    BY <1>1, CompleteFacts
  <2> QED BY <1>1, <2>1, <2>2, EventTakenAsk
<1>7. EventBuffer' = EventsLeft
  BY <1>1 DEF NextEvent
<1>8. PipeInv'
  BY <1>1, <1>2, <1>5, <1>6, <1>7 DEF PipeInv
<1> QED BY <1>1, <1>5, <1>6, <1>8

\* SET_CONFIG begins its loop.
LEMMA ConfigBegins ==
    ASSUME IInv, PipeInv, AskInv, SetupConfig
    PROVE  PipeInv' /\ AskInv' /\ (Ep0On => Ep0On') /\ UNCHANGED <<host, Started, RunStop>>
<1>1. /\ Ep0Complete("Setup") /\ ep0.Buffer.req = "SET_CONFIG" /\ Endpoints' = Ep0Taken
      /\ ep0' = [ep0 EXCEPT !.SetupPacket = ep0.Buffer] /\ EventBuffer' = EventsLeft /\ pc' = "config"
      /\ UNCHANGED <<driver, Messages, host, client>>
  BY DEF SetupConfig
<1>2. /\ ep0'.State = "Setup" /\ ep0'.SetupPacket = ep0.Buffer /\ ep0'.Buffer = ep0.Buffer
      /\ ep0'.StatusStarted = ep0.StatusStarted
  BY <1>1, PipeTypes DEF Ep0Fields, Ep0Complete
<1>3. client.owes = "none" /\ Messages = <<>>
  BY <1>1, CompleteFacts
<1>4. client'.owes = "none" /\ ~Asks(Messages')
  BY <1>1, <1>3 DEF Asks
<1>5. AskInv' /\ Waits' = FALSE /\ Looping' = TRUE /\ TRUE \in BOOLEAN /\ FALSE \in BOOLEAN
  BY <1>1, <1>4, NothingAsked DEF Waits, Looping
<1>6. ASSUME NEW c \in BOOLEAN, c
      PROVE  /\ OutStage' = "quiet" /\ InStage' = "quiet" /\ (Ep0On => Ep0On') /\ ep0.StatusStarted = FALSE
             /\ PipeOk(EventsLeft, "quiet", "quiet", "Setup", FALSE, c, ep0.Buffer, ep0.Buffer, FALSE, host)
  BY <1>1, <1>6, SetupTaken
<1>7. Looping' \in BOOLEAN /\ Looping'
  BY <1>5
<1>8. /\ OutStage' = "quiet" /\ InStage' = "quiet" /\ (Ep0On => Ep0On') /\ ep0.StatusStarted = FALSE
      /\ PipeOk(EventsLeft, "quiet", "quiet", "Setup", FALSE, Looping', ep0.Buffer, ep0.Buffer, FALSE, host)
  BY <1>6, <1>7
<1>9. PipeInv'
  BY <1>1, <1>2, <1>5, <1>8 DEF PipeInv
<1> QED BY <1>1, <1>5, <1>8, <1>9 DEF driver

\* Any other request is passed on.
LEMMA PassedPipe ==
    ASSUME IInv, PipeInv, AskInv, SetupPassed
    PROVE  PipeInv' /\ AskInv' /\ (Ep0On => Ep0On') /\ UNCHANGED <<host, Started, RunStop>>
<1> DEFINE m == SetupMessage(ep0.Buffer)
<1>1. /\ Ep0Complete("Setup") /\ ep0.Buffer.req \notin {"SET_ADDRESS", "SET_CONFIG"} /\ Endpoints' = Ep0Taken
      /\ ep0' = [ep0 EXCEPT !.SetupPacket = ep0.Buffer, !.State = AfterSetup(ep0.Buffer)]
      /\ NextEvent(PushMessage(Messages, m)) /\ UNCHANGED <<driver, host, client>>
  BY DEF SetupPassed
<1>2. /\ ep0'.State = AfterSetup(ep0.Buffer) /\ ep0'.SetupPacket = ep0.Buffer /\ ep0'.Buffer = ep0.Buffer
      /\ ep0'.StatusStarted = ep0.StatusStarted
  BY <1>1, PipeTypes DEF Ep0Fields
<1>3. client.owes = "none" /\ Messages = <<>>
  BY <1>1, CompleteFacts
<1>4. Messages' = <<m>> /\ pc' = "pop" /\ EventBuffer' = EventsLeft
  <2>1. MessageDepth - 1 # 0
    BY DriverAssumption, EndpointAssumption
  <2> QED BY <1>1, <1>3, <2>1 DEF NextEvent, PushMessage
<1>5. m.type = "Setup" /\ m.packet = ep0.Buffer
  BY DEF SetupMessage, BlankMessage
<1> HIDE DEF m
<1>6. Len(Messages') = 1 /\ Messages'[1] = m
  BY <1>4
<1>7. Asks(Messages') /\ AsksLast(Messages', ep0.Buffer)
  BY <1>5, <1>6 DEF Asks, AsksLast
<1>8. Waits' \in BOOLEAN /\ Looping' = FALSE /\ FALSE \in BOOLEAN
  BY <1>4 DEF Waits, Looping
<1>9. ASSUME NEW w \in BOOLEAN
      PROVE  /\ OutStage' = "quiet" /\ InStage' = "quiet" /\ (Ep0On => Ep0On') /\ ep0.StatusStarted = FALSE
             /\ PipeOk(EventsLeft, "quiet", "quiet", AfterSetup(ep0.Buffer), FALSE, FALSE,
                       ep0.Buffer, ep0.Buffer, w, host)
  BY <1>1, <1>8, SetupTaken
<1>10. AskInv'
  <2>1. Answerable'
    BY <1>1, <1>2, <1>8, <1>9 DEF Answerable
  <2> QED BY <1>1, <1>2, <1>3, <1>4, <1>7, <2>1 DEF AskInv
<1>11. PipeInv'
  BY <1>1, <1>2, <1>4, <1>8, <1>9 DEF PipeInv
<1> QED BY <1>1, <1>8, <1>9, <1>10, <1>11 DEF driver

\* The driver always has hold of EP0.
LEMMA NeverLost ==
    ASSUME PipeInv
    PROVE  OutStage # "lost" /\ InStage # "lost"
BY DEF PipeInv, PipeOk, ModeOk

\* A message that is no SETUP packet, for steps that send none.
LEMMA SomeMessage == \E m \in MessageSet : m.type # "Setup"
BY NoSetupMessages DEF BusMessages

\* The entries of EP0 when the driver takes the event of one direction.
LEMMA TakenEntries ==
    ASSUME IInv, NEW n \in {EP0_OUT, EP0_IN}, Stage(Endpoints[n]) = "done",
           NEW F, F = [Endpoints EXCEPT ![n].TransferStarted = FALSE]
    PROVE  /\ F \in EndpointTable /\ Stage(F[n]) = "quiet" /\ (F[n].Enabled <=> Endpoints[n].Enabled)
           /\ F[Ep0Other(n)] = Endpoints[Ep0Other(n)]
<1> DEFINE G == [Endpoints EXCEPT ![n].TransferStarted = FALSE]
<1>1. /\ G \in EndpointTable /\ Stage(G[n]) = "quiet" /\ (G[n].Enabled <=> Endpoints[n].Enabled)
      /\ G[Ep0Other(n)] = Endpoints[Ep0Other(n)]
  BY PipeTypes, Ep0TakenStages
<1>2. F = G
  OBVIOUS
<1> HIDE DEF G
<1> QED BY <1>1, <1>2

\* The completion of the data stage is taken.
LEMMA DataTakenPipe ==
    ASSUME IInv, PipeInv, AskInv, Ep0DataComplete
    PROVE  /\ PipeInv' /\ AskInv' /\ (Ep0On => Ep0On') /\ UNCHANGED <<host, Started, RunStop>>
           /\ OutStage' = "quiet" /\ InStage' = "quiet"
<1> DEFINE q == EventBuffer
           n == EventEp
           F == [Endpoints EXCEPT ![n].TransferStarted = FALSE]
           m == TransferResult(Endpoints, n, "Complete")
<1>1. /\ Ep0Complete("Data") /\ Endpoints' = [F EXCEPT ![n].TransferBuffer = NULL]
      /\ NextEvent(PushMessage(Messages, m)) /\ ep0' = [ep0 EXCEPT !.Bounced = FALSE]
      /\ UNCHANGED <<driver, host, client>>
  BY DEF Ep0DataComplete, Ep0Taken
<1>2. /\ q \in Seq(Events) /\ q # <<>> /\ EventsLeft = Tail(q) /\ n = q[1].ep /\ pc = "events"
      /\ ControlEvent(q[1]) /\ ep0.State = "Data" /\ Waits = FALSE /\ Looping = FALSE
      /\ n \in {EP0_OUT, EP0_IN}
  BY <1>1, CompleteFacts
<1>3. n \in Eps /\ Ep0Other(n) \in Eps /\ Ep0Other(n) # n /\ Endpoints \in EndpointTable
  BY <1>2, PipeTypes, Ep0Pair
<1>4. m \in MessageSet /\ m.type # "Setup"
  BY <1>3, NoSetupMessages DEF Statuses
<1> HIDE DEF q, n, F, m
<1>5. PipeOk(q, OutStage, InStage, "Data", ep0.StatusStarted, FALSE, ep0.SetupPacket, ep0.Buffer, FALSE, host)
  BY <1>2 DEF PipeInv, q
<1>6. /\ IF n = EP0_OUT THEN OutStage = "done" /\ InStage = "quiet" ELSE InStage = "done" /\ OutStage = "quiet"
      /\ PipeOk(Tail(q), "quiet", "quiet", "Data", ep0.StatusStarted, FALSE,
                ep0.SetupPacket, ep0.Buffer, FALSE, host)
  BY <1>2, <1>5, PipeTypes, PipeDataTaken
<1>7. Stage(Endpoints[n]) = "done" /\ Stage(Endpoints[Ep0Other(n)]) = "quiet"
  BY <1>2, <1>6 DEF OutStage, InStage, Ep0Other
<1>8. /\ F \in EndpointTable /\ Stage(F[n]) = "quiet" /\ (F[n].Enabled <=> Endpoints[n].Enabled)
      /\ F[Ep0Other(n)] = Endpoints[Ep0Other(n)]
  <2>1. F = [Endpoints EXCEPT ![n].TransferStarted = FALSE]
    BY DEF F
  <2> QED BY <1>2, <1>7, <2>1, TakenEntries
<1>9. Endpoints'[n] = [F[n] EXCEPT !.TransferBuffer = NULL] /\ Endpoints'[Ep0Other(n)] = F[Ep0Other(n)]
  BY <1>1, <1>3, <1>8 DEF EndpointTable
<1>10. Like(F[n], Endpoints'[n])
  <2>1. F[n] \in Endpoint
    BY <1>3, <1>8 DEF EndpointTable
  <2> QED BY <1>9, <2>1, LikeFields
<1>11. OutStage' = "quiet" /\ InStage' = "quiet" /\ (Ep0On => Ep0On')
  BY <1>2, <1>7, <1>8, <1>9, <1>10, Ep0Pair DEF Like, OutStage, InStage, Ep0On, Ep0Other
<1>12. AskInv' /\ Waits' = FALSE /\ Looping' = FALSE /\ EventBuffer' = Tail(EventBuffer)
  BY <1>1, <1>2, <1>4, EventTakenAsk
<1>13. Ep0Kept
  <2>1. \E x : ep0' = [ep0 EXCEPT !.Bounced = x]
    BY <1>1
  <2> QED BY <2>1, PipeTypes, Ep0FieldsKept
<1>14. PipeInv'
  <2>1. /\ ep0'.State = "Data" /\ ep0'.StatusStarted = ep0.StatusStarted
        /\ ep0'.SetupPacket = ep0.SetupPacket /\ ep0'.Buffer = ep0.Buffer
    BY <1>2, <1>13 DEF Ep0Kept
  <2>2. EventBuffer' = Tail(q) /\ host' = host
    BY <1>1, <1>12 DEF q
  <2> QED BY <1>6, <1>11, <1>12, <2>1, <2>2 DEF PipeInv
<1> QED BY <1>1, <1>11, <1>12, <1>14 DEF driver

\* The completion of the status stage is taken, and EP0 armed.
LEMMA StatusTakenPipe ==
    ASSUME IInv, PipeInv, AskInv, Wellbehaved, Ep0StatusComplete
    PROVE  PipeInv' /\ AskInv' /\ (Ep0On => Ep0On') /\ UNCHANGED <<host, Started, RunStop>>
<1> DEFINE q == EventBuffer
           n == EventEp
           F == [Endpoints EXCEPT ![n].TransferStarted = FALSE]
<1>1. /\ Ep0Complete("Status") /\ Ep0OutStart(F) /\ NextEvent(Messages) /\ UNCHANGED <<driver, host, client>>
  BY DEF Ep0StatusComplete, Ep0Taken
<1>2. /\ q \in Seq(Events) /\ q # <<>> /\ EventsLeft = Tail(q) /\ n = q[1].ep /\ pc = "events"
      /\ ControlEvent(q[1]) /\ ep0.State = "Status" /\ Waits = FALSE /\ Looping = FALSE
      /\ n \in {EP0_OUT, EP0_IN}
  BY <1>1, CompleteFacts
<1>3. n \in Eps /\ Ep0Other(n) \in Eps /\ Ep0Other(n) # n /\ Endpoints \in EndpointTable
  BY <1>2, PipeTypes, Ep0Pair
<1> HIDE DEF q, n, F
<1>4. PipeOk(q, OutStage, InStage, "Status", TRUE, FALSE, ep0.SetupPacket, ep0.Buffer, FALSE, host)
  <2>1. PipeOk(q, OutStage, InStage, "Status", ep0.StatusStarted, FALSE, ep0.SetupPacket, ep0.Buffer, FALSE, host)
    BY <1>2 DEF PipeInv, q
  <2>2. ModeOk(OutStage, InStage, "Status", ep0.StatusStarted, FALSE, ep0.SetupPacket.req)
        /\ DoneOk(q, OutStage, InStage)
    BY <2>1 DEF PipeOk
  <2>3. OutStage = "done" \/ InStage = "done"
    BY <1>2, <2>2, DoneFacts
  <2>4. ep0.StatusStarted
    BY <2>2, <2>3 DEF ModeOk
  <2>5. ep0.StatusStarted = TRUE
    BY <2>4, PipeTypes
  <2> QED BY <2>1, <2>5
<1>5. /\ IF n = EP0_OUT THEN OutStage = "done" ELSE InStage = "done"
      /\ PipeOk(Tail(q), "setup", "quiet", "Setup", FALSE, FALSE, ep0.SetupPacket, ep0.Buffer, FALSE, host)
  <2>1. /\ q[1].ep = EP0_OUT => OutStage = "done"
        /\ q[1].ep # EP0_OUT => InStage = "done"
        /\ PipeOk(Tail(q), "setup", "quiet", "Setup", FALSE, FALSE, ep0.SetupPacket, ep0.Buffer, FALSE, host)
    BY <1>2, <1>4, PipeStatusTaken
  <2> QED BY <1>2, <2>1
<1>6. Stage(Endpoints[n]) = "done" /\ Stage(Endpoints[Ep0Other(n)]) # "lost"
  BY <1>2, <1>5, NeverLost DEF OutStage, InStage, Ep0Other
<1>7. /\ F \in EndpointTable /\ Stage(F[n]) = "quiet" /\ (F[n].Enabled <=> Endpoints[n].Enabled)
      /\ F[Ep0Other(n)] = Endpoints[Ep0Other(n)]
  <2>1. F = [Endpoints EXCEPT ![n].TransferStarted = FALSE]
    BY DEF F
  <2> QED BY <1>2, <1>6, <2>1, TakenEntries
<1>8. /\ Stage(F[EP0_OUT]) # "lost" /\ Stage(F[EP0_IN]) # "lost"
      /\ Ep0On => F[EP0_OUT].Enabled /\ F[EP0_IN].Enabled
  BY <1>2, <1>6, <1>7 DEF Ep0Other, Ep0On
<1>9. /\ OutStage' = "setup" /\ InStage' = "quiet" /\ (Ep0On => Ep0On')
      /\ ep0'.State = "Setup" /\ ep0'.StatusStarted = FALSE
      /\ ep0'.SetupPacket = ep0.SetupPacket /\ ep0'.Buffer = ep0.Buffer
  BY <1>1, <1>7, <1>8, Ep0OutStartStages DEF Wellbehaved
<1>10. AskInv' /\ Waits' = FALSE /\ Looping' = FALSE /\ EventBuffer' = Tail(EventBuffer)
  BY <1>1, <1>2, SomeMessage, EventTakenAsk
<1>11. PipeInv'
  BY <1>1, <1>5, <1>9, <1>10 DEF PipeInv, q
<1> QED BY <1>1, <1>9, <1>10, <1>11 DEF driver

\* The data event always has the direction of the request: it is ignored.
LEMMA DataNotReadyPipe ==
    ASSUME IInv, PipeInv, AskInv, Ep0DataNotReady
    PROVE  /\ PipeInv' /\ AskInv' /\ (Ep0On => Ep0On') /\ UNCHANGED <<host, ep0, Endpoints, Started, RunStop>>
<1>1. /\ pc = "events" /\ AtEvent("data") /\ EventEp \in ControlEps
      /\ NextEvent(Messages) /\ UNCHANGED <<driver, client>>
  BY DEF Ep0DataNotReady, AtEvent
<1>2. /\ EventBuffer \in Seq(Events) /\ EventBuffer # <<>> /\ Notify(EventBuffer[1], "data")
      /\ EventEp = EventBuffer[1].ep
  BY <1>1, AtEventFacts DEF Notify
<1>3. EventEp = DataEp(ep0.SetupPacket.req)
  <2>1. 1 \in 1 .. Len(EventBuffer) /\ NoControl(EventBuffer, 1, 1 - 1)
    BY <1>2 DEF NoControl
  <2>2. DatasOk(EventBuffer, AtRest(ep0.State, Looping), ep0.Buffer.req, ep0.SetupPacket.req)
    BY DEF PipeInv, PipeOk, QueueOk
  <2> QED BY <1>2, <2>1, <2>2 DEF DatasOk
<1>4. UNCHANGED <<Endpoints, ep0, host>>
  <2>1. EventEp = EP0_IN <=> ExpectIn(ep0.SetupPacket.req)
    BY <1>3 DEF DataEp, EP0_IN, EP0_OUT
  <2>2. (EventEp = EP0_IN) = ExpectIn(ep0.SetupPacket.req)
    BY <2>1 DEF ExpectIn
  <2> QED BY <2>2 DEF Ep0DataNotReady
<1>5. Ep0Kept /\ StagesKept
  BY <1>4, PipeTypes, Ep0FieldsKept, EntriesKept
<1>6. ~ControlEvent(EventBuffer[1]) /\ EventBuffer[1].type # "connect"
  BY <1>2 DEF Notify, ControlEvent
<1>7. PipeInv' /\ AskInv'
  BY <1>1, <1>4, <1>5, <1>6, SomeMessage, SameEvent
<1> QED BY <1>1, <1>4, <1>5, <1>7 DEF driver, StagesKept

\* The status event starts the status stage, at most once for a request.
LEMMA StatusNotReadyPipe ==
    ASSUME IInv, PipeInv, AskInv, Wellbehaved, Ep0StatusNotReady
    PROVE  /\ PipeInv' /\ AskInv' /\ (Ep0On => Ep0On') /\ UNCHANGED <<host, Started, RunStop>>
<1> DEFINE n == EventEp
           F == EndTransfer(Endpoints, n)
<1>1. /\ pc = "events" /\ AtEvent("status") /\ EventEp \in ControlEps
      /\ NextEvent(Messages) /\ UNCHANGED <<driver, client, host>>
  BY DEF Ep0StatusNotReady, AtEvent
<1>2. /\ EventBuffer \in Seq(Events) /\ EventBuffer # <<>> /\ Notify(EventBuffer[1], "status")
      /\ n = EventBuffer[1].ep /\ n \in {EP0_OUT, EP0_IN} /\ Waits = FALSE /\ Looping = FALSE
  BY <1>1, AtEventFacts DEF Notify, ControlEps
<1>3. CASE ~StartsStatus
  <2>1. Ep0Kept /\ StagesKept
    BY <1>3, PipeTypes, Ep0FieldsKept, EntriesKept DEF Ep0StatusNotReady
  <2>2. ~ControlEvent(EventBuffer[1]) /\ EventBuffer[1].type # "connect"
    BY <1>2 DEF Notify, ControlEvent
  <2>3. PipeInv' /\ AskInv'
    BY <1>1, <2>1, <2>2, SomeMessage, SameEvent
  <2> QED BY <1>1, <2>1, <2>3 DEF driver, StagesKept
<1>4. CASE StartsStatus
  <2>1. ep0.State # "Setup" /\ ep0.StatusStarted = FALSE
    BY <1>4, PipeTypes DEF StartsStatus
  <2>2. Stage(Endpoints[n]) # "lost" /\ Endpoints \in EndpointTable
    BY <1>2, NeverLost, PipeTypes DEF OutStage, InStage
  <2> HIDE DEF n
  <2>3. /\ F \in EndpointTable /\ Stage(F[n]) = "quiet" /\ (F[n].Enabled <=> Endpoints[n].Enabled)
        /\ Like(Endpoints[Ep0Other(n)], F[Ep0Other(n)])
    BY <1>2, <2>2, Ep0EndTransfer
  <2> HIDE DEF F
  <2>4. StartResults(F, n) = {TRUE}
    BY <2>3, Ep0Starts DEF Wellbehaved
  <2>5. /\ Endpoints' = StartTransfer(F, n, "status", NULL, TRUE)
        /\ ep0' = [ep0 EXCEPT !.State = "Status", !.StatusStarted = TRUE]
    BY <1>4, <2>4 DEF Ep0StatusNotReady, F, n
  <2>6. /\ Stage(Endpoints'[n]) = "status" /\ (Endpoints'[n].Enabled <=> F[n].Enabled)
        /\ Like(F[Ep0Other(n)], Endpoints'[Ep0Other(n)])
    <3>1. /\ Stage(StartTransfer(F, n, "status", NULL, TRUE)[n]) = "status"
          /\ StartTransfer(F, n, "status", NULL, TRUE)[n].Enabled <=> F[n].Enabled
          /\ Like(F[Ep0Other(n)], StartTransfer(F, n, "status", NULL, TRUE)[Ep0Other(n)])
      BY <1>2, <2>3, NullBuffer, Ep0StartTransfer
    <3> QED BY <2>5, <3>1
  <2>7. /\ IF n = EP0_OUT THEN OutStage' = "status" /\ InStage' = InStage
                          ELSE OutStage' = OutStage /\ InStage' = "status"
        /\ Ep0On => Ep0On'
    BY <1>2, <2>3, <2>6, Ep0Pair DEF OutStage, InStage, Ep0Other, Like, Ep0On
  <2>8. /\ ep0'.State = "Status" /\ ep0'.StatusStarted = TRUE
        /\ ep0'.SetupPacket = ep0.SetupPacket /\ ep0'.Buffer = ep0.Buffer
    BY <2>5, PipeTypes DEF Ep0Fields
  <2>9. AskInv' /\ Waits' = FALSE /\ Looping' = FALSE /\ EventBuffer' = Tail(EventBuffer)
    BY <1>1, SomeMessage, EventTakenAsk
  <2>10. PipeOk(EventBuffer, OutStage, InStage, ep0.State, FALSE, FALSE, ep0.SetupPacket, ep0.Buffer, FALSE, host)
    BY <1>2, <2>1 DEF PipeInv
  <2>11. PipeOk(Tail(EventBuffer), OutStage', InStage', "Status", TRUE, FALSE,
                ep0.SetupPacket, ep0.Buffer, FALSE, host)
    BY <1>2, <2>1, <2>7, <2>10, PipeTypes, PipeStatusStart DEF n
  <2>12. PipeInv'
    BY <1>1, <2>8, <2>9, <2>11 DEF PipeInv
  <2> QED BY <1>1, <2>7, <2>9, <2>12 DEF driver
<1> QED BY <1>3, <1>4

\* Events of which EP0 knows nothing.
LEMMA OtherEventPipe ==
    ASSUME IInv, PipeInv, AskInv,
           BulkComplete \/ IgnoredEvent \/ BusDisconnect \/ LinkStatusChange \/ Wakeup
    PROVE  /\ PipeInv' /\ AskInv' /\ StagesKept /\ Ep0Kept /\ UNCHANGED <<host, Started, RunStop>>
           /\ EntriesSame /\ UNCHANGED ep0
<1>1. /\ pc = "events" /\ UNCHANGED <<host, client, Started, RunStop, ep0>>
  BY DEF BulkComplete, IgnoredEvent, BusDisconnect, LinkStatusChange, Wakeup, AtEvent, driver
<1>2. /\ \/ EventBuffer[1].type \in {"other", "disconnect", "link", "wakeup"}
         \/ EventBuffer[1].type = "complete" /\ EventEp \in Bulk
      /\ EventEp = EventBuffer[1].ep /\ EventEp \in Eps
  <2>1. /\ \A t : AtEvent(t) <=> EventBuffer[1].type = t
        /\ EventEp = EventBuffer[1].ep /\ EventBuffer[1] \in Events
    BY <1>1, AtEventFacts
  <2>2. \/ AtEvent("complete") /\ EventEp \in Bulk
        \/ AtEvent("other") \/ AtEvent("disconnect") \/ AtEvent("link") \/ AtEvent("wakeup")
    BY DEF BulkComplete, IgnoredEvent, BusDisconnect, LinkStatusChange, Wakeup
  <2>3. EventEp \in Eps
    BY <2>1 DEF Events
  <2> QED BY <2>1, <2>2, <2>3
<1>3. ~ControlEvent(EventBuffer[1]) /\ EventBuffer[1].type # "connect"
  <2>1. EventEp \in Bulk => EventEp \notin ControlEps
    BY BulkFacts DEF ControlEps, EP0_OUT, EP0_IN
  <2> QED BY <1>2, <2>1 DEF ControlEvent
<1>4. \E m \in MessageSet : m.type # "Setup" /\ (NextEvent(Messages) \/ NextEvent(PushMessage(Messages, m)))
  <2>1. /\ \A t \in BusMessages : BusMessage(t) \in MessageSet /\ BusMessage(t).type # "Setup"
        /\ \A E \in EndpointTable, n \in Eps, s \in Statuses :
              TransferResult(E, n, s) \in MessageSet /\ TransferResult(E, n, s).type # "Setup"
    BY NoSetupMessages
  <2>2. CASE BulkComplete
    <3>1. ResultStatus(Head(EventBuffer).err) \in Statuses /\ Endpoints \in EndpointTable
      BY PipeTypes DEF ResultStatus, Statuses
    <3>2. NextEvent(Messages)
          \/ NextEvent(PushMessage(Messages, TransferResult(Endpoints, EventEp, ResultStatus(Head(EventBuffer).err))))
      BY <2>2 DEF BulkComplete
    <3> QED BY <1>2, <2>1, <3>1, <3>2
  <2>3. CASE IgnoredEvent
    BY <2>3, SomeMessage DEF IgnoredEvent
  <2>4. CASE BusDisconnect
    BY <2>1, <2>4 DEF BusDisconnect, BusMessages
  <2>5. CASE LinkStatusChange
    <3>1. \E s : NextEvent(SuspendMessages(s))
      BY <2>5 DEF LinkStatusChange
    <3> QED BY <2>1, <3>1, SomeMessage DEF SuspendMessages, BusMessages
  <2>6. CASE Wakeup
    BY <2>1, <2>6 DEF Wakeup, BusMessages
  <2> QED BY <2>2, <2>3, <2>4, <2>5, <2>6
<1>5. Ep0Kept
  BY <1>1, PipeTypes, Ep0FieldsKept
<1>6. StagesKept /\ EntriesSame
  <2>1. CASE BulkComplete
    <3>1. \A n \in Bulk : \A m \in {EP0_OUT, EP0_IN} : BulkTaken(Endpoints, n)[m] = Endpoints[m]
      <4>1. \A n \in Bulk : n # EP0_OUT /\ n # EP0_IN
        BY BulkFacts DEF EP0_OUT, EP0_IN
      <4>2. EP0_OUT \in Eps /\ EP0_IN \in Eps /\ DOMAIN Endpoints = Eps
        BY PipeTypes, EpsFacts DEF EndpointTable
      <4> QED BY <4>1, <4>2 DEF BulkTaken
    <3>2. \/ EventEp \in Bulk /\ Endpoints' = BulkTaken(Endpoints, EventEp)
          \/ UNCHANGED Endpoints
      BY <2>1 DEF BulkComplete
    <3> QED BY <3>1, <3>2, EntriesKept DEF EntriesSame
  <2>2. CASE ~BulkComplete
    BY <2>2, EntriesKept DEF EntriesSame, IgnoredEvent, BusDisconnect, LinkStatusChange, Wakeup
  <2> QED BY <2>1, <2>2
<1>7. PipeInv' /\ AskInv'
  BY <1>1, <1>3, <1>4, <1>5, <1>6, SameEvent
<1> QED BY <1>1, <1>5, <1>6, <1>7

\* RESET ends the request in progress.
LEMMA ResetPipe ==
    ASSUME IInv, PipeInv, AskInv, BusReset
    PROVE  /\ PipeInv' /\ AskInv' /\ (Ep0On => Ep0On') /\ ep0'.State = "Setup" /\ ~Looping'
           /\ UNCHANGED <<host, Started, RunStop>>
<1>1. /\ AtEvent("reset") /\ \E F : Endpoints' = ResetTable(Endpoints, F)
      /\ ep0' = [ep0 EXCEPT !.State = "Setup", !.StatusStarted = FALSE, !.Bounced = FALSE]
      /\ NextEvent(PushMessage(Messages, BusMessage("Reset")))
      /\ UNCHANGED <<Started, RunStop, host, client>> /\ pc = "events"
  BY DEF BusReset, AtEvent
<1>2. /\ ep0'.State = "Setup" /\ ep0'.StatusStarted = FALSE
      /\ ep0'.SetupPacket = ep0.SetupPacket /\ ep0'.Buffer = ep0.Buffer
  BY <1>1, PipeTypes DEF Ep0Fields
<1>3. /\ EventBuffer # <<>> /\ EventBuffer[1].type = "reset" /\ Waits = FALSE /\ Looping = FALSE
  BY <1>1, AtEventFacts
<1>4. AskInv' /\ Waits' = FALSE /\ Looping' = FALSE /\ EventBuffer' = Tail(EventBuffer)
  <2>1. BusMessage("Reset") \in MessageSet /\ BusMessage("Reset").type # "Setup"
    BY NoSetupMessages DEF BusMessages
  <2> QED BY <1>1, <2>1, EventTakenAsk
<1>5. OutStage' = OutStage /\ InStage' = "quiet" /\ (Ep0On => Ep0On')
  <2>1. PICK F : Endpoints' = ResetTable(Endpoints, F)
    BY <1>1
  <2>2. /\ Like(Endpoints[EP0_OUT], ResetTable(Endpoints, F)[EP0_OUT])
        /\ Stage(ResetTable(Endpoints, F)[EP0_IN]) = "quiet"
        /\ ResetTable(Endpoints, F)[EP0_IN].Enabled <=> Endpoints[EP0_IN].Enabled
    BY PipeTypes, NeverLost, Ep0ResetStages DEF InStage
  <2> QED BY <2>1, <2>2 DEF Like, OutStage, InStage, Ep0On
<1>6. PipeOk(EventBuffer, OutStage, InStage, ep0.State, ep0.StatusStarted, FALSE,
             ep0.SetupPacket, ep0.Buffer, FALSE, host)
  BY <1>3 DEF PipeInv
<1>7. PipeOk(Tail(EventBuffer), OutStage, "quiet", "Setup", FALSE, FALSE,
             ep0.SetupPacket, ep0.Buffer, FALSE, host)
  BY <1>3, <1>6, PipeTypes, PipeReset
<1>8. PipeInv'
  BY <1>1, <1>2, <1>4, <1>5, <1>7 DEF PipeInv
<1>9. ~Looping'
  BY <1>4
<1> QED BY <1>1, <1>2, <1>4, <1>5, <1>8, <1>9

\* CONNECT_DONE comes while the driver waits for a SETUP packet, and arms EP0
\* unless EP0 OUT looks busy.
LEMMA ConnectPipe ==
    ASSUME IInv, PipeInv, AskInv, Wellbehaved, Guards(EventBuffer, Rest, host.bus), BusConnectDone
    PROVE  PipeInv' /\ AskInv' /\ (Ep0On => Ep0On') /\ UNCHANGED <<host, Started, RunStop>>
<1> DEFINE o2 == IF OutStage = "quiet" THEN "setup" ELSE OutStage
<1>1. /\ AtEvent("connect") /\ pc = "events"
      /\ NextEvent(PushMessage(Messages, SpeedMessage(host.speed)))
      /\ UNCHANGED <<Started, RunStop, host, client>>
  BY DEF BusConnectDone, AtEvent
<1>2. /\ EventBuffer # <<>> /\ EventBuffer[1].type = "connect" /\ Waits = FALSE /\ Looping = FALSE
      /\ EventBuffer \in Seq(Events)
  BY <1>1, AtEventFacts
<1>3. ep0.State = "Setup"
  <2>1. 1 \in 1 .. Len(EventBuffer)
    BY <1>2
  <2>2. Guarded(EventBuffer, Rest, 1)
    BY <1>2, <2>1 DEF Guards, ConnectsGuarded
  <2>3. Rest
    BY <2>2 DEF Guarded
  <2> QED BY <2>3 DEF Rest, AtRest
<1>4. PipeOk(EventBuffer, OutStage, InStage, "Setup", ep0.StatusStarted, FALSE,
             ep0.SetupPacket, ep0.Buffer, FALSE, host)
  BY <1>2, <1>3 DEF PipeInv
<1>5. InStage = "quiet" /\ ep0.StatusStarted = FALSE /\ OutStage # "lost"
  BY <1>4, PipeTypes DEF PipeOk, ModeOk
<1>6. PipeOk(Tail(EventBuffer), o2, "quiet", "Setup", FALSE, FALSE,
             ep0.SetupPacket, ep0.Buffer, FALSE, host)
  BY <1>2, <1>4, PipeTypes, PipeConnect
<1>7. /\ EP0_OUT \in Eps /\ EP0_IN \in Eps /\ EP0_OUT \notin Bulk /\ EP0_IN \notin Bulk
      /\ Endpoints[EP0_OUT] \in Endpoint /\ Endpoints \in EndpointTable
  BY PipeTypes, EpsFacts, BulkFacts DEF EndpointTable, EP0_OUT, EP0_IN
<1>8. Ep0Rearm <=> OutStage = "quiet"
  <2>1. Endpoints[EP0_OUT].TransferStarted <=> Stage(Endpoints[EP0_OUT]) # "quiet"
    BY <1>5, <1>7, StageTells DEF OutStage
  <2> QED BY <2>1 DEF Ep0Rearm, OutStage
<1>9. /\ OutStage' = o2 /\ InStage' = "quiet" /\ (Ep0On => Ep0On')
      /\ ep0'.State = "Setup" /\ ep0'.StatusStarted = FALSE
      /\ ep0'.SetupPacket = ep0.SetupPacket /\ ep0'.Buffer = ep0.Buffer
  <2>1. CASE Ep0Rearm
    <3>1. PICK S \in SUBSET Eps : Ep0OutStart(EnableEndpoints(Endpoints, S))
      <4> DEFINE enable == {n \in Bulk : Endpoints[n].Enabled} \union ControlEps
      <4>1. enable \subseteq Eps
        BY <1>7, BulkFacts DEF ControlEps
      <4>2. \E S \in ConfigOutcomes(enable) : Ep0OutStart(EnableEndpoints(Endpoints, S))
        BY <2>1 DEF BusConnectDone
      <4>3. \A S \in ConfigOutcomes(enable) : S \in SUBSET Eps
        BY <4>1 DEF ConfigOutcomes
      <4> QED BY <4>2, <4>3
    <3> DEFINE E == EnableEndpoints(Endpoints, S)
    <3>2. /\ Endpoints[EP0_OUT].Enabled => E[EP0_OUT].Enabled
          /\ Stage(Endpoints[EP0_OUT]) = "quiet" => Stage(E[EP0_OUT]) = "quiet"
      BY <1>7, Ep0Enabled
    <3>3. /\ Endpoints[EP0_IN].Enabled => E[EP0_IN].Enabled
          /\ Stage(Endpoints[EP0_IN]) = "quiet" => Stage(E[EP0_IN]) = "quiet"
      BY <1>7, Ep0Enabled
    <3>4. E \in EndpointTable
      BY <1>7, EnableEndpointsType
    <3>5. Ep0OutStart(E)
      BY <3>1
    <3> HIDE DEF E
    <3>6. Stage(E[EP0_OUT]) # "lost" /\ Stage(E[EP0_IN]) # "lost"
      BY <1>5, <1>8, <2>1, <3>2, <3>3 DEF OutStage, InStage
    <3>7. Ep0On => E[EP0_OUT].Enabled /\ E[EP0_IN].Enabled
      BY <3>2, <3>3 DEF Ep0On
    <3>8. /\ OutStage' = "setup" /\ InStage' = "quiet" /\ (Ep0On => Ep0On')
          /\ ep0'.State = "Setup" /\ ep0'.StatusStarted = FALSE
          /\ ep0'.SetupPacket = ep0.SetupPacket /\ ep0'.Buffer = ep0.Buffer
      BY <3>4, <3>5, <3>6, <3>7, Ep0OutStartStages DEF Wellbehaved
    <3> QED BY <1>8, <2>1, <3>8
  <2>2. CASE ~Ep0Rearm
    <3>1. PICK S \in SUBSET Bulk : Endpoints' = EnableEndpoints(Endpoints, S) /\ UNCHANGED ep0
      <4> DEFINE enable == {n \in Bulk : Endpoints[n].Enabled} \union {}
      <4>1. enable \subseteq Bulk
        OBVIOUS
      <4>2. \E S \in ConfigOutcomes(enable) : Endpoints' = EnableEndpoints(Endpoints, S) /\ UNCHANGED ep0
        BY <2>2 DEF BusConnectDone
      <4>3. \A S \in ConfigOutcomes(enable) : S \in SUBSET Bulk
        BY <4>1 DEF ConfigOutcomes
      <4> QED BY <4>2, <4>3
    <3>2. EP0_OUT \notin S /\ EP0_IN \notin S
      BY <1>7
    <3>3. EnableEndpoints(Endpoints, S)[EP0_OUT] = Endpoints[EP0_OUT]
          /\ EnableEndpoints(Endpoints, S)[EP0_IN] = Endpoints[EP0_IN]
      BY <1>7, <3>2, Ep0Enabled
    <3>4. StagesKept
      BY <3>1, <3>3, EntriesKept
    <3> QED BY <1>3, <1>5, <1>8, <2>2, <3>1, <3>4 DEF StagesKept
  <2> QED BY <2>1, <2>2
<1>10. AskInv' /\ Waits' = FALSE /\ Looping' = FALSE /\ EventBuffer' = Tail(EventBuffer)
  <2>1. SpeedMessage(host.speed) \in MessageSet /\ SpeedMessage(host.speed).type # "Setup"
    BY PipeTypes, NoSetupMessages DEF HostViews
  <2> QED BY <1>1, <2>1, EventTakenAsk
<1> HIDE DEF o2
<1>11. PipeInv'
  BY <1>1, <1>6, <1>9, <1>10 DEF PipeInv
<1> QED BY <1>1, <1>9, <1>10, <1>11

-----------------------------------------------------------------------------
(* What the controller and the host do to the control pipe.                 *)

\* Events that they raise.
LEMMA RaisedTypes ==
    ASSUME NEW t \in EpEventTypes \union DevEventTypes, NEW n \in Eps
    PROVE  Event(t, n) \in Events /\ Event(t, n).type = t /\ Event(t, n).ep = n
<1>1. Event(t, n).type = t /\ Event(t, n).ep = n
  BY DEF Event
<1> QED BY <1>1, EventTypes

\* A completion, with or without a bus error.
LEMMA CompletionRaised ==
    ASSUME NEW n \in Eps, NEW err \in BOOLEAN, NEW e, e = [Event("complete", n) EXCEPT !.err = err]
    PROVE  e \in Events /\ e.type = "complete" /\ e.ep = n
<1>1. e.type = "complete" /\ e.ep = n
  BY DEF Event
<1> QED BY <1>1, EventTypes

\* A link state change.
LEMMA LinkRaised ==
    ASSUME NEW l \in LinkStates, NEW e, e = [Event("link", EP0_OUT) EXCEPT !.link = l]
    PROVE  e \in Events /\ e.type = "link"
<1>1. e.type = "link"
  BY DEF Event
<1> QED BY <1>1, EventTypes

\* The controller executes a TRB on EP0: the driver has hold of it, and the client
\* has nothing to answer.
LEMMA Executing ==
    ASSUME IInv, PipeInv, AskInv, NEW n \in {EP0_OUT, EP0_IN}, NEW t \in {"setup", "data", "status"},
           Endpoints[n].run = t
    PROVE  /\ Stage(Endpoints[n]) = t /\ Endpoints[n].TransferStarted
           /\ Waits = FALSE /\ client.owes = "none" /\ ~Asks(Messages)
<1>1. Stage(Endpoints[n]) # "lost" /\ n \in Eps /\ Endpoints[n] \in Endpoint
  BY NeverLost, PipeTypes, Ep0Pair DEF OutStage, InStage, EndpointTable
<1>2. Stage(Endpoints[n]) = t /\ (Endpoints[n].TransferStarted <=> Stage(Endpoints[n]) # "quiet")
  BY <1>1, StageTells
<1>3. t # "quiet"
  OBVIOUS
<1>4. ~Answerable
  BY <1>2, <1>3 DEF Answerable, OutStage, InStage
<1>5. ~Waits
  BY <1>4 DEF AskInv
<1> QED BY <1>2, <1>3, <1>5 DEF Waits

\* It is done with the TRB.
LEMMA CompletedStages ==
    ASSUME IInv, NEW n \in {EP0_OUT, EP0_IN}, Endpoints[n].TransferStarted,
           Endpoints' = Completed(Endpoints, n)
    PROVE  /\ IF n = EP0_OUT THEN OutStage' = "done" /\ InStage' = InStage
                             ELSE InStage' = "done" /\ OutStage' = OutStage
           /\ Ep0On => Ep0On'
<1>1. /\ Stage(Endpoints'[n]) = "done"
      /\ Endpoints'[n].Enabled <=> Endpoints[n].Enabled
      /\ Like(Endpoints[Ep0Other(n)], Endpoints'[Ep0Other(n)])
  <2>1. /\ Endpoints[n].TransferStarted => Stage(Completed(Endpoints, n)[n]) = "done"
        /\ Completed(Endpoints, n)[n].Enabled <=> Endpoints[n].Enabled
        /\ Like(Endpoints[Ep0Other(n)], Completed(Endpoints, n)[Ep0Other(n)])
    BY PipeTypes, Ep0Completed
  <2> QED BY <2>1
<1> QED BY <1>1, Ep0Pair DEF Like, OutStage, InStage, Ep0On, Ep0Other

\* An event of no concern to EP0 is raised.
LEMMA SameAppend ==
    ASSUME IInv, PipeInv, AskInv, Ep0Kept, StagesKept, UNCHANGED <<Messages, pc, client, host>>,
           NEW e \in Events, Neutral(e), e.type \notin {"reset", "connect"}, Raise(e)
    PROVE  PipeInv' /\ AskInv'
<1>1. AskInv' /\ Waits' = Waits /\ Looping' = Looping
  BY SameAsk DEF Waits, Looping
<1>2. PipeOk(Append(EventBuffer, e), OutStage, InStage, ep0.State, ep0.StatusStarted, Looping,
             ep0.SetupPacket, ep0.Buffer, Waits, host)
  BY PipeTypes, PipeAppend DEF PipeInv
<1> QED BY <1>1, <1>2 DEF PipeInv, Ep0Kept, StagesKept, Raise

\* Steps of the controller on bulk endpoints, and events that say nothing of EP0.
LEMMA BulkHwPipe ==
    ASSUME IInv, PipeInv, AskInv,
           \/ \E n \in Bulk : HwPayload(n)
           \/ \E n \in Bulk, err \in BOOLEAN : HwComplete(n, err)
           \/ \E l \in LinkStates : HostLink([Event("link", EP0_OUT) EXCEPT !.link = l])
           \/ HostLink(Event("wakeup", EP0_OUT))
           \/ \E n \in Eps : HwOther(n)
    PROVE  PipeInv' /\ AskInv' /\ Ep0Kept /\ StagesKept
<1>1. UNCHANGED <<ep0, Messages, pc, client, host>>
  BY DEF HwPayload, HwComplete, HostLink, HwOther, call
<1>2. Ep0Kept
  BY <1>1, PipeTypes, Ep0FieldsKept
<1>3. ASSUME NEW n \in Bulk, HwPayload(n) PROVE PipeInv' /\ AskInv' /\ Ep0Kept /\ StagesKept
  <2>1. StagesKept
    BY <1>3, BulkCallStages DEF HwPayload
  <2>2. UNCHANGED <<EventBuffer, host>> /\ Looping' = Looping
    BY <1>1, <1>3 DEF HwPayload, Looping
  <2>3. AskInv' /\ (Waits' => Waits) /\ Waits' \in BOOLEAN
    BY <1>1, <1>2, <2>1, SameAsk
  <2>4. PipeInv'
    BY <1>2, <2>1, <2>2, <2>3, SameStep
  <2> QED BY <1>2, <2>1, <2>3, <2>4
<1>4. EP0_OUT \in Eps
  BY EpsFacts
<1>5. ASSUME NEW n \in Bulk, NEW err \in BOOLEAN, HwComplete(n, err)
      PROVE  PipeInv' /\ AskInv' /\ Ep0Kept /\ StagesKept
  <2> DEFINE e == [Event("complete", n) EXCEPT !.err = err]
  <2>1. StagesKept
    BY <1>5, BulkCallStages DEF HwComplete
  <2>2. n \in Eps /\ n \notin ControlEps
    BY BulkFacts, EpsFacts DEF ControlEps, EP0_OUT, EP0_IN
  <2>3. Raise(e)
    BY <1>5 DEF HwComplete
  <2>5. e \in Events /\ e.type = "complete" /\ e.ep = n
    BY <2>2, CompletionRaised
  <2> HIDE DEF e
  <2>4. Neutral(e) /\ e.type \notin {"reset", "connect"}
    BY <2>2, <2>5 DEF Neutral, ControlEvent, Notify
  <2> QED BY <1>1, <1>2, <2>1, <2>3, <2>4, <2>5, SameAppend
<1>6. ASSUME NEW e \in Events, e.type \in {"link", "wakeup", "other"}, Raise(e), UNCHANGED Endpoints
      PROVE  PipeInv' /\ AskInv' /\ Ep0Kept /\ StagesKept
  <2>1. StagesKept
    BY <1>6, EntriesKept
  <2>2. Neutral(e) /\ e.type \notin {"reset", "connect"}
    BY <1>6 DEF Neutral, ControlEvent, Notify
  <2> QED BY <1>1, <1>2, <1>6, <2>1, <2>2, SameAppend
<1>7. ASSUME NEW l \in LinkStates, HostLink([Event("link", EP0_OUT) EXCEPT !.link = l])
      PROVE  PipeInv' /\ AskInv' /\ Ep0Kept /\ StagesKept
  <2> DEFINE e == [Event("link", EP0_OUT) EXCEPT !.link = l]
  <2>1. e \in Events /\ e.type = "link"
    BY LinkRaised
  <2>2. Raise(e) /\ UNCHANGED Endpoints
    BY <1>7 DEF HostLink
  <2> HIDE DEF e
  <2> QED BY <1>6, <2>1, <2>2
<1>8. CASE HostLink(Event("wakeup", EP0_OUT))
  <2>1. Event("wakeup", EP0_OUT) \in Events /\ Event("wakeup", EP0_OUT).type = "wakeup"
    BY <1>4, RaisedTypes DEF DevEventTypes
  <2> QED BY <1>6, <1>8, <2>1 DEF HostLink
<1>9. ASSUME NEW n \in Eps, HwOther(n) PROVE PipeInv' /\ AskInv' /\ Ep0Kept /\ StagesKept
  <2>1. Event("other", n) \in Events /\ Event("other", n).type = "other"
    BY RaisedTypes DEF EpEventTypes
  <2> QED BY <1>6, <1>9, <2>1 DEF HwOther
<1> QED BY <1>3, <1>5, <1>7, <1>8, <1>9

\* Bus reset, connection and disconnection.
LEMMA BusHwPipe ==
    ASSUME IInv, PipeInv, AskInv,
           HostReset \/ HostDisconnect \/ \E s \in HostSpeeds : HostConnectDone(s),
           host.bus = "reset" => host.phase = "idle"
    PROVE  PipeInv' /\ AskInv' /\ Ep0Kept /\ StagesKept
<1>1. UNCHANGED <<ep0, Endpoints, Messages, pc, client>>
  BY DEF HostReset, HostDisconnect, HostConnectDone, call
<1>2. Ep0Kept /\ StagesKept
  BY <1>1, PipeTypes, Ep0FieldsKept, EntriesKept
<1>3. AskInv' /\ Waits' = Waits /\ Looping' = Looping
  BY <1>1, <1>2, SameAsk DEF Waits, Looping
<1>4. \E e \in Events : /\ e.type \in {"reset", "connect", "disconnect"} /\ Raise(e)
                        /\ host'.phase = "idle" /\ (host'.bus = "up" => e.type = "connect")
  <2>1. ASSUME NEW t \in {"reset", "connect", "disconnect"}
        PROVE  Event(t, EP0_OUT) \in Events /\ Event(t, EP0_OUT).type = t
    BY EpsFacts, RaisedTypes DEF DevEventTypes
  <2>2. host \in HostViews
    BY PipeTypes
  <2>3. CASE HostReset
    BY <2>1, <2>2, <2>3 DEF HostReset, IdleHost, HostViews
  <2>4. CASE HostDisconnect
    BY <2>1, <2>2, <2>4 DEF HostDisconnect, IdleHost, HostViews
  <2>5. ASSUME NEW s \in HostSpeeds, HostConnectDone(s)
        PROVE  Raise(Event("connect", EP0_OUT)) /\ host'.phase = "idle"
    BY <2>2, <2>5 DEF HostConnectDone, HostViews
  <2> QED BY <2>1, <2>3, <2>4, <2>5
<1>5. PICK e \in Events : /\ e.type \in {"reset", "connect", "disconnect"} /\ Raise(e)
                          /\ host'.phase = "idle" /\ (host'.bus = "up" => e.type = "connect")
  BY <1>4
<1>6. Neutral(e)
  BY <1>5 DEF Neutral, ControlEvent, Notify
<1>7. PipeOk(Append(EventBuffer, e), OutStage, InStage, ep0.State, ep0.StatusStarted, Looping,
             ep0.SetupPacket, ep0.Buffer, Waits, host')
  BY <1>5, <1>6, PipeTypes, PipeBus DEF PipeInv
<1>8. PipeInv'
  BY <1>2, <1>3, <1>5, <1>7 DEF PipeInv, Ep0Kept, StagesKept, Raise
<1> QED BY <1>2, <1>3, <1>8

\* A completion on EP0 is a control event.
LEMMA CompletionEvent ==
    ASSUME NEW n \in {EP0_OUT, EP0_IN}
    PROVE  /\ Event("complete", n) \in Events /\ Event("complete", n).ep = n
           /\ ControlEvent(Event("complete", n))
<1>1. n \in Eps /\ n \in ControlEps /\ "complete" \in EpEventTypes \union DevEventTypes
  BY Ep0Pair DEF ControlEps, EpEventTypes
<1>2. /\ Event("complete", n) \in Events /\ Event("complete", n).ep = n
      /\ Event("complete", n).type = "complete"
  BY <1>1, RaisedTypes
<1> QED BY <1>1, <1>2 DEF ControlEvent

\* The data and the status stage of a request are on one direction of EP0 each.
LEMMA StageEps == \A r : DataEp(r) \in {EP0_OUT, EP0_IN} /\ StatusEp(r) \in {EP0_OUT, EP0_IN}
BY DEF DataEp, StatusEp

\* A SETUP packet arrives: EP0 OUT waits for one, and nothing is asked of the client.
LEMMA HostSetupPipe ==
    ASSUME IInv, PipeInv, AskInv, NEW r \in Requests, HostSetup(r)
    PROVE  /\ PipeInv' /\ AskInv' /\ (Ep0On => Ep0On') /\ ep0'.State = ep0.State
           /\ UNCHANGED <<pc, Started, RunStop>> /\ host'.bus = host.bus
<1> DEFINE p == [req |-> r, serial |-> host.setups + 1]
           e == Event("complete", EP0_OUT)
<1>1. /\ host.bus = "up" /\ Endpoints[EP0_OUT].run = "setup" /\ Raise(e)
      /\ host' = [host EXCEPT !.phase = IF ThreeStage(r) THEN "data" ELSE "status",
                              !.packet = p, !.notified = FALSE, !.setups = @ + 1]
      /\ ep0' = [ep0 EXCEPT !.Buffer = p, !.filled = NULL]
      /\ Endpoints' = Completed(Endpoints, EP0_OUT)
      /\ UNCHANGED <<Messages, pc, client, Started, RunStop>>
  BY DEF HostSetup, driver, call
<1>2. Stage(Endpoints[EP0_OUT]) = "setup" /\ Endpoints[EP0_OUT].TransferStarted
      /\ Waits = FALSE /\ client.owes = "none" /\ ~Asks(Messages)
  <2>1. EP0_OUT \in {EP0_OUT, EP0_IN} /\ "setup" \in {"setup", "data", "status"}
    OBVIOUS
  <2> QED BY <1>1, <2>1, Executing
<1>3. OutStage' = "done" /\ InStage' = InStage /\ (Ep0On => Ep0On')
  <2>1. EP0_OUT \in {EP0_OUT, EP0_IN}
    OBVIOUS
  <2> QED BY <1>1, <1>2, <2>1, CompletedStages
<1>4. Waits' = FALSE /\ AskInv' /\ Looping' = Looping
  <2>1. client'.owes = "none" /\ ~Asks(Messages')
    BY <1>1, <1>2 DEF Asks
  <2> QED BY <1>1, <2>1, NothingAsked DEF Looping
<1>5. /\ host'.packet = p /\ host'.bus = "up" /\ host'.phase = IF ThreeStage(p.req) THEN "data" ELSE "status"
      /\ ep0'.Buffer = p /\ ep0'.State = ep0.State /\ ep0'.StatusStarted = ep0.StatusStarted
      /\ ep0'.SetupPacket = ep0.SetupPacket
  BY <1>1, PipeTypes DEF HostViews, Ep0Fields
<1>6. e \in Events /\ e.ep = EP0_OUT /\ ControlEvent(e)
  BY CompletionEvent
<1>7. PipeOk(EventBuffer, "setup", InStage, ep0.State, ep0.StatusStarted, Looping,
             ep0.SetupPacket, ep0.Buffer, Waits, host)
  BY <1>2 DEF PipeInv, OutStage
<1> HIDE DEF p, e
<1>8. PipeOk(Append(EventBuffer, e), "done", InStage, ep0.State, ep0.StatusStarted, Looping,
             ep0.SetupPacket, p, Waits, host')
  BY <1>2, <1>5, <1>6, <1>7, PipeTypes, PipeHostSetup
<1>9. PipeInv'
  BY <1>1, <1>2, <1>3, <1>4, <1>5, <1>8 DEF PipeInv, Raise
<1> QED BY <1>1, <1>3, <1>4, <1>5, <1>9

\* The host asks for its data stage, or for its status stage.
LEMMA HostNotifies ==
    ASSUME IInv, PipeInv, AskInv, Wellbehaved,
           (\E n \in ControlEps : HostDataNotReady(n)) \/ HostStatusNotReady
    PROVE  /\ PipeInv' /\ AskInv' /\ Ep0Kept /\ StagesKept
           /\ UNCHANGED <<pc, Started, RunStop>> /\ host'.bus = host.bus
<1>1. /\ UNCHANGED <<ep0, Endpoints, Messages, pc, client, Started, RunStop>>
      /\ host' = [host EXCEPT !.notified = TRUE]
  BY DEF HostDataNotReady, HostStatusNotReady, driver, call
<1>2. Ep0Kept /\ StagesKept
  BY <1>1, PipeTypes, Ep0FieldsKept, EntriesKept
<1>3. AskInv' /\ Waits' = Waits /\ Looping' = Looping
  BY <1>1, <1>2, SameAsk DEF Waits, Looping
<1>4. host'.phase = host.phase /\ host'.packet = host.packet /\ host'.bus = host.bus
  BY <1>1, PipeTypes DEF HostViews
<1>5. PICK e \in Events : /\ Raise(e)
                          /\ \/ host.phase = "data" /\ Notify(e, "data") /\ e.ep = DataEp(host.packet.req)
                             \/ host.phase = "status" /\ Notify(e, "status") /\ e.ep = StatusEp(host.packet.req)
  <2>1. ASSUME NEW t \in {"data", "status"}, NEW n \in {EP0_OUT, EP0_IN}
        PROVE  Event(t, n) \in Events /\ Event(t, n).ep = n /\ Notify(Event(t, n), t)
    <3>1. t \in EpEventTypes \union DevEventTypes /\ n \in Eps /\ n \in ControlEps
      BY Ep0Pair DEF EpEventTypes, ControlEps
    <3>2. Event(t, n) \in Events /\ Event(t, n).ep = n /\ Event(t, n).type = t
      BY <3>1, RaisedTypes
    <3> QED BY <3>1, <3>2 DEF Notify
  <2>2. ASSUME NEW n \in ControlEps, HostDataNotReady(n)
        PROVE  Raise(Event("data", n)) /\ host.phase = "data" /\ n = DataEp(host.packet.req)
    BY <2>2 DEF HostDataNotReady, Wellbehaved, HostReq
  <2>3. CASE HostStatusNotReady
    <3>1. Raise(Event("status", StatusEp(host.packet.req))) /\ host.phase = "status"
      BY <2>3 DEF HostStatusNotReady, HostReq
    <3> QED BY <2>1, <3>1, StageEps
  <2>4. CASE \E n \in ControlEps : HostDataNotReady(n)
    BY <2>1, <2>2, <2>4, StageEps
  <2> QED BY <2>3, <2>4
<1>6. PipeOk(Append(EventBuffer, e), OutStage, InStage, ep0.State, ep0.StatusStarted, Looping,
             ep0.SetupPacket, ep0.Buffer, Waits, host')
  BY <1>4, <1>5, PipeTypes, PipeNotReady DEF PipeInv
<1>7. PipeInv'
  BY <1>2, <1>3, <1>5, <1>6 DEF PipeInv, Ep0Kept, StagesKept, Raise
<1> QED BY <1>1, <1>2, <1>3, <1>4, <1>7

\* The data stage takes place: the client submitted it, and is asked for nothing.
LEMMA HostDataPipe ==
    ASSUME IInv, PipeInv, AskInv, HostData
    PROVE  /\ PipeInv' /\ AskInv' /\ (Ep0On => Ep0On') /\ ep0.State = "Data" /\ ep0'.State = ep0.State
           /\ UNCHANGED <<pc, Started, RunStop>> /\ host'.bus = host.bus
<1> DEFINE n == DataEp(host.packet.req)
           e == Event("complete", n)
<1>1. /\ host.phase = "data" /\ Endpoints[n].run = "data" /\ Raise(e)
      /\ host' = [host EXCEPT !.phase = "status", !.notified = FALSE]
      /\ Endpoints' = Completed(Endpoints, n)
      /\ \/ UNCHANGED ep0
         \/ \E b, f : ep0' = [ep0 EXCEPT !.Buffer = b, !.filled = f]
      /\ UNCHANGED <<Messages, pc, client, Started, RunStop>>
  BY DEF HostData, HostReq, driver, call
<1>2. n \in {EP0_OUT, EP0_IN}
  BY StageEps
<1>3. e \in Events /\ e.ep = n /\ ControlEvent(e)
  BY <1>2, CompletionEvent
<1>4. host'.packet = host.packet /\ host'.bus = host.bus /\ host'.phase = "status"
  BY <1>1, PipeTypes DEF HostViews
<1> HIDE DEF e
<1>5. e.ep = DataEp(host.packet.req)
  BY <1>3
<1> HIDE DEF n
<1>6. Stage(Endpoints[n]) = "data" /\ Endpoints[n].TransferStarted
      /\ Waits = FALSE /\ client.owes = "none" /\ ~Asks(Messages)
  <2>1. "data" \in {"setup", "data", "status"}
    OBVIOUS
  <2> QED BY <1>1, <1>2, <2>1, Executing
<1>7. /\ IF n = EP0_OUT THEN OutStage' = "done" /\ InStage' = InStage
                        ELSE InStage' = "done" /\ OutStage' = OutStage
      /\ Ep0On => Ep0On'
  BY <1>1, <1>2, <1>6, CompletedStages
<1>8. Waits' = FALSE /\ AskInv' /\ Looping' = Looping
  <2>1. client'.owes = "none" /\ ~Asks(Messages')
    BY <1>1, <1>6 DEF Asks
  <2> QED BY <1>1, <2>1, NothingAsked DEF Looping
<1>9. /\ ep0'.State = ep0.State /\ ep0'.StatusStarted = ep0.StatusStarted
      /\ ep0'.SetupPacket = ep0.SetupPacket
  BY <1>1, PipeTypes DEF Ep0Fields
<1>10. Executed(e.ep, "data", OutStage, InStage, OutStage', InStage')
  BY <1>2, <1>3, <1>6, <1>7 DEF Executed, OutStage, InStage
<1>11. PipeOk(EventBuffer, OutStage, InStage, ep0.State, ep0.StatusStarted, Looping,
              ep0.SetupPacket, ep0.Buffer, Waits, host)
  BY DEF PipeInv
<1>12. /\ PipeOk(Append(EventBuffer, e), OutStage', InStage', ep0.State, ep0.StatusStarted, Looping,
                 ep0.SetupPacket, ep0'.Buffer, Waits, host')
       /\ ep0.State = "Data"
  <2>1. EventBuffer \in Seq(Events) /\ ep0.StatusStarted \in BOOLEAN /\ Looping \in BOOLEAN
    BY PipeTypes
  <2>2. host.phase = "data" /\ Waits = FALSE
    BY <1>1, <1>6
  <2>3. ep0.State = "Data"
    BY <1>10, <1>11, <2>1, <2>2, DataStage
  <2> QED BY <1>3, <1>4, <1>5, <1>10, <1>11, <2>1, <2>2, <2>3, PipeHostData
<1>13. PipeInv'
  BY <1>1, <1>6, <1>8, <1>9, <1>12 DEF PipeInv, Raise
<1> QED BY <1>1, <1>4, <1>7, <1>8, <1>9, <1>12, <1>13

\* The host skips the rest of an IN data stage.
LEMMA HostEarlyPipe ==
    ASSUME IInv, PipeInv, AskInv, HostEarlyStatus
    PROVE  /\ PipeInv' /\ AskInv' /\ Ep0Kept /\ StagesKept
           /\ UNCHANGED <<pc, Started, RunStop>> /\ host'.bus = host.bus
<1>1. /\ UNCHANGED <<EventBuffer, ep0, Endpoints, Messages, pc, client, Started, RunStop>>
      /\ host.phase = "data" /\ ExpectIn(host.packet.req) /\ "early" \in HostMay
      /\ host' = [host EXCEPT !.phase = "status", !.notified = FALSE]
  BY DEF HostEarlyStatus, HostReq, driver, call
<1>2. Ep0Kept /\ StagesKept
  BY <1>1, PipeTypes, Ep0FieldsKept, EntriesKept
<1>3. AskInv' /\ Waits' = Waits /\ Looping' = Looping
  BY <1>1, <1>2, SameAsk DEF Waits, Looping
<1>4. host'.phase = "status" /\ host'.packet = host.packet /\ host'.bus = host.bus
  BY <1>1, PipeTypes DEF HostViews
<1>5. PipeOk(EventBuffer, OutStage, InStage, ep0.State, ep0.StatusStarted, Looping,
             ep0.SetupPacket, ep0.Buffer, Waits, host')
  <2>1. EventBuffer \in Seq(Events) /\ ep0.StatusStarted \in BOOLEAN /\ Looping \in BOOLEAN
    BY PipeTypes
  <2>2. PipeOk(EventBuffer, OutStage, InStage, ep0.State, ep0.StatusStarted, Looping,
               ep0.SetupPacket, ep0.Buffer, Waits, host)
    BY DEF PipeInv
  <2>3. host.phase = "data" /\ ExpectIn(host.packet.req) /\ "early" \in HostMay
    BY <1>1
  <2>4. host'.phase = "status" /\ host'.packet = host.packet /\ host'.bus = host.bus
    BY <1>4
  <2> QED BY <2>1, <2>2, <2>3, <2>4, PipeEarly
<1>6. PipeInv'
  BY <1>1, <1>2, <1>3, <1>5 DEF PipeInv, Ep0Kept, StagesKept
<1> QED BY <1>1, <1>2, <1>3, <1>4, <1>6

\* The status stage takes place: the driver started it.
LEMMA HostStatusPipe ==
    ASSUME IInv, PipeInv, AskInv, HostStatus
    PROVE  /\ PipeInv' /\ AskInv' /\ (Ep0On => Ep0On') /\ ep0.State = "Status" /\ Ep0Kept
           /\ ep0.SetupPacket = host.packet
           /\ UNCHANGED <<pc, Started, RunStop>> /\ host'.bus = host.bus
<1> DEFINE n == StatusEp(host.packet.req)
           e == Event("complete", n)
<1>1. /\ host.phase = "status" /\ Endpoints[n].run = "status" /\ Raise(e)
      /\ \E a : host' = [IdleHost(host) EXCEPT !.addr = a]
      /\ Endpoints' = Completed(Endpoints, n)
      /\ UNCHANGED <<ep0, Messages, pc, client, Started, RunStop>>
  BY DEF HostStatus, HostReq, driver, call
<1>2. n \in {EP0_OUT, EP0_IN}
  BY StageEps
<1>3. e \in Events /\ e.ep = n /\ ControlEvent(e)
  BY <1>2, CompletionEvent
<1>4. host'.bus = host.bus /\ host'.phase = "idle"
  BY <1>1, PipeTypes DEF HostViews, IdleHost
<1> HIDE DEF e
<1>5. e.ep = StatusEp(host.packet.req)
  BY <1>3
<1> HIDE DEF n
<1>6. Stage(Endpoints[n]) = "status" /\ Endpoints[n].TransferStarted
      /\ Waits = FALSE /\ client.owes = "none" /\ ~Asks(Messages)
  <2>1. "status" \in {"setup", "data", "status"}
    OBVIOUS
  <2> QED BY <1>1, <1>2, <2>1, Executing
<1>7. /\ IF n = EP0_OUT THEN OutStage' = "done" /\ InStage' = InStage
                        ELSE InStage' = "done" /\ OutStage' = OutStage
      /\ Ep0On => Ep0On'
  BY <1>1, <1>2, <1>6, CompletedStages
<1>8. Waits' = FALSE /\ AskInv' /\ Looping' = Looping
  <2>1. client'.owes = "none" /\ ~Asks(Messages')
    BY <1>1, <1>6 DEF Asks
  <2> QED BY <1>1, <2>1, NothingAsked DEF Looping
<1>9. Ep0Kept
  BY <1>1, PipeTypes, Ep0FieldsKept
<1>10. Executed(e.ep, "status", OutStage, InStage, OutStage', InStage')
  BY <1>2, <1>3, <1>6, <1>7 DEF Executed, OutStage, InStage
<1>11. PipeOk(EventBuffer, OutStage, InStage, ep0.State, ep0.StatusStarted, Looping,
              ep0.SetupPacket, ep0.Buffer, Waits, host)
  BY DEF PipeInv
<1>12. /\ PipeOk(Append(EventBuffer, e), OutStage', InStage', ep0.State, ep0.StatusStarted, Looping,
                 ep0.SetupPacket, ep0.Buffer, Waits, host')
       /\ ep0.State = "Status" /\ ep0.SetupPacket = host.packet
  <2>1. EventBuffer \in Seq(Events) /\ ep0.StatusStarted \in BOOLEAN /\ Looping \in BOOLEAN
    BY PipeTypes
  <2>2. host.phase = "status" /\ Waits = FALSE
    BY <1>1, <1>6
  <2> QED BY <1>3, <1>4, <1>5, <1>10, <1>11, <2>1, <2>2, PipeHostStatus
<1>13. PipeInv'
  BY <1>1, <1>6, <1>8, <1>9, <1>12 DEF PipeInv, Raise, Ep0Kept
<1> QED BY <1>1, <1>4, <1>7, <1>8, <1>9, <1>12, <1>13

-----------------------------------------------------------------------------
(* Every step keeps the control pipe's invariant.                           *)

\* While the controller runs, the calls of the client.
LEMMA ClientCallPipe ==
    ASSUME IInv, PipeInv, AskInv, Ep0On, Wellbehaved, Started, RunStop, ClientCall, ~StopController
    PROVE  PipeInv' /\ AskInv' /\ Ep0On'
<1>0. "lazy" \notin ClientMay
  BY DEF Wellbehaved
<1>1. CASE StallEp0
  BY <1>1, StallPipe
<1>2. ASSUME NEW n \in ControlEps, TransferEp0(n) PROVE PipeInv' /\ AskInv' /\ Ep0On'
  BY <1>2, TransferPipe
<1>3. ASSUME NEW n \in ControlEps, TransferEp0Refused(n) PROVE FALSE
  BY <1>0, <1>3, NeverRefused
<1>4. CASE \/ \E n \in Eps : AbortTransfer(n)
           \/ \E n \in Bulk, b \in BOOLEAN : SetEndpointStallState(n, b)
           \/ \E n \in Bulk, b \in BOOLEAN : SetEndpointPolicy(n, b)
           \/ \E n \in Bulk, aligned \in BOOLEAN : TransferBulk(n, aligned)
           \/ TransferEp0TooLong
  <2>1. Ep0Kept /\ StagesKept /\ UNCHANGED <<EventBuffer, host, Messages, pc, client>>
    BY <1>0, <1>4, CallStill
  <2>2. AskInv' /\ (Waits' => Waits) /\ Waits' \in BOOLEAN /\ Looping' = Looping
    BY <2>1, SameAsk DEF Looping
  <2>3. PipeInv'
    BY <2>1, <2>2, SameStep
  <2> QED BY <2>1, <2>2, <2>3 DEF StagesKept
<1>5. ~StartController /\ ~ConfigureEnableEndpoints /\ ~ConfigureFails
  BY DEF StartController, ConfigureEnableEndpoints, ConfigureFails
<1> QED BY <1>1, <1>2, <1>3, <1>4, <1>5 DEF ClientCall

\* The EventHandler call.
LEMMA PollPipe ==
    ASSUME IInv, PipeInv, AskInv, Ep0On, Wellbehaved, Guards(EventBuffer, Rest, host.bus), Poll
    PROVE  PipeInv' /\ AskInv' /\ Ep0On'
<1>0. "lazy" \notin ClientMay
  BY DEF Wellbehaved
<1>1. CASE EventHandler
  BY <1>0, <1>1, HandlerPipe DEF StagesKept
<1>2. CASE PopMessage
  BY <1>2, PopPipe DEF StagesKept
<1>3. CASE ResetNonControlEndpoint
  BY <1>3, LoopPipe DEF StagesKept
<1>4. CASE ConfigDone
  BY <1>4, ConfigPipe DEF StagesKept
<1>5. CASE SetupAddress
  BY <1>5, AddressPipe
<1>6. CASE SetupConfig
  BY <1>6, ConfigBegins
<1>7. CASE SetupPassed
  BY <1>7, PassedPipe
<1>8. CASE Ep0DataComplete
  BY <1>8, DataTakenPipe
<1>9. CASE Ep0StatusComplete
  BY <1>9, StatusTakenPipe
<1>10. CASE Ep0DataNotReady
  BY <1>10, DataNotReadyPipe
<1>11. CASE Ep0StatusNotReady
  BY <1>11, StatusNotReadyPipe
<1>12. CASE BulkComplete \/ IgnoredEvent \/ BusDisconnect \/ LinkStatusChange \/ Wakeup
  BY <1>12, OtherEventPipe DEF StagesKept
<1>13. CASE BusReset
  BY <1>13, ResetPipe
<1>14. CASE BusConnectDone
  BY <1>14, ConnectPipe
<1> QED BY <1>1, <1>2, <1>3, <1>4, <1>5, <1>6, <1>7, <1>8, <1>9, <1>10, <1>11, <1>12, <1>13, <1>14
        DEF Poll, EndpointEvent, DeviceEvent

\* The controller and the host.
LEMMA EnvironmentPipe ==
    ASSUME IInv, PipeInv, AskInv, Ep0On, Wellbehaved, UpInv, Environment
    PROVE  PipeInv' /\ AskInv' /\ Ep0On'
<1>1. ASSUME NEW r \in Requests, HostSetup(r) PROVE PipeInv' /\ AskInv' /\ Ep0On'
  BY <1>1, HostSetupPipe
<1>2. CASE (\E n \in ControlEps : HostDataNotReady(n)) \/ HostStatusNotReady
  BY <1>2, HostNotifies DEF StagesKept
<1>3. CASE HostData
  BY <1>3, HostDataPipe
<1>4. CASE HostEarlyStatus
  BY <1>4, HostEarlyPipe DEF StagesKept
<1>5. CASE HostStatus
  BY <1>5, HostStatusPipe
<1>6. CASE \/ \E n \in Bulk : HwPayload(n)
           \/ \E n \in Bulk, err \in BOOLEAN : HwComplete(n, err)
           \/ \E l \in LinkStates : HostLink([Event("link", EP0_OUT) EXCEPT !.link = l])
           \/ HostLink(Event("wakeup", EP0_OUT))
           \/ \E n \in Eps : HwOther(n)
  BY <1>6, BulkHwPipe DEF StagesKept
<1>7. CASE HostReset \/ HostDisconnect \/ \E s \in HostSpeeds : HostConnectDone(s)
  <2>1. host.bus = "reset" => host.phase = "idle"
    BY DEF UpInv
  <2> QED BY <1>7, <2>1, BusHwPipe DEF StagesKept
<1> QED BY <1>1, <1>2, <1>3, <1>4, <1>5, <1>6, <1>7 DEF Environment, ControlPipe

\* A driver at rest stays at rest until it takes a completion on EP0, and RESET
\* brings it there.
LEMMA RestKept ==
    ASSUME IInv, Next
    PROVE  /\ Rest /\ ~(EventTaken /\ ControlEvent(Head(EventBuffer))) => Rest'
           /\ BusReset => Rest'
<1>0. ep0 \in Ep0Fields /\ (Rest <=> ep0.State = "Setup" /\ pc # "config")
  BY PipeTypes DEF Rest, AtRest, Looping
<1>1. ASSUME ep0'.State = "Setup", pc' # "config" PROVE Rest'
  BY <1>1 DEF Rest, AtRest, Looping
<1>2. \A E : Ep0OutStart(E) => ep0'.State = "Setup"
  BY <1>0 DEF Ep0OutStart, Ep0Fields
<1>3. \A E : StallAndRestart(E) => ep0'.State = "Setup"
  BY <1>2 DEF StallAndRestart
<1>4. \A q : NextEvent(q) => pc' # "config"
  BY DEF NextEvent
<1>5. BusReset => Rest'
  BY <1>0, <1>1, <1>4 DEF BusReset, Ep0Fields
<1>6. ASSUME Rest, ~(EventTaken /\ ControlEvent(Head(EventBuffer))) PROVE Rest'
  <2>0. ep0.State = "Setup" /\ pc # "config"
    BY <1>0, <1>6
  <2>1. CASE ClientCall
    <3>1. pc' # "config"
      BY <2>0, <2>1 DEF ClientCall, StartController, StopController, ConfigureEnableEndpoints, ConfigureFails,
             AbortTransfer, SetEndpointStallState, StallEp0, SetEndpointPolicy, TransferBulk, TransferEp0,
             TransferEp0TooLong, TransferEp0Refused, call
    <3>2. ASSUME UNCHANGED ep0 \/ \E x, y : ep0' \in {[ep0 EXCEPT !.Bounced = x, !.BounceTarget = y],
                                                      [ep0 EXCEPT !.Bounced = x], [ep0 EXCEPT !.State = "Setup"]}
          PROVE  ep0'.State = "Setup"
      BY <1>0, <2>0, <3>2 DEF Ep0Fields
    <3>3. \A E, n, t, ok, b : Submit(E, n, t, ok, b) => ep0'.State = "Setup"
      BY <3>2 DEF Submit
    <3>4. CASE StallEp0 \/ ConfigureEnableEndpoints
      BY <1>1, <1>2, <1>3, <3>1, <3>4 DEF StallEp0, ConfigureEnableEndpoints
    <3>5. CASE (\E n \in Bulk, aligned \in BOOLEAN : TransferBulk(n, aligned)) \/ \E n \in ControlEps : TransferEp0(n)
      BY <1>1, <3>1, <3>3, <3>5 DEF TransferBulk, TransferEp0
    <3>6. CASE \/ StartController \/ StopController \/ ConfigureFails
               \/ \E n \in Eps : AbortTransfer(n)
               \/ \E n \in Bulk, b \in BOOLEAN : SetEndpointStallState(n, b)
               \/ \E n \in Bulk, b \in BOOLEAN : SetEndpointPolicy(n, b)
               \/ TransferEp0TooLong \/ \E n \in ControlEps : TransferEp0Refused(n)
      BY <1>1, <3>1, <3>2, <3>6 DEF StartController, StopController, ConfigureFails, AbortTransfer, SetEndpointStallState,
                        SetEndpointPolicy, TransferEp0TooLong, TransferEp0Refused
    <3> QED BY <2>1, <3>4, <3>5, <3>6 DEF ClientCall
  <2>2. CASE EndpointEvent
    <3>1. CASE SetupAddress \/ SetupConfig \/ SetupPassed \/ Ep0DataComplete \/ Ep0StatusComplete
      <4>1. EventTaken /\ ControlEvent(Head(EventBuffer))
        BY <3>1 DEF SetupAddress, SetupConfig, SetupPassed, Ep0DataComplete, Ep0StatusComplete,
                    Ep0Complete, AtEvent, EventTaken, EventEp, NextEvent, ControlEvent
      <4> QED BY <1>6, <4>1
    <3>2. CASE BulkComplete \/ IgnoredEvent
      BY <1>1, <1>4, <2>0, <3>2 DEF BulkComplete, IgnoredEvent
    <3>3. CASE Ep0DataNotReady
      <4>1. (\E E : StallAndRestart(E)) \/ UNCHANGED ep0
        BY <3>3 DEF Ep0DataNotReady
      <4>2. pc' # "config"
        BY <1>4, <3>3 DEF Ep0DataNotReady
      <4> QED BY <1>1, <1>3, <2>0, <4>1, <4>2
    <3>4. CASE Ep0StatusNotReady
      BY <1>1, <1>4, <2>0, <3>4 DEF Ep0StatusNotReady, StartsStatus
    <3> QED BY <2>2, <3>1, <3>2, <3>3, <3>4 DEF EndpointEvent
  <2>3. CASE DeviceEvent
    <3>1. CASE BusDisconnect \/ LinkStatusChange \/ Wakeup
      BY <1>1, <1>4, <2>0, <3>1 DEF BusDisconnect, LinkStatusChange, Wakeup
    <3>2. CASE BusConnectDone
      <4>1. (\E E : Ep0OutStart(E)) \/ UNCHANGED ep0
        BY <3>2 DEF BusConnectDone
      <4>2. pc' # "config"
        BY <1>4, <3>2 DEF BusConnectDone
      <4> QED BY <1>1, <1>2, <2>0, <4>1, <4>2
    <3> QED BY <1>5, <2>3, <3>1, <3>2 DEF DeviceEvent
  <2>4. CASE EventHandler \/ PopMessage \/ ResetNonControlEndpoint \/ ConfigDone
    BY <1>1, <2>0, <2>4 DEF EventHandler, PopMessage, ResetNonControlEndpoint, ConfigDone, AfterConfig
  <2>5. CASE Environment
    <3>1. UNCHANGED pc
      BY <2>5 DEF Environment, ControlPipe, HostSetup, HostDataNotReady, HostData, HostEarlyStatus,
                  HostStatusNotReady, HostStatus, HwPayload, HwComplete, HostReset, HostDisconnect,
                  HostConnectDone, HostLink, HwOther, call
    <3>2. ASSUME UNCHANGED ep0 \/ \E x, y : ep0' = [ep0 EXCEPT !.Buffer = x, !.filled = y]
          PROVE  ep0'.State = "Setup"
      BY <1>0, <2>0, <3>2 DEF Ep0Fields
    <3>3. ASSUME NEW r \in Requests, HostSetup(r) PROVE ep0'.State = "Setup"
      BY <3>2, <3>3 DEF HostSetup
    <3>4. CASE HostData
      <4>1. UNCHANGED ep0 \/ \E x, y : ep0' = [ep0 EXCEPT !.Buffer = x, !.filled = y]
        BY <3>4 DEF HostData
      <4> QED BY <1>1, <2>0, <3>1, <3>2, <4>1
    <3>5. ASSUME ~HostData, \A r \in Requests : ~HostSetup(r) PROVE UNCHANGED ep0
      BY <2>5, <3>5 DEF Environment, ControlPipe, HostDataNotReady, HostEarlyStatus,
                  HostStatusNotReady, HostStatus, HwPayload, HwComplete, HostReset, HostDisconnect,
                  HostConnectDone, HostLink, HwOther
    <3> QED BY <1>1, <2>0, <3>1, <3>3, <3>4, <3>5
  <2> QED BY <2>1, <2>2, <2>3, <2>4, <2>5 DEF Next, Poll
<1> QED BY <1>5, <1>6

\* The bus is up while the host has a request, also for a stopped controller.
LEMMA ControlUp == ASSUME ControlInv PROVE UpInv
BY DEF ControlInv, UpAndRunning, Off, PipeInv, PipeOk, HostOk, UpInv

\* The running controller keeps running, or Dwc3StopController stops it.
LEMMA RunningKept ==
    ASSUME IInv, RunStop, UpAndRunning, Wellbehaved, Next
    PROVE  IF RunStop' THEN UpAndRunning' ELSE Off'
<1>1. Started /\ Ep0On /\ PipeInv /\ AskInv /\ Guards(EventBuffer, Rest, host.bus)
  BY DEF UpAndRunning
<1>2. UpInv /\ (~RunStop => EventBuffer = <<>>) /\ (RunStop => Started)
  BY <1>1, ControlUp DEF ControlInv
<1>3. (RunStop' => Started') /\ (~RunStop' => StopController) /\ (StopController => ~RunStop')
  BY <1>2, RunStopStep DEF StopController
<1>4. CASE StopController
  <2>1. OutStage # "lost" /\ InStage # "lost" /\ Endpoints \in EndpointTable
    BY <1>1, NeverLost, PipeTypes
  <2>2. Endpoints' = DisableAll(Endpoints)
    BY <1>4 DEF StopController
  <2>3. OutStage' = "quiet" /\ InStage' = "quiet"
    BY <1>1, <2>1, <2>2, Ep0Disabled DEF Ep0On, OutStage, InStage
  <2>4. host'.bus = "off" /\ host'.phase = "idle"
    <3>1. host' = [IdleHost(host) EXCEPT !.bus = "off", !.addr = 0]
      BY <1>4 DEF StopController
    <3> QED BY <3>1, PipeTypes DEF IdleHost, HostViews
  <2>5. EventBuffer' = <<>> /\ Messages' = <<>> /\ pc' = "client" /\ client'.owes = "none"
    BY <1>4 DEF StopController, call, FreshClient
  <2> QED BY <1>3, <1>4, <2>3, <2>4, <2>5 DEF Off
<1>5. CASE ~StopController
  <2>1. PipeInv' /\ AskInv' /\ Ep0On'
    <3>1. CASE ClientCall
      BY <1>1, <1>5, <3>1, ClientCallPipe
    <3>2. CASE Poll
      BY <1>1, <3>2, PollPipe
    <3>3. CASE Environment
      BY <1>1, <1>2, <3>3, EnvironmentPipe
    <3> QED BY <3>1, <3>2, <3>3 DEF Next
  <2>2. Guards(EventBuffer', Rest', host'.bus)
    <3>1. Rest \in BOOLEAN /\ Rest' \in BOOLEAN
      BY DEF Rest, AtRest
    <3>2. QueueStep
      BY <1>2, DriverQueue, EnvironmentQueue DEF Next
    <3> QED BY <1>1, <3>1, <3>2, RestKept, GuardKept
  <2> QED BY <1>3, <1>5, <2>1, <2>2 DEF UpAndRunning
<1> QED BY <1>4, <1>5

\* ConfigureEnableEndpoints starts the controller with EP0 armed and the bus off.
LEMMA RunBegins ==
    ASSUME IInv, Off, Wellbehaved, ConfigureEnableEndpoints
    PROVE  UpAndRunning'
<1> DEFINE S == ControlEps \union InterfaceEps
           E == EnableEndpoints(Endpoints, S)
<1>1. /\ Started' /\ pc' = "client" /\ Ep0OutStart(E)
      /\ UNCHANGED <<Messages, EventBuffer, host, client>>
  BY DEF ConfigureEnableEndpoints, call
<1>2. /\ Stage(Endpoints[EP0_OUT]) = "quiet" /\ Stage(Endpoints[EP0_IN]) = "quiet"
      /\ EventBuffer = <<>> /\ Messages = <<>> /\ client.owes = "none"
      /\ host.bus = "off" /\ host.phase = "idle" /\ Endpoints \in EndpointTable
  BY PipeTypes DEF Off, OutStage, InStage
<1>3. EP0_OUT \in S /\ EP0_IN \in S
  BY DEF ControlEps
<1>4. E \in EndpointTable
  BY <1>2, EnableEndpointsType
<1>5. /\ Stage(E[EP0_OUT]) = "quiet" /\ Stage(E[EP0_IN]) = "quiet"
      /\ E[EP0_OUT].Enabled /\ E[EP0_IN].Enabled
  BY <1>2, <1>3, Ep0Enabled
<1> HIDE DEF E, S
<1>6. \E ok \in StartResults(Ep0Ended(E), EP0_OUT) : Endpoints' = Ep0Armed(E, ok)
  BY <1>1 DEF Ep0OutStart
<1>7. Stage(E[EP0_OUT]) # "lost" /\ Stage(E[EP0_IN]) # "lost"
  BY <1>5
<1>8. /\ OutStage' = "setup" /\ InStage' = "quiet"
      /\ ep0'.State = "Setup" /\ ep0'.StatusStarted = FALSE
  BY <1>1, <1>4, <1>5, <1>7, Ep0OutStartStages DEF Wellbehaved
<1>9. Ep0On'
  <2>1. Ep0Ended(E) \in EndpointTable /\ Stage(Ep0Ended(E)[EP0_OUT]) = "quiet"
    BY <1>4, <1>7, Ep0ArmedStages
  <2>2. StartResults(Ep0Ended(E), EP0_OUT) = {TRUE}
    <3>1. Stage(Ep0Ended(E)[EP0_OUT]) # "lost" /\ "start" \notin CmdFails
      BY <2>1 DEF Wellbehaved
    <3> QED BY <3>1, Ep0Starts
  <2>3. Endpoints' = Ep0Armed(E, TRUE)
    BY <1>6, <2>2
  <2>4. /\ Ep0Armed(E, TRUE)[EP0_OUT].Enabled <=> E[EP0_OUT].Enabled
        /\ Ep0Armed(E, TRUE)[EP0_IN].Enabled <=> E[EP0_IN].Enabled
    BY <1>4, <1>7, Ep0ArmedStages
  <2> QED BY <1>5, <2>3, <2>4 DEF Ep0On
<1>10. ~Waits' /\ Waits' \in BOOLEAN /\ AskInv'
  <2>1. client'.owes = "none" /\ ~Asks(Messages')
    BY <1>1, <1>2 DEF Asks
  <2> QED BY <2>1, NothingAsked
<1>11. Looping' = FALSE /\ Waits' = FALSE /\ EventBuffer' = <<>> /\ host' = host
  BY <1>1, <1>2, <1>10 DEF Looping
<1>12. PipeOk(<<>>, "setup", "quiet", "Setup", FALSE, FALSE, ep0'.SetupPacket, ep0'.Buffer, FALSE, host)
  BY <1>2, PipeArm
<1>13. PipeInv'
  BY <1>8, <1>11, <1>12 DEF PipeInv
<1>14. Guards(EventBuffer', Rest', host'.bus)
  BY <1>2, <1>11 DEF Guards, ConnectsGuarded
<1> QED BY <1>1, <1>9, <1>10, <1>13, <1>14 DEF UpAndRunning

\* The stopped controller stays quiet until then.
LEMMA StoppedKept ==
    ASSUME IInv, ~RunStop, Off, Wellbehaved, Next
    PROVE  IF RunStop' THEN UpAndRunning' ELSE Off'
<1>1. /\ OutStage = "quiet" /\ InStage = "quiet" /\ EventBuffer = <<>> /\ Messages = <<>>
      /\ pc \in {"client", "pop"} /\ client.owes = "none" /\ host.bus = "off" /\ host.phase = "idle"
      /\ "lazy" \notin ClientMay /\ Endpoints \in EndpointTable
  BY PipeTypes DEF Off, Wellbehaved
<1>2. AskInv
  BY <1>1 DEF AskInv, Waits, Asks, AsksLast
<1>3. ASSUME OutStage' = "quiet", InStage' = "quiet", UNCHANGED <<EventBuffer, host, RunStop>>,
             Messages' = <<>>, pc' \in {"client", "pop"}, client'.owes = "none"
      PROVE  IF RunStop' THEN UpAndRunning' ELSE Off'
  BY <1>1, <1>3 DEF Off
<1>4. CASE StartController
  <2>1. ASSUME NEW n \in {EP0_OUT, EP0_IN} PROVE Stage(Endpoints'[n]) = "quiet"
    <3>1. n \in Eps /\ Endpoints[n] \in Endpoint
      BY <1>1, Ep0Pair DEF EndpointTable
    <3>2. Endpoints'[n] = [Endpoints[n] EXCEPT !.Enabled = FALSE, !.Stalled = FALSE,
                               !.TransferStarted = FALSE, !.run = "idle", !.id = NULL]
      BY <1>4, <3>1 DEF StartController
    <3> QED BY <3>1, <3>2 DEF Stage, Endpoint
  <2>2. /\ UNCHANGED <<RunStop, pc, host, client>> /\ Messages' = <<>> /\ EventBuffer' = <<>>
    BY <1>4 DEF StartController, call
  <2> QED BY <1>1, <1>3, <2>1, <2>2 DEF OutStage, InStage
<1>5. CASE StopController
  <2>1. ASSUME NEW n \in {EP0_OUT, EP0_IN} PROVE Stage(Endpoints'[n]) = "quiet"
    <3>1. Endpoints' = DisableAll(Endpoints) /\ Stage(Endpoints[n]) = "quiet"
      BY <1>1, <1>5 DEF StopController, OutStage, InStage
    <3> QED BY <1>1, <3>1, Ep0Disabled
  <2>2. host'.bus = "off" /\ host'.phase = "idle"
    <3>1. host' = [IdleHost(host) EXCEPT !.bus = "off", !.addr = 0]
      BY <1>5 DEF StopController
    <3> QED BY <3>1, PipeTypes DEF IdleHost, HostViews
  <2>3. /\ EventBuffer' = <<>> /\ Messages' = <<>> /\ pc' = "client" /\ client'.owes = "none"
        /\ ~RunStop'
    BY <1>5 DEF StopController, call, FreshClient
  <2> QED BY <2>1, <2>2, <2>3 DEF Off, OutStage, InStage
<1>6. CASE ConfigureEnableEndpoints
  <2>1. RunStop'
    BY <1>6 DEF ConfigureEnableEndpoints
  <2> QED BY <1>6, <2>1, RunBegins
<1>7. CASE ConfigureFails
  <2>1. \E S : Endpoints' = EnableEndpoints(Endpoints, S)
    BY <1>7 DEF ConfigureFails
  <2>2. ASSUME NEW n \in {EP0_OUT, EP0_IN} PROVE Stage(Endpoints'[n]) = "quiet"
    <3>1. Stage(Endpoints[n]) = "quiet"
      BY <1>1 DEF OutStage, InStage
    <3> QED BY <1>1, <2>1, <3>1, Ep0Enabled
  <2>3. UNCHANGED <<RunStop, pc, Messages, EventBuffer, host, client>>
    BY <1>7 DEF ConfigureFails, driver, call
  <2> QED BY <1>1, <1>3, <2>2, <2>3 DEF OutStage, InStage
<1>8. CASE \/ \E n \in Eps : AbortTransfer(n)
           \/ \E n \in Bulk, b \in BOOLEAN : SetEndpointStallState(n, b)
           \/ \E n \in Bulk, b \in BOOLEAN : SetEndpointPolicy(n, b)
           \/ \E n \in Bulk, aligned \in BOOLEAN : TransferBulk(n, aligned)
           \/ TransferEp0TooLong
  <2>1. StagesKept /\ UNCHANGED <<EventBuffer, host, Messages, pc, client, RunStop>>
    BY <1>1, <1>2, <1>8, CallStill
  <2> QED BY <1>1, <1>3, <2>1 DEF StagesKept
<1>9. ~StallEp0 /\ \A n \in ControlEps : ~TransferEp0(n) /\ ~TransferEp0Refused(n)
  <2>1. \A n : ~Answers(n)
    BY <1>1 DEF Answers, ThreeStage
  <2> QED BY <1>1, <2>1 DEF StallEp0, TransferEp0, TransferEp0Refused
<1>10. CASE EventHandler
  <2>1. EventsToTake = 0
    BY <1>1 DEF EventsToTake
  <2>2. /\ UNCHANGED <<RunStop, Endpoints, Messages, EventBuffer, host>> /\ pc' = "pop"
        /\ client' = [client EXCEPT !.owes = "none"]
    BY <1>10, <2>1 DEF EventHandler, driver
  <2>3. client'.owes = "none"
    BY <2>2, PipeTypes DEF ClientViews
  <2> QED BY <1>1, <1>3, <2>2, <2>3 DEF OutStage, InStage
<1>11. CASE PopMessage
  <2>1. UNCHANGED <<RunStop, Endpoints, Messages, EventBuffer, host, client>> /\ pc' = "client"
    BY <1>1, <1>11 DEF PopMessage, driver
  <2> QED BY <1>1, <1>3, <2>1 DEF OutStage, InStage
<1>12. ~EndpointEvent /\ ~DeviceEvent /\ ~ResetNonControlEndpoint /\ ~ConfigDone
  BY <1>1 DEF EndpointEvent, DeviceEvent, ResetNonControlEndpoint, ConfigDone, AfterConfig, BulkComplete, SetupAddress,
              SetupConfig, SetupPassed, Ep0DataComplete, Ep0StatusComplete, Ep0DataNotReady,
              Ep0StatusNotReady, IgnoredEvent, BusDisconnect, BusReset, BusConnectDone,
              LinkStatusChange, Wakeup, Ep0Complete, AtEvent
<1>13. ~Environment
  BY DEF Environment, ControlPipe, HostSetup, HostDataNotReady, HostData, HostEarlyStatus,
         HostStatusNotReady, HostStatus, HwPayload, HwComplete, HostReset, HostDisconnect,
         HostConnectDone, HostLink, HwOther, HwReady
<1> QED BY <1>4, <1>5, <1>6, <1>7, <1>8, <1>9, <1>10, <1>11, <1>12, <1>13 DEF Next, ClientCall, Poll

\* So every step keeps the invariant.
LEMMA ControlKept == ASSUME IInv, ControlInv, Wellbehaved, [Next]_vars PROVE ControlInv'
<1>1. CASE Next
  <2>1. CASE RunStop
    BY <1>1, <2>1, RunningKept DEF ControlInv
  <2>2. CASE ~RunStop
    BY <1>1, <2>2, StoppedKept DEF ControlInv
  <2> QED BY <2>1, <2>2
<1>2. CASE UNCHANGED vars
  BY <1>2 DEF vars, driver, call, ControlInv, UpAndRunning, Off, PipeInv, AskInv, Ep0On, Rest, Waits, Looping,
              OutStage, InStage, Answerable
<1> QED BY <1>1, <1>2

\* It holds at first: the controller is not started.
LEMMA ControlInit == ASSUME Init PROVE ControlInv
<1>1. /\ ~RunStop /\ EventBuffer = <<>> /\ Messages = <<>> /\ pc = "client"
      /\ client.owes = "none" /\ host.bus = "off" /\ host.phase = "idle"
  BY DEF Init, FreshClient
<1>2. OutStage = "quiet" /\ InStage = "quiet"
  BY EpsFacts DEF Init, OutStage, InStage, Stage, ZeroEndpoint
<1> QED BY <1>1, <1>2 DEF ControlInv, Off

\* What the controller does on EP0, from the stages.
LEMMA StagesTell ==
    ASSUME IInv
    PROVE  /\ OutStage \in {"setup", "data", "status"} => Endpoints[EP0_OUT].run = OutStage
           /\ OutStage = "quiet" => Endpoints[EP0_OUT].run = "idle"
           /\ InStage = "quiet" => Endpoints[EP0_IN].run = "idle"
<1>1. Endpoints[EP0_OUT] \in Endpoint /\ Endpoints[EP0_IN] \in Endpoint
  BY PipeTypes, EpsFacts DEF EndpointTable
<1> QED BY <1>1, StageTells DEF OutStage, InStage

\* For a client that answers the requests it is told of, and no others, a host
\* that keeps to the direction it announced, and commands that fail only when
\* they configure an endpoint: once the bus is up and every event is handled, a
\* host with no request in progress finds EP0 armed for its next SETUP packet,
\* unless RESET cut EP0 OUT off.  This holds whatever the order in which the
\* driver sees the client's answer, XFERNOTREADY, the completions, bus resets,
\* disconnects and restarts of the controller, and with requests the host gives
\* up early.
THEOREM Ep0Rearmed ==
    ASSUME Wellbehaved
    PROVE  Spec => []Ep0Ready
<1>1. Init => ControlInv
  BY ControlInit
<1>2. IInv /\ ControlInv /\ [Next]_vars => ControlInv'
  BY ControlKept
<1>3. IInv /\ ControlInv => Ep0Ready
  <2> SUFFICES ASSUME IInv, ControlInv, Quiescent, host.bus = "up", host.phase = "idle", ~Ep0CutOff
               PROVE  Endpoints[EP0_OUT].run = "setup" /\ Endpoints[EP0_IN].run = "idle"
    BY DEF Ep0Ready
  <2>1. PipeInv /\ EventBuffer = <<>>
    BY DEF ControlInv, Off, UpAndRunning, Quiescent
  <2>2. NoControlIn(EventBuffer) /\ ~LastConnect(EventBuffer)
    BY <2>1 DEF NoControlIn, NoControl, LastConnect
  <2>3. OutStage # "lost" /\ InStage # "lost"
    BY <2>1, NeverLost
  <2>4. OutStage = "setup" \/ (ep0.State = "Setup" /\ OutStage \in {"data", "status"})
    BY <2>1, <2>2 DEF PipeInv, PipeOk, HostOk, Ready
  <2>5. ASSUME ep0.State = "Setup", OutStage \in {"data", "status"} PROVE FALSE
    <3>1. Endpoints[EP0_OUT].TransferStarted /\ Endpoints[EP0_OUT].run # "setup"
      BY <2>3, <2>5 DEF OutStage, Stage
    <3> QED BY <2>5, <3>1 DEF Ep0CutOff
  <2>6. OutStage = "setup" /\ InStage = "quiet"
    BY <2>1, <2>4, <2>5 DEF PipeInv, PipeOk, ModeOk
  <2> QED BY <2>6, StagesTell
<1> QED BY <1>1, <1>2, <1>3, Invariance, PTL DEF Spec

\* For such a client, host and controller, if the client also starts bulk
\* transfers only after SET_CONFIG and leaves ZeroLengthTermination alone: a
\* stopped driver leaves no transfer behind in the controller.
THEOREM NothingLeftBehind ==
    ASSUME Wellbehaved, "eager" \notin ClientMay, "policy" \notin ClientMay
    PROVE  Spec => []StoppedQuiet
<1>1. Init => ControlInv /\ LostInv
  BY ControlInit, LostInit
<1>2. IInv /\ ControlInv /\ LostInv /\ [Next]_vars => ControlInv' /\ LostInv'
  BY ControlKept, LostInvKept
<1>3. IInv /\ ControlInv /\ LostInv => StoppedQuiet
  <2> SUFFICES ASSUME IInv, ControlInv, LostInv, ~Started, NEW n \in Eps PROVE Endpoints[n].run = "idle"
    BY DEF StoppedQuiet
  <2>1. ~RunStop /\ BulkIdle
    BY DEF LostInv, Calm
  <2>2. Endpoints[EP0_OUT].run = "idle" /\ Endpoints[EP0_IN].run = "idle"
    BY <2>1, StagesTell DEF ControlInv, Off
  <2>3. n \in Bulk \/ n = EP0_OUT \/ n = EP0_IN
    BY EndpointAssumption DEF Bulk, Eps, EP0_OUT, EP0_IN
  <2> QED BY <2>1, <2>2, <2>3 DEF BulkIdle
<1> QED BY <1>1, <1>2, <1>3, Invariance, PTL DEF Spec

-----------------------------------------------------------------------------
(* The device address.                                                      *)

AnyReset(q)  == \E i \in 1 .. Len(q) : q[i].type = "reset"
ResetLast(q) == \E j \in 1 .. Len(q) : q[j].type = "reset" /\ NoControl(q, j, Len(q))

\* d is the address in DCFG, h the host.  Until the driver has seen a bus reset
\* the address is stale, and the host uses 0.  A driver that handles SET_ADDRESS
\* is one stage ahead of the host.  A SETUP packet of a request the host has
\* given up lies before a reset, so the driver forgets what it takes from it.
AddressOk(q, rest, d, h) ==
    /\ AnyReset(q) \/ h.bus # "up" => h.addr = 0
    /\ h.bus = "reset" => AnyReset(q) \/ d = 0
    /\ h.bus = "up" /\ ~AnyReset(q) =>
          d = IF h.phase # "idle" /\ ~rest /\ h.packet.req = "SET_ADDRESS" THEN 1 ELSE h.addr
    /\ rest /\ ~NoControlIn(q) /\ h.bus # "off" /\ h.phase = "idle" => ResetLast(q)
AddressInv == AddressOk(EventBuffer, Rest, DevAddr, host)

\* Resets of a queue whose first event is taken,
LEMMA ResetTail ==
    ASSUME NEW q \in Seq(Events), q # <<>>
    PROVE  /\ AnyReset(Tail(q)) => AnyReset(q)
           /\ AnyReset(q) /\ q[1].type # "reset" => AnyReset(Tail(q))
           /\ ResetLast(q) /\ ~NoControlIn(Tail(q)) => ResetLast(Tail(q))
           /\ ResetLast(q) /\ ControlEvent(q[1]) => AnyReset(Tail(q))
<1> DEFINE r == Tail(q)
<1>1. /\ Len(r) = Len(q) - 1 /\ Len(q) \in Nat \ {0}
      /\ \A i \in 1 .. Len(r) : i + 1 \in 1 .. Len(q) /\ r[i] = q[i + 1]
      /\ \A i \in 1 .. Len(r) : NoControl(r, i, Len(r)) <=> NoControl(q, i + 1, Len(q))
      /\ NoControlIn(r) /\ ~ControlEvent(q[1]) <=> NoControlIn(q)
  BY ControlTail
<1> HIDE DEF r
<1>2. AnyReset(r) => AnyReset(q)
  BY <1>1 DEF AnyReset
<1>3. \A i \in 1 .. Len(q) : i = 1 \/ (i - 1 \in 1 .. Len(r) /\ r[i - 1] = q[i] /\ (i - 1) + 1 = i)
  <2> TAKE i \in 1 .. Len(q)
  <2>1. i # 1 => i - 1 \in 1 .. Len(r) /\ (i - 1) + 1 = i
    BY <1>1
  <2> QED BY <1>1, <2>1
<1>4. AnyReset(q) /\ q[1].type # "reset" => AnyReset(r)
  BY <1>3 DEF AnyReset
<1>5. ASSUME NEW j \in 1 .. Len(q), q[j].type = "reset", NoControl(q, j, Len(q))
      PROVE  /\ ~NoControlIn(r) => ResetLast(r)
             /\ ControlEvent(q[1]) => AnyReset(r)
  <2>1. CASE j = 1
    <3>1. NoControlIn(q)
      BY <1>5, <2>1 DEF NoControlIn
    <3>2. q[1].type = "reset"
      BY <1>5, <2>1
    <3> QED BY <1>1, <3>1, <3>2 DEF ControlEvent
  <2>2. CASE j # 1
    <3>1. j - 1 \in 1 .. Len(r) /\ r[j - 1] = q[j] /\ (j - 1) + 1 = j
      BY <1>3, <2>2
    <3>2. NoControl(r, j - 1, Len(r))
      BY <1>1, <1>5, <3>1
    <3> QED BY <1>5, <3>1, <3>2 DEF ResetLast, AnyReset
  <2> QED BY <2>1, <2>2
<1> QED BY <1>2, <1>4, <1>5 DEF ResetLast, r

\* and of one that grows.
LEMMA ResetAppend ==
    ASSUME NEW q \in Seq(Events), NEW e \in Events
    PROVE  /\ AnyReset(Append(q, e)) <=> AnyReset(q) \/ e.type = "reset"
           /\ ResetLast(q) /\ ~ControlEvent(e) => ResetLast(Append(q, e))
           /\ e.type = "reset" => ResetLast(Append(q, e))
           /\ ~ControlEvent(e) => (NoControlIn(Append(q, e)) <=> NoControlIn(q))
<1> DEFINE r == Append(q, e)
           n == Len(q) + 1
<1>1. /\ Len(r) = n /\ n \in 1 .. n /\ r[n] = e /\ Len(q) \in Nat
      /\ \A i \in 1 .. Len(q) : i \in 1 .. n /\ r[i] = q[i]
      /\ \A i \in 1 .. n : i = n \/ i \in 1 .. Len(q)
      /\ \A i \in 1 .. n : NoControl(r, i, n) <=> NoControl(q, i, Len(q)) /\ ~ControlEvent(e)
  <2>1. Len(r) = Len(q) + 1 /\ Len(q) \in Nat /\ r[Len(q) + 1] = e /\ \A i \in 1 .. Len(q) : r[i] = q[i]
    BY ControlAppend
  <2>2. \A i \in 1 .. (Len(q) + 1) : NoControl(r, i, Len(q) + 1) <=> NoControl(q, i, Len(q)) /\ ~ControlEvent(e)
    BY ControlAppend
  <2>3. n \in 1 .. n /\ (\A i \in 1 .. Len(q) : i \in 1 .. n) /\ \A i \in 1 .. n : i = n \/ i \in 1 .. Len(q)
    BY <2>1
  <2> QED BY <2>1, <2>2, <2>3
<1> HIDE DEF r, n
<1>2. AnyReset(r) <=> AnyReset(q) \/ e.type = "reset"
  BY <1>1 DEF AnyReset
<1>3. ResetLast(q) /\ ~ControlEvent(e) => ResetLast(r)
  BY <1>1 DEF ResetLast
<1>4. e.type = "reset" => ResetLast(r)
  <2>1. e.type = "reset" => ~ControlEvent(e)
    BY DEF ControlEvent
  <2>2. NoControl(q, n, Len(q))
    BY <1>1 DEF NoControl, n
  <2> QED BY <1>1, <2>1, <2>2 DEF ResetLast
<1>5. ~ControlEvent(e) => (NoControlIn(r) <=> NoControlIn(q))
  <2>1. 1 \in 1 .. n
    BY <1>1 DEF n
  <2> QED BY <1>1, <2>1 DEF NoControlIn
<1> QED BY <1>2, <1>3, <1>4, <1>5 DEF r

\* The host's request and address stay as they are.
SameHost ==
    /\ host'.bus = host.bus /\ host'.addr = host.addr /\ host'.packet = host.packet
    /\ host'.setups = host.setups /\ (host'.phase = "idle" <=> host.phase = "idle")

\* The event buffer stays as it is, or an event is taken or raised that neither
\* resets the bus nor brings a SETUP packet.
TakesPlain ==
    /\ EventBuffer # <<>> /\ EventBuffer' = Tail(EventBuffer) /\ EventBuffer[1].type # "reset"
    /\ Rest => ~ControlEvent(EventBuffer[1])
RaisesPlain ==
    \E e \in Events :
        /\ EventBuffer' = Append(EventBuffer, e) /\ e.type # "reset"
        /\ Rest => ~ControlEvent(e)
SameQueue == UNCHANGED EventBuffer \/ TakesPlain \/ RaisesPlain

\* A step that has no part in who knows which address.
PlainStep == UNCHANGED DevAddr /\ SameHost /\ (Rest' <=> Rest) /\ SameQueue

\* What such a step does to the event buffer.
LEMMA PlainQueue ==
    ASSUME EventBuffer \in Seq(Events), SameQueue
    PROVE  /\ AnyReset(EventBuffer') <=> AnyReset(EventBuffer)
           /\ Rest /\ ~NoControlIn(EventBuffer') => ~NoControlIn(EventBuffer)
           /\ Rest /\ ~NoControlIn(EventBuffer') /\ ResetLast(EventBuffer) => ResetLast(EventBuffer')
<1> DEFINE q == EventBuffer
<1>1. CASE TakesPlain
  <2>1. q # <<>> /\ EventBuffer' = Tail(q) /\ q[1].type # "reset" /\ (Rest => ~ControlEvent(q[1]))
    BY <1>1 DEF TakesPlain
  <2>2. Rest => (NoControlIn(Tail(q)) <=> NoControlIn(q))
    BY <2>1, ControlTail
  <2> QED BY <2>1, <2>2, ResetTail
<1>2. CASE RaisesPlain
  <2>1. PICK e \in Events : EventBuffer' = Append(q, e) /\ e.type # "reset" /\ (Rest => ~ControlEvent(e))
    BY <1>2 DEF RaisesPlain
  <2> QED BY <2>1, ResetAppend
<1>3. CASE UNCHANGED EventBuffer
  BY <1>3
<1> QED BY <1>1, <1>2, <1>3 DEF SameQueue

\* It keeps the address right.
LEMMA AddressPlain ==
    ASSUME EventBuffer \in Seq(Events), AddressInv, PlainStep
    PROVE  AddressInv'
<1>1. /\ AnyReset(EventBuffer') <=> AnyReset(EventBuffer)
      /\ Rest /\ ~NoControlIn(EventBuffer') => ~NoControlIn(EventBuffer)
      /\ Rest /\ ~NoControlIn(EventBuffer') /\ ResetLast(EventBuffer) => ResetLast(EventBuffer')
  BY PlainQueue DEF PlainStep
<1>2. DevAddr' = DevAddr /\ SameHost /\ (Rest' <=> Rest)
  BY DEF PlainStep
<1>3. AddressOk(EventBuffer, Rest, DevAddr, host)
  BY DEF AddressInv
<1>4. AddressOk(EventBuffer', Rest', DevAddr', host')
  BY <1>1, <1>2, <1>3 DEF AddressOk, SameHost
<1> QED BY <1>4 DEF AddressInv

-----------------------------------------------------------------------------
(* The order of SETUP packets.                                              *)

\* The client has seen no packet the host has not sent.  What is on its way to
\* the client, from the event buffer to the message ring, is newer than that.
Pending == Rest /\ ~NoControlIn(EventBuffer)
Asking  == Looping \/ Asks(Messages)
OrderInv ==
    /\ client.last <= host.setups
    /\ ep0.Buffer.serial <= host.setups /\ ep0.SetupPacket.serial <= host.setups
    /\ Pending => ep0.Buffer.serial > client.last
    /\ Asking => ep0.SetupPacket.serial > client.last

\* A step that leaves the packets where they are; only data that is received
\* overwrites the EP0 buffer.
OrderKept ==
    /\ client'.last = client.last /\ ep0'.SetupPacket = ep0.SetupPacket
    /\ ep0'.Buffer = ep0.Buffer \/ (ep0'.Buffer.serial = 0 /\ ~Rest)
    /\ Asking' => Asking

\* A step that leaves the packets where they are keeps their order.
LEMMA OrderPlain ==
    ASSUME IInv, OrderInv, PlainStep, OrderKept
    PROVE  OrderInv'
<1>1. Pending' => Pending /\ Rest
  <2>1. Rest' => Rest /\ (~NoControlIn(EventBuffer') => ~NoControlIn(EventBuffer))
    BY PipeTypes, PlainQueue DEF PlainStep
  <2> QED BY <2>1 DEF Pending
<1>2. host'.setups = host.setups /\ host.setups \in Nat
  BY DriverAssumption, PipeTypes DEF PlainStep, SameHost, HostViews
<1> QED BY <1>1, <1>2 DEF OrderInv, OrderKept

-----------------------------------------------------------------------------
(* Steps without a part in either.                                          *)

\* The event buffer and the host stay as they are.
LEMMA StillPlain ==
    ASSUME UNCHANGED <<DevAddr, EventBuffer, host>>, ep0'.State = ep0.State, Looping' = Looping
    PROVE  PlainStep
BY DEF PlainStep, SameHost, SameQueue, Rest

\* An event is taken.
LEMMA TakenPlain ==
    ASSUME EventBuffer # <<>>, EventBuffer' = Tail(EventBuffer), EventBuffer[1].type # "reset",
           UNCHANGED <<DevAddr, host>>, Rest => ~ControlEvent(EventBuffer[1]), Rest' <=> Rest
    PROVE  PlainStep
BY DEF PlainStep, SameHost, SameQueue, TakesPlain

\* An event is raised.
LEMMA RaisedPlain ==
    ASSUME NEW e \in Events, Raise(e), e.type # "reset", Rest => ~ControlEvent(e),
           SameHost, UNCHANGED DevAddr, ep0'.State = ep0.State, Looping' = Looping
    PROVE  PlainStep
BY DEF PlainStep, SameQueue, RaisesPlain, Raise, Rest

\* Calls of the client, but for the stall and the stop.
LEMMA ClientPlain ==
    ASSUME IInv, PipeInv, AskInv, Wellbehaved, Started, RunStop,
           ClientCall, ~StopController, ~StallEp0
    PROVE  PlainStep /\ OrderKept
<1>1. "lazy" \notin ClientMay
  BY DEF Wellbehaved
<1>2. CASE \/ \E n \in Eps : AbortTransfer(n)
           \/ \E n \in Bulk, b \in BOOLEAN : SetEndpointStallState(n, b)
           \/ \E n \in Bulk, b \in BOOLEAN : SetEndpointPolicy(n, b)
           \/ \E n \in Bulk, aligned \in BOOLEAN : TransferBulk(n, aligned)
           \/ TransferEp0TooLong
  <2>1. Ep0Kept /\ UNCHANGED <<EventBuffer, host, Messages, pc, client>>
    BY <1>1, <1>2, CallStill
  <2>2. UNCHANGED DevAddr
    BY <1>2 DEF AbortTransfer, SetEndpointStallState, SetEndpointPolicy, TransferBulk, TransferEp0TooLong, driver
  <2> QED BY <2>1, <2>2, StillPlain DEF Ep0Kept, OrderKept, Asking, Looping
<1>3. ASSUME NEW n \in ControlEps, TransferEp0(n)
      PROVE  PlainStep /\ OrderKept
  <2>1. /\ ep0'.State = ep0.State /\ UNCHANGED <<EventBuffer, host, pc>>
    BY <1>3, TransferPipe
  <2>2. /\ UNCHANGED <<driver, Messages>> /\ \E ok : client' = [client EXCEPT !.owes = IF ok THEN "none" ELSE @]
        /\ \E x, y : ep0' = [ep0 EXCEPT !.Bounced = x, !.BounceTarget = y]
    BY <1>3 DEF TransferEp0, Submit
  <2>3. Ep0Kept /\ client'.last = client.last
    BY <2>2, PipeTypes, Ep0FieldsKept DEF ClientViews
  <2> QED BY <2>1, <2>2, <2>3, StillPlain DEF Ep0Kept, OrderKept, Asking, Looping, driver
<1>4. \A n \in ControlEps : ~TransferEp0Refused(n)
  BY <1>1, NeverRefused
<1>5. ~StartController /\ ~ConfigureEnableEndpoints /\ ~ConfigureFails
  BY DEF StartController, ConfigureEnableEndpoints, ConfigureFails
<1> QED BY <1>2, <1>3, <1>4, <1>5 DEF ClientCall

\* Steps of an EventHandler call, but for the packets and resets it handles.
LEMMA HandlerPlain ==
    ASSUME IInv, PipeInv, AskInv, Wellbehaved
    PROVE  /\ EventHandler \/ ResetNonControlEndpoint \/ ConfigDone => PlainStep /\ OrderKept
           /\ PopMessage => PlainStep /\ Ep0Kept /\ ~Looping'
<1>1. CASE EventHandler
  <2>1. Ep0Kept /\ UNCHANGED <<EventBuffer, host, Messages>>
    BY <1>1, HandlerPipe DEF Wellbehaved
  <2>2. /\ pc = "client" /\ pc' \in {"pop", "events"} /\ client' = [client EXCEPT !.owes = "none"]
        /\ UNCHANGED driver
    BY <1>1 DEF EventHandler
  <2>3. Looping' = Looping /\ UNCHANGED DevAddr /\ client'.last = client.last
    BY <2>2, PipeTypes DEF Looping, driver, ClientViews
  <2> QED BY <1>1, <2>1, <2>3, StillPlain DEF Ep0Kept, OrderKept, Asking, PopMessage, EventHandler
<1>2. CASE ResetNonControlEndpoint
  <2>1. Ep0Kept /\ UNCHANGED <<EventBuffer, host>>
    BY <1>2, LoopPipe
  <2>2. UNCHANGED <<driver, pc, client>> /\ pc = "config"
    BY <1>2 DEF ResetNonControlEndpoint
  <2>3. Looping' = Looping /\ Looping /\ UNCHANGED DevAddr /\ client'.last = client.last
    BY <2>2 DEF Looping, driver
  <2> QED BY <2>1, <2>2, <2>3, StillPlain DEF Ep0Kept, OrderKept, Asking, PopMessage
<1>3. CASE ConfigDone
  <2>1. UNCHANGED <<EventBuffer, host>>
    BY <1>3, ConfigPipe
  <2>2. /\ UNCHANGED <<driver, client>> /\ pc = "config" /\ pc' = "pop"
        /\ ep0' = [ep0 EXCEPT !.State = AfterSetup(ep0.SetupPacket)]
    BY <1>3 DEF ConfigDone, AfterConfig
  <2>3. /\ ep0'.State = AfterSetup(ep0.SetupPacket) /\ ep0'.SetupPacket = ep0.SetupPacket
        /\ ep0'.Buffer = ep0.Buffer
    BY <2>2, PipeTypes DEF Ep0Fields
  <2>4. Looping /\ UNCHANGED DevAddr /\ ~Rest /\ ~Rest'
    BY <2>2, <2>3 DEF Looping, driver, Rest, AtRest, AfterSetup
  <2>5. PlainStep
    BY <2>1, <2>4 DEF PlainStep, SameHost, SameQueue
  <2> QED BY <2>2, <2>3, <2>4, <2>5 DEF OrderKept, Asking, PopMessage
<1>4. CASE PopMessage
  <2>1. Ep0Kept /\ UNCHANGED <<EventBuffer, host>>
    BY <1>4, PopPipe
  <2>2. UNCHANGED driver /\ pc = "pop" /\ pc' = "client"
    BY <1>4 DEF PopMessage
  <2>3. Looping' = Looping /\ ~Looping' /\ UNCHANGED DevAddr
    BY <2>2 DEF Looping, driver
  <2> QED BY <2>1, <2>2, <2>3, StillPlain DEF Ep0Kept, EventHandler, ResetNonControlEndpoint, ConfigDone, AfterConfig
<1> QED BY <1>1, <1>2, <1>3, <1>4

\* Events that bring neither a SETUP packet nor a reset.
LEMMA EventPlain ==
    ASSUME IInv, PipeInv, AskInv, Wellbehaved, Guards(EventBuffer, Rest, host.bus),
           \/ Ep0DataComplete \/ Ep0DataNotReady \/ Ep0StatusNotReady \/ BusConnectDone
           \/ BulkComplete \/ IgnoredEvent \/ BusDisconnect \/ LinkStatusChange \/ Wakeup
    PROVE  PlainStep /\ OrderKept
<1>0. ep0 \in Ep0Fields /\ (Rest <=> ep0.State = "Setup" /\ ~Looping)
  BY PipeTypes DEF Rest, AtRest
<1>1. pc = "events" /\ UNCHANGED <<DevAddr, host, client>>
  <2>1. pc = "events" /\ UNCHANGED <<DevAddr, client>>
    BY DEF Ep0DataComplete, Ep0DataNotReady, Ep0StatusNotReady, BusConnectDone, BulkComplete, IgnoredEvent,
           BusDisconnect, LinkStatusChange, Wakeup, Ep0Complete, AtEvent, driver
  <2>2. UNCHANGED host
    BY DataTakenPipe, DataNotReadyPipe, StatusNotReadyPipe, ConnectPipe, OtherEventPipe
  <2> QED BY <2>1, <2>2
<1>2. /\ EventBuffer # <<>> /\ ~Looping /\ \A t : AtEvent(t) <=> EventBuffer[1].type = t
      /\ EventEp = EventBuffer[1].ep
  BY <1>1, AtEventFacts
<1>3. \E m \in MessageSet : m.type # "Setup" /\ (NextEvent(Messages) \/ NextEvent(PushMessage(Messages, m)))
  <2>1. Endpoints \in EndpointTable /\ EventEp \in Eps
    <3>1. EventBuffer[1] \in Events
      BY <1>1, AtEventFacts
    <3> QED BY <1>2, <3>1, PipeTypes DEF Events
  <2>2. /\ \A t \in BusMessages : BusMessage(t) \in MessageSet /\ BusMessage(t).type # "Setup"
        /\ \A s \in Speeds : SpeedMessage(s) \in MessageSet /\ SpeedMessage(s).type # "Setup"
        /\ \A s \in Statuses : TransferResult(Endpoints, EventEp, s) \in MessageSet
                               /\ TransferResult(Endpoints, EventEp, s).type # "Setup"
    BY <2>1, NoSetupMessages
  <2>3. CASE Ep0DataComplete
    BY <2>2, <2>3 DEF Ep0DataComplete, Statuses
  <2>4. CASE Ep0DataNotReady \/ Ep0StatusNotReady \/ IgnoredEvent
    BY <2>4, SomeMessage DEF Ep0DataNotReady, Ep0StatusNotReady, IgnoredEvent
  <2>5. CASE BusConnectDone
    <3>1. host.speed \in Speeds
      BY PipeTypes DEF HostViews
    <3> QED BY <2>2, <2>5, <3>1 DEF BusConnectDone
  <2>6. CASE BulkComplete
    <3>1. ResultStatus(Head(EventBuffer).err) \in Statuses
      BY DEF ResultStatus, Statuses
    <3>2. \/ NextEvent(Messages)
          \/ NextEvent(PushMessage(Messages,
                TransferResult(Endpoints, EventEp, ResultStatus(Head(EventBuffer).err))))
      BY <2>6 DEF BulkComplete
    <3> QED BY <2>2, <3>1, <3>2, SomeMessage
  <2>7. CASE BusDisconnect
    BY <2>2, <2>7 DEF BusDisconnect, BusMessages
  <2>8. CASE LinkStatusChange
    <3>1. \E s : NextEvent(SuspendMessages(s))
      BY <2>8 DEF LinkStatusChange
    <3> QED BY <2>2, <3>1, SomeMessage DEF SuspendMessages, BusMessages
  <2>9. CASE Wakeup
    BY <2>2, <2>9 DEF Wakeup, BusMessages
  <2> QED BY <2>3, <2>4, <2>5, <2>6, <2>7, <2>8, <2>9
<1>4. ~Waits' /\ ~Looping' /\ EventBuffer' = Tail(EventBuffer)
  BY <1>1, <1>3, EventTakenAsk
<1>5. ~Asking'
  BY <1>4 DEF Asking, Waits
<1>6. EventBuffer[1].type # "reset"
  BY <1>2 DEF Ep0DataComplete, Ep0DataNotReady, Ep0StatusNotReady, BusConnectDone, BulkComplete, IgnoredEvent,
              BusDisconnect, LinkStatusChange, Wakeup, Ep0Complete, AtEvent
<1>7. Rest => ~ControlEvent(EventBuffer[1])
  <2>1. Ep0DataComplete => ~Rest
    BY <1>0 DEF Ep0DataComplete, Ep0Complete
  <2>2. BulkComplete => EventEp \notin ControlEps
    BY BulkFacts DEF BulkComplete, ControlEps, EP0_OUT, EP0_IN
  <2>3. EventBuffer[1].type = "complete" => Ep0DataComplete \/ BulkComplete
    BY <1>2 DEF Ep0DataNotReady, Ep0StatusNotReady, BusConnectDone, IgnoredEvent,
                BusDisconnect, LinkStatusChange, Wakeup, AtEvent
  <2> QED BY <1>2, <2>1, <2>2, <2>3 DEF ControlEvent
<1>8. /\ ep0'.SetupPacket = ep0.SetupPacket /\ ep0'.Buffer = ep0.Buffer
      /\ ep0'.State = "Setup" <=> ep0.State = "Setup"
  <2>1. CASE Ep0DataComplete \/ Ep0DataNotReady
           \/ BulkComplete \/ IgnoredEvent \/ BusDisconnect \/ LinkStatusChange \/ Wakeup
    <3>1. UNCHANGED ep0 \/ ep0' = [ep0 EXCEPT !.Bounced = FALSE]
      BY <2>1, DataNotReadyPipe DEF Ep0DataComplete, BulkComplete, IgnoredEvent,
                  BusDisconnect, LinkStatusChange, Wakeup
    <3> QED BY <1>0, <3>1 DEF Ep0Fields
  <2>2. CASE Ep0StatusNotReady
    <3>1. \/ UNCHANGED ep0
          \/ ep0.State # "Setup" /\ ep0' = [ep0 EXCEPT !.State = "Status", !.StatusStarted = TRUE]
      BY <2>2 DEF Ep0StatusNotReady, StartsStatus
    <3> QED BY <1>0, <3>1 DEF Ep0Fields
  <2>3. CASE BusConnectDone
    <3>1. UNCHANGED ep0 \/ \E E : Ep0OutStart(E)
      BY <2>3 DEF BusConnectDone
    <3>2. UNCHANGED ep0 \/ ep0' = [ep0 EXCEPT !.State = "Setup", !.StatusStarted = FALSE, !.Bounced = FALSE]
      BY <3>1 DEF Ep0OutStart
    <3>3. ep0.State = "Setup"
      <4>1. 1 \in 1 .. Len(EventBuffer) /\ EventBuffer[1].type = "connect"
        BY <1>2, <2>3, PipeTypes DEF BusConnectDone
      <4>2. Guarded(EventBuffer, Rest, 1)
        BY <4>1 DEF Guards, ConnectsGuarded
      <4>3. Rest
        BY <4>2 DEF Guarded
      <4> QED BY <1>0, <4>3
    <3> QED BY <1>0, <3>2, <3>3 DEF Ep0Fields
  <2> QED BY <2>1, <2>2, <2>3
<1>9. Rest' <=> Rest
  BY <1>0, <1>2, <1>4, <1>8 DEF Rest, AtRest
<1>10. PlainStep
  BY <1>1, <1>2, <1>4, <1>6, <1>7, <1>9, TakenPlain
<1> QED BY <1>1, <1>5, <1>8, <1>10 DEF OrderKept

\* Steps of the controller and the host that begin and end no request.
LEMMA HostPlain ==
    ASSUME IInv, PipeInv, AskInv, Wellbehaved,
           \/ \E n \in ControlEps : HostDataNotReady(n)
           \/ HostData \/ HostEarlyStatus \/ HostStatusNotReady
           \/ \E n \in Bulk : HwPayload(n)
           \/ \E n \in Bulk, err \in BOOLEAN : HwComplete(n, err)
           \/ \E l \in LinkStates : HostLink([Event("link", EP0_OUT) EXCEPT !.link = l])
           \/ HostLink(Event("wakeup", EP0_OUT))
           \/ \E n \in Eps : HwOther(n)
    PROVE  PlainStep /\ OrderKept
<1>0. ep0 \in Ep0Fields /\ host \in HostViews /\ (Rest <=> ep0.State = "Setup" /\ ~Looping)
  BY PipeTypes DEF Rest, AtRest
<1>1. UNCHANGED <<DevAddr, pc, Messages, client>>
  BY DEF HostDataNotReady, HostData, HostEarlyStatus, HostStatusNotReady, HwPayload, HwComplete,
         HostLink, HwOther, driver, call
<1>2. Looping' = Looping /\ (Asking' => Asking)
  BY <1>1 DEF Looping, Asking
<1>3. ep0'.State = ep0.State /\ OrderKept
  <2>1. CASE HostData
    <3>1. ep0.State = "Data"
      BY <2>1, HostDataPipe
    <3>2. \/ UNCHANGED ep0
          \/ \E r \in Requests : \E f : ep0' = [ep0 EXCEPT !.Buffer = [req |-> r, serial |-> 0], !.filled = f]
      BY <2>1 DEF HostData
    <3>3. /\ ep0'.State = ep0.State /\ ep0'.SetupPacket = ep0.SetupPacket
          /\ ep0'.Buffer = ep0.Buffer \/ ep0'.Buffer.serial = 0
      <4>1. CASE UNCHANGED ep0
        BY <4>1
      <4>2. ASSUME NEW r \in Requests, NEW f,
                   ep0' = [ep0 EXCEPT !.Buffer = [req |-> r, serial |-> 0], !.filled = f]
            PROVE  /\ ep0'.State = ep0.State /\ ep0'.SetupPacket = ep0.SetupPacket
                   /\ ep0'.Buffer = ep0.Buffer \/ ep0'.Buffer.serial = 0
        <5>1. /\ ep0'.State = ep0.State /\ ep0'.SetupPacket = ep0.SetupPacket
              /\ ep0'.Buffer = [req |-> r, serial |-> 0]
          BY <1>0, <4>2 DEF Ep0Fields
        <5>2. ep0'.Buffer.serial = 0
          BY <5>1
        <5> QED BY <5>1, <5>2
      <4> QED BY <3>2, <4>1, <4>2
    <3> QED BY <1>0, <1>1, <1>2, <3>1, <3>3 DEF OrderKept
  <2>2. CASE ~HostData
    <3>1. UNCHANGED ep0
      BY <2>2 DEF HostDataNotReady, HostEarlyStatus, HostStatusNotReady, HwPayload, HwComplete,
         HostLink, HwOther
    <3> QED BY <1>1, <1>2, <3>1 DEF OrderKept
  <2> QED BY <2>1, <2>2
<1>4. SameHost
  <2>1. \/ UNCHANGED host
        \/ host.phase # "idle" /\ host' = [host EXCEPT !.phase = "status", !.notified = FALSE]
        \/ host' = [host EXCEPT !.notified = TRUE]
    BY DEF HostDataNotReady, HostData, HostEarlyStatus, HostStatusNotReady, HwPayload, HwComplete,
           HostLink, HwOther
  <2> QED BY <1>0, <2>1 DEF HostViews, SameHost
<1>5. CASE HostEarlyStatus \/ \E n \in Bulk : HwPayload(n)
  <2>1. UNCHANGED EventBuffer
    BY <1>5 DEF HostEarlyStatus, HwPayload
  <2> QED BY <1>1, <1>2, <1>3, <1>4, <2>1 DEF PlainStep, SameQueue, Rest
<1>6. ASSUME NEW e \in Events, Raise(e), e.type # "reset", Rest => ~ControlEvent(e)
      PROVE  PlainStep
  BY <1>1, <1>2, <1>3, <1>4, <1>6, RaisedPlain
<1>7. ASSUME NEW n \in ControlEps, HostDataNotReady(n) \/ (HostStatusNotReady /\ n = StatusEp(HostReq))
      PROVE  PlainStep
  <2>1. PICK t \in {"data", "status"} : Raise(Event(t, n))
    BY <1>7 DEF HostDataNotReady, HostStatusNotReady
  <2>2. Event(t, n) \in Events /\ Event(t, n).type = t
    <3>1. t \in EpEventTypes \union DevEventTypes /\ n \in Eps
      BY EpsFacts DEF EpEventTypes, ControlEps
    <3> QED BY <3>1, RaisedTypes
  <2> QED BY <1>6, <2>1, <2>2 DEF ControlEvent
<1>8. CASE HostStatusNotReady
  <2>1. StatusEp(HostReq) \in ControlEps
    BY StageEps DEF ControlEps
  <2> QED BY <1>3, <1>7, <1>8, <2>1
<1>9. CASE HostData
  <2>1. DataEp(HostReq) \in {EP0_OUT, EP0_IN}
    BY StageEps
  <2>2. Event("complete", DataEp(HostReq)) \in Events /\ Event("complete", DataEp(HostReq)).type = "complete"
    BY <2>1, EpsFacts, RaisedTypes DEF EpEventTypes
  <2>3. Raise(Event("complete", DataEp(HostReq)))
    BY <1>9 DEF HostData
  <2>4. ~Rest
    BY <1>0, <1>9, HostDataPipe
  <2> QED BY <1>3, <1>6, <2>2, <2>3, <2>4
<1>10. ASSUME NEW n \in Bulk, NEW err \in BOOLEAN, HwComplete(n, err)
       PROVE  PlainStep
  <2> DEFINE e == [Event("complete", n) EXCEPT !.err = err]
  <2>1. n \in Eps /\ n \notin ControlEps
    BY BulkFacts, EpsFacts DEF ControlEps, EP0_OUT, EP0_IN
  <2>2. e \in Events /\ e.type = "complete" /\ e.ep = n
    BY <2>1, CompletionRaised
  <2>3. Raise(e)
    BY <1>10 DEF HwComplete
  <2> HIDE DEF e
  <2> QED BY <1>6, <2>1, <2>2, <2>3 DEF ControlEvent
<1>11. ASSUME NEW l \in LinkStates, HostLink([Event("link", EP0_OUT) EXCEPT !.link = l])
       PROVE  PlainStep
  <2> DEFINE e == [Event("link", EP0_OUT) EXCEPT !.link = l]
  <2>1. e \in Events /\ e.type = "link"
    BY LinkRaised
  <2>2. Raise(e)
    BY <1>11 DEF HostLink
  <2> HIDE DEF e
  <2> QED BY <1>6, <2>1, <2>2 DEF ControlEvent
<1>12. CASE HostLink(Event("wakeup", EP0_OUT))
  <2>1. Event("wakeup", EP0_OUT) \in Events /\ Event("wakeup", EP0_OUT).type = "wakeup"
    BY EpsFacts, RaisedTypes DEF DevEventTypes
  <2> QED BY <1>3, <1>6, <1>12, <2>1 DEF HostLink, ControlEvent
<1>13. ASSUME NEW n \in Eps, HwOther(n) PROVE PlainStep
  <2>1. Event("other", n) \in Events /\ Event("other", n).type = "other"
    BY RaisedTypes DEF EpEventTypes
  <2> QED BY <1>6, <1>13, <2>1 DEF HwOther, ControlEvent
<1> QED BY <1>3, <1>5, <1>7, <1>8, <1>9, <1>10, <1>11, <1>12, <1>13

-----------------------------------------------------------------------------
(* Steps that begin or end a request, or reset the bus.                     *)

\* The packets stay where they are, and what was on its way has arrived.
LEMMA OrderSettled ==
    ASSUME IInv, OrderInv, ~Pending', ~Asking', client'.last = client.last,
           ep0'.Buffer = ep0.Buffer, ep0'.SetupPacket = ep0.SetupPacket \/ ep0'.SetupPacket = ep0.Buffer,
           host'.setups = host.setups
    PROVE  OrderInv'
BY DEF OrderInv

\* A SETUP packet is taken from the event buffer.
LEMMA SetupKnown ==
    ASSUME IInv, PipeInv, AskInv, UpInv, AddressInv, OrderInv, SetupAddress \/ SetupConfig \/ SetupPassed
    PROVE  AddressInv' /\ OrderInv'
<1> DEFINE q == EventBuffer
<1>1. /\ Ep0Complete("Setup") /\ EventBuffer' = EventsLeft /\ UNCHANGED <<host, client>>
      /\ ep0'.SetupPacket = ep0.Buffer /\ ep0'.Buffer = ep0.Buffer
      /\ DevAddr' = IF ep0.Buffer.req = "SET_ADDRESS" THEN 1 ELSE DevAddr
      /\ ~Rest'
  <2>1. CASE SetupAddress
    <3>1. ep0'.SetupPacket = ep0.Buffer /\ ep0'.Buffer = ep0.Buffer /\ ep0'.State = "Status"
      BY <2>1, PipeTypes DEF SetupAddress, Ep0Fields
    <3> QED BY <2>1, <3>1 DEF SetupAddress, NextEvent, Rest, AtRest
  <2>2. CASE SetupConfig
    <3>1. ep0'.SetupPacket = ep0.Buffer /\ ep0'.Buffer = ep0.Buffer
      BY <2>2, PipeTypes DEF SetupConfig, Ep0Fields
    <3>2. pc' = "config" /\ ep0.Buffer.req # "SET_ADDRESS" /\ DevAddr' = DevAddr
      BY <2>2 DEF SetupConfig, driver
    <3> QED BY <2>2, <3>1, <3>2 DEF SetupConfig, Rest, AtRest, Looping
  <2>3. CASE SetupPassed
    <3>1. ep0'.SetupPacket = ep0.Buffer /\ ep0'.Buffer = ep0.Buffer /\ ep0'.State = AfterSetup(ep0.Buffer)
      BY <2>3, PipeTypes DEF SetupPassed, Ep0Fields
    <3>2. ep0.Buffer.req # "SET_ADDRESS" /\ DevAddr' = DevAddr
      BY <2>3 DEF SetupPassed, driver
    <3> QED BY <2>3, <3>1, <3>2 DEF SetupPassed, NextEvent, Rest, AtRest, AfterSetup
  <2> QED BY <2>1, <2>2, <2>3
<1>2. /\ q \in Seq(Events) /\ q # <<>> /\ EventBuffer' = Tail(q) /\ ControlEvent(q[1]) /\ Rest
  BY <1>1, CompleteFacts DEF Rest, AtRest
<1>3. q[1].type # "reset" /\ ~NoControlIn(q)
  BY <1>2, ControlTail DEF ControlEvent
<1>4. ResetLast(q) => AnyReset(Tail(q))
  BY <1>2, ResetTail
<1>5. AnyReset(Tail(q)) <=> AnyReset(q)
  BY <1>2, <1>3, ResetTail
<1>6. host.phase # "idle" => host.bus = "up" /\ ep0.Buffer = host.packet
  BY <1>2 DEF PipeInv, PipeOk, HostOk, Current, Rest
<1>7. AddressOk(q, TRUE, DevAddr, host)
  BY <1>2 DEF AddressInv
<1>8. AddressOk(Tail(q), FALSE, DevAddr', host)
  BY <1>1, <1>3, <1>4, <1>5, <1>6, <1>7 DEF AddressOk, UpInv
<1>9. AddressInv'
  <2>1. Rest' = FALSE
    BY <1>1 DEF Rest, AtRest
  <2> QED BY <1>1, <1>2, <1>8, <2>1 DEF AddressInv
<1>10. OrderInv'
  BY <1>1, <1>2, <1>3 DEF OrderInv, Pending
<1> QED BY <1>9, <1>10

\* The status stage is over for the driver; the host is done with the request.
LEMMA StatusKnown ==
    ASSUME IInv, PipeInv, AskInv, AddressInv, OrderInv, Ep0StatusComplete
    PROVE  AddressInv' /\ OrderInv'
<1> DEFINE q == EventBuffer
<1>1. /\ Ep0Complete("Status") /\ EventBuffer' = EventsLeft /\ UNCHANGED <<host, client, DevAddr>>
      /\ pc' # "config" /\ Messages' = Messages
      /\ ep0' = [ep0 EXCEPT !.State = "Setup", !.StatusStarted = FALSE, !.Bounced = FALSE]
  BY DEF Ep0StatusComplete, NextEvent, Ep0OutStart, driver
<1>2. /\ ep0'.SetupPacket = ep0.SetupPacket /\ ep0'.Buffer = ep0.Buffer /\ ep0'.State = "Setup"
  BY <1>1, PipeTypes DEF Ep0Fields
<1>3. /\ q \in Seq(Events) /\ q # <<>> /\ EventBuffer' = Tail(q) /\ ControlEvent(q[1])
      /\ ep0.State = "Status" /\ Messages = <<>>
  BY <1>1, CompleteFacts
<1>4. ~Rest /\ Rest' /\ ~Asking'
  BY <1>1, <1>2, <1>3 DEF Rest, AtRest, Asking, Looping, Asks
<1>5. q[1].type # "reset" /\ ~NoControlIn(q)
  BY <1>3, ControlTail DEF ControlEvent
<1>6. AnyReset(Tail(q)) <=> AnyReset(q)
  BY <1>3, <1>5, ResetTail
<1>7. host.phase = "idle"
  BY <1>3, <1>5 DEF PipeInv, PipeOk, HostOk
<1>8. NoControlIn(Tail(q))
  BY <1>3, ControlAlone DEF PipeInv, PipeOk, QueueOk
<1>9. AddressOk(q, FALSE, DevAddr, host)
  <2>1. Rest = FALSE
    BY <1>4 DEF Rest, AtRest
  <2> QED BY <2>1 DEF AddressInv
<1>10. AddressOk(Tail(q), TRUE, DevAddr, host)
  BY <1>6, <1>7, <1>8, <1>9 DEF AddressOk
<1>11. AddressInv'
  BY <1>1, <1>3, <1>4, <1>10 DEF AddressInv
<1>12. OrderInv'
  BY <1>1, <1>2, <1>3, <1>4, <1>8, OrderSettled DEF Pending
<1> QED BY <1>11, <1>12

\* The driver sees a bus reset: the address is 0 for both.
LEMMA ResetKnown ==
    ASSUME IInv, PipeInv, AskInv, AddressInv, OrderInv, BusReset
    PROVE  AddressInv' /\ OrderInv'
<1> DEFINE q == EventBuffer
<1>1. /\ AtEvent("reset") /\ pc = "events" /\ UNCHANGED <<host, client>> /\ DevAddr' = 0
      /\ NextEvent(PushMessage(Messages, BusMessage("Reset")))
      /\ ep0' = [ep0 EXCEPT !.State = "Setup", !.StatusStarted = FALSE, !.Bounced = FALSE]
  BY DEF BusReset, AtEvent, AddressAfterReset
<1>2. /\ ep0'.SetupPacket = ep0.SetupPacket /\ ep0'.Buffer = ep0.Buffer /\ ep0'.State = "Setup"
  BY <1>1, PipeTypes DEF Ep0Fields
<1>3. q \in Seq(Events) /\ q # <<>> /\ q[1].type = "reset" /\ Looping = FALSE
  BY <1>1, AtEventFacts
<1>4. ~Waits' /\ ~Looping' /\ EventBuffer' = Tail(q)
  <2>1. BusMessage("Reset") \in MessageSet /\ BusMessage("Reset").type # "Setup"
    BY NoSetupMessages DEF BusMessages
  <2> QED BY <1>1, <2>1, EventTakenAsk
<1>5. ~Asking' /\ Rest'
  BY <1>2, <1>4 DEF Asking, Waits, Rest, AtRest
<1>6. ~NoControlIn(Tail(q)) => ~NoControlIn(q) /\ Rest
  <2>1. ~ControlEvent(q[1]) /\ 1 \in 1 .. Len(q)
    BY <1>3 DEF ControlEvent
  <2>2. ~NoControlIn(Tail(q)) => ~NoControlIn(q)
    BY <1>3, <2>1, ControlTail
  <2>3. Rest \/ NoControl(q, 1, Len(q))
    BY <1>3, <2>1 DEF PipeInv, PipeOk, QueueOk, ResetsOk, Rest
  <2> QED BY <2>2, <2>3 DEF NoControlIn
<1>7. AnyReset(Tail(q)) => AnyReset(q)
  BY <1>3, ResetTail
<1>8. AnyReset(q)
  <2>1. 1 \in 1 .. Len(q)
    BY <1>3
  <2> QED BY <1>3, <2>1 DEF AnyReset
<1>9. ResetLast(q) /\ ~NoControlIn(Tail(q)) => ResetLast(Tail(q))
  BY <1>3, ResetTail
<1>10. AddressOk(q, Rest, DevAddr, host)
  BY DEF AddressInv
<1>11. AddressOk(Tail(q), TRUE, 0, host)
  BY <1>6, <1>7, <1>8, <1>9, <1>10 DEF AddressOk
<1>12. AddressInv'
  BY <1>1, <1>4, <1>5, <1>11 DEF AddressInv
<1>13. Pending' => Pending
  BY <1>4, <1>6 DEF Pending
<1>14. OrderInv'
  BY <1>1, <1>2, <1>5, <1>13 DEF OrderInv
<1> QED BY <1>12, <1>14

\* The client rejects the request it was told of, which is not SET_ADDRESS.
LEMMA StallKnown ==
    ASSUME IInv, PipeInv, AskInv, Wellbehaved, AddressInv, OrderInv, StallEp0
    PROVE  AddressInv' /\ OrderInv'
<1> DEFINE q == EventBuffer
<1>1. /\ pc = "client" /\ client.owes # "none" /\ StallAndRestart(Endpoints)
      /\ client' = [client EXCEPT !.owes = "none",
                       !.configured = IF client.owes = "SET_CONFIG" THEN FALSE ELSE client.configured]
      /\ UNCHANGED <<driver, Messages, EventBuffer, call>>
  BY DEF StallEp0, Wellbehaved
<1>2. host' = IdleHost(host) /\ host \in HostViews
  BY StallPipe, PipeTypes
<1>3. /\ host'.bus = host.bus /\ host'.addr = host.addr /\ host'.phase = "idle"
      /\ host'.setups = host.setups
  BY <1>2 DEF IdleHost, HostViews
<1>4. ep0' = [ep0 EXCEPT !.State = "Setup", !.StatusStarted = FALSE, !.Bounced = FALSE]
  BY <1>1 DEF StallAndRestart, Ep0OutStart
<1>5. /\ ep0'.SetupPacket = ep0.SetupPacket /\ ep0'.Buffer = ep0.Buffer /\ ep0'.State = "Setup"
  BY <1>4, PipeTypes DEF Ep0Fields
<1>6. client'.last = client.last
  BY <1>1, PipeTypes DEF ClientViews
<1>7. Answerable /\ ~Asks(Messages)
  BY <1>1 DEF AskInv, Waits
<1>8. ~Rest /\ Rest' /\ ~Asking'
  BY <1>1, <1>5, <1>7 DEF Answerable, AfterSetup, Rest, AtRest, Asking, Looping, call
<1>9. q \in Seq(Events) /\ NoControlIn(q)
  BY <1>7, PipeTypes, DoneFacts DEF PipeInv, PipeOk, Answerable
<1>10. host.phase # "idle" => host.packet.req # "SET_ADDRESS"
  BY <1>7, <1>8 DEF PipeInv, PipeOk, HostOk, Current, Rest, Answerable
<1>11. AddressOk(q, FALSE, DevAddr, host)
  <2>1. Rest = FALSE
    BY <1>8 DEF Rest, AtRest
  <2> QED BY <2>1 DEF AddressInv
<1>12. AddressOk(q, TRUE, DevAddr, host')
  BY <1>3, <1>9, <1>10, <1>11 DEF AddressOk
<1>13. AddressInv'
  BY <1>1, <1>8, <1>12 DEF AddressInv, driver
<1>14. OrderInv'
  BY <1>1, <1>3, <1>5, <1>6, <1>8, <1>9, OrderSettled DEF Pending
<1> QED BY <1>13, <1>14

\* A SETUP packet arrives: it is newer than any before, and every bus reset lies
\* before it.
LEMMA SetupSent ==
    ASSUME IInv, PipeInv, AskInv, AddressInv, OrderInv, NEW r \in Requests, HostSetup(r)
    PROVE  AddressInv' /\ OrderInv'
<1> DEFINE q == EventBuffer
           p == [req |-> r, serial |-> host.setups + 1]
           e == Event("complete", EP0_OUT)
<1>1. /\ host.bus = "up" /\ host.phase = "idle" /\ Endpoints[EP0_OUT].run = "setup" /\ Raise(e)
      /\ UNCHANGED <<DevAddr, pc, Messages, client>>
  BY DEF HostSetup, HwReady, driver, call
<1>2. /\ host'.bus = "up" /\ host'.addr = host.addr /\ host'.phase # "idle"
      /\ host'.setups = host.setups + 1
  <2>1. host' = [host EXCEPT !.phase = IF ThreeStage(r) THEN "data" ELSE "status",
                             !.packet = p, !.notified = FALSE, !.setups = host.setups + 1]
    BY DEF HostSetup
  <2> QED BY <1>1, <2>1, PipeTypes DEF HostViews
<1>3. ep0'.SetupPacket = ep0.SetupPacket /\ ep0'.State = ep0.State /\ ep0'.Buffer = p
  <2>1. ep0' = [ep0 EXCEPT !.Buffer = p, !.filled = NULL]
    BY DEF HostSetup
  <2> QED BY <2>1, PipeTypes DEF Ep0Fields
<1>4. ep0'.Buffer.serial = host.setups + 1
  BY <1>3
<1>5. q \in Seq(Events) /\ e \in Events /\ e.type # "reset" /\ EventBuffer' = Append(q, e)
  BY <1>1, PipeTypes, CompletionEvent DEF Raise, ControlEvent
<1>6. OutStage = "setup"
  <2>1. OutStage # "lost" /\ Endpoints[EP0_OUT] \in Endpoint
    BY NeverLost, PipeTypes, EpsFacts DEF EndpointTable
  <2> QED BY <1>1, <2>1 DEF OutStage, Stage, Endpoint
<1>7. Rest = TRUE /\ Rest' = TRUE
  <2>1. ep0.State = "Setup" /\ ~Looping
    BY <1>6 DEF PipeInv, PipeOk, ModeOk
  <2> QED BY <1>1, <1>3, <2>1 DEF Rest, AtRest, Looping
<1>8. AnyReset(Append(q, e)) <=> AnyReset(q)
  BY <1>5, ResetAppend
<1>9. AddressOk(q, TRUE, DevAddr, host)
  BY <1>7 DEF AddressInv
<1>10. AddressOk(Append(q, e), TRUE, DevAddr, host')
  BY <1>1, <1>2, <1>8, <1>9 DEF AddressOk
<1>11. AddressInv'
  BY <1>1, <1>5, <1>7, <1>10 DEF AddressInv
<1>12. Asking' => Asking
  BY <1>1 DEF Asking, Looping
<1>13. OrderInv'
  <2>1. host.setups \in Nat /\ client.last \in Nat /\ ep0.Buffer.serial \in Nat /\ ep0.SetupPacket.serial \in Nat
    BY DriverAssumption, PipeTypes DEF HostViews, ClientViews, Ep0Fields, Packets
  <2> QED BY <1>1, <1>2, <1>3, <1>4, <1>12, <2>1 DEF OrderInv
<1> QED BY <1>11, <1>13

\* The status stage takes place: now the host uses the address as well.
LEMMA StatusSent ==
    ASSUME IInv, PipeInv, AskInv, AddressInv, OrderInv, HostStatus
    PROVE  AddressInv' /\ OrderInv'
<1> DEFINE q == EventBuffer
           n == StatusEp(host.packet.req)
           e == Event("complete", n)
<1>1. /\ host.phase = "status" /\ Raise(e) /\ UNCHANGED <<DevAddr, ep0, pc, Messages, client>>
      /\ host' = [IdleHost(host) EXCEPT !.addr = IF host.packet.req = "SET_ADDRESS" THEN 1 ELSE host.addr]
  <2>1. IdleHost(host).addr = host.addr
    BY PipeTypes DEF IdleHost, HostViews
  <2> QED BY <2>1 DEF HostStatus, HostReq, driver, call
<1>2. /\ host'.bus = host.bus /\ host'.phase = "idle" /\ host'.setups = host.setups
      /\ host'.addr = IF host.packet.req = "SET_ADDRESS" THEN 1 ELSE host.addr
  BY <1>1, PipeTypes DEF IdleHost, HostViews
<1>3. ep0.State = "Status"
  BY HostStatusPipe
<1>4. Rest = FALSE /\ Rest' = FALSE
  BY <1>1, <1>3 DEF Rest, AtRest
<1>5. host.bus = "up" /\ BusOk(q, FALSE)
  BY <1>1, <1>4 DEF PipeInv, PipeOk, HostOk, Rest
<1>6. ~AnyReset(q)
  BY <1>5 DEF BusOk, AnyReset
<1>7. q \in Seq(Events) /\ e \in Events /\ e.type # "reset" /\ EventBuffer' = Append(q, e)
  BY <1>1, PipeTypes, StageEps, CompletionEvent DEF Raise, ControlEvent
<1>8. ~AnyReset(Append(q, e))
  BY <1>6, <1>7, ResetAppend
<1>9. AddressOk(q, FALSE, DevAddr, host)
  BY <1>4 DEF AddressInv
<1>10. AddressOk(Append(q, e), FALSE, DevAddr, host')
  BY <1>1, <1>2, <1>5, <1>6, <1>8, <1>9 DEF AddressOk
<1>11. AddressInv'
  BY <1>1, <1>4, <1>7, <1>10 DEF AddressInv
<1>12. OrderInv'
  <2>1. Asking' => Asking
    BY <1>1 DEF Asking, Looping
  <2> QED BY <1>1, <1>2, <1>4, <2>1 DEF OrderInv, Pending
<1> QED BY <1>11, <1>12

\* Bus events.
LEMMA BusSent ==
    ASSUME IInv, PipeInv, AskInv, UpInv, AddressInv, OrderInv,
           HostReset \/ HostDisconnect \/ \E s \in HostSpeeds : HostConnectDone(s)
    PROVE  AddressInv' /\ OrderInv'
<1> DEFINE q == EventBuffer
<1>1. UNCHANGED <<DevAddr, ep0, pc, Messages, client>> /\ q \in Seq(Events) /\ host \in HostViews
  BY PipeTypes DEF HostReset, HostDisconnect, HostConnectDone, driver, call
<1>2. (Rest' <=> Rest) /\ (Asking' => Asking)
  BY <1>1 DEF Rest, AtRest, Asking, Looping
<1>3. \A t \in {"reset", "connect", "disconnect"} :
          Event(t, EP0_OUT) \in Events /\ Event(t, EP0_OUT).type = t
  BY EpsFacts, RaisedTypes DEF DevEventTypes
<1>4. ASSUME NEW e \in Events, Raise(e), ~ControlEvent(e), host'.setups = host.setups
      PROVE  OrderInv'
  <2>1. EventBuffer' = Append(q, e)
    BY <1>4 DEF Raise
  <2>2. NoControlIn(q) => NoControlIn(EventBuffer')
    BY <1>1, <1>4, <2>1, ResetAppend
  <2> QED BY <1>1, <1>2, <1>4, <2>2 DEF OrderInv, Pending
<1>5. AddressOk(q, Rest, DevAddr, host)
  BY DEF AddressInv
<1>6. CASE HostReset
  <2> DEFINE e == Event("reset", EP0_OUT)
  <2>1. e \in Events /\ e.type = "reset" /\ Raise(e)
    BY <1>3, <1>6 DEF HostReset
  <2>2. host' = [IdleHost(host) EXCEPT !.bus = "reset", !.addr = 0]
    BY <1>6 DEF HostReset
  <2>3. host'.bus = "reset" /\ host'.addr = 0 /\ host'.setups = host.setups
    BY <1>1, <2>2 DEF IdleHost, HostViews
  <2> HIDE DEF e
  <2>4. EventBuffer' = Append(q, e) /\ AnyReset(EventBuffer') /\ ResetLast(EventBuffer')
    BY <1>1, <2>1, ResetAppend DEF Raise
  <2>5. AddressOk(EventBuffer', Rest', DevAddr', host')
    BY <2>3, <2>4 DEF AddressOk
  <2> QED BY <1>4, <2>1, <2>3, <2>5 DEF AddressInv, ControlEvent
<1>7. CASE HostDisconnect
  <2> DEFINE e == Event("disconnect", EP0_OUT)
  <2>1. e \in Events /\ e.type = "disconnect" /\ Raise(e)
    BY <1>3, <1>7 DEF HostDisconnect
  <2>2. host' = [IdleHost(host) EXCEPT !.bus = "off", !.addr = 0]
    BY <1>7 DEF HostDisconnect
  <2>3. host'.bus = "off" /\ host'.addr = 0 /\ host'.setups = host.setups
    BY <1>1, <2>2 DEF IdleHost, HostViews
  <2> HIDE DEF e
  <2>4. AddressOk(EventBuffer', Rest', DevAddr', host')
    BY <2>3 DEF AddressOk
  <2> QED BY <1>4, <2>1, <2>3, <2>4 DEF AddressInv, ControlEvent
<1>8. ASSUME NEW s \in HostSpeeds, HostConnectDone(s) PROVE AddressInv' /\ OrderInv'
  <2> DEFINE e == Event("connect", EP0_OUT)
  <2>1. e \in Events /\ e.type = "connect" /\ Raise(e)
    BY <1>3, <1>8 DEF HostConnectDone
  <2>2. host.bus = "reset" /\ host' = [host EXCEPT !.bus = "up", !.speed = s]
    BY <1>8 DEF HostConnectDone
  <2>3. /\ host'.bus = "up" /\ host'.addr = host.addr /\ host'.setups = host.setups
        /\ host'.phase = host.phase
    BY <1>1, <2>2 DEF HostViews
  <2> HIDE DEF e
  <2>4. ~ControlEvent(e) /\ EventBuffer' = Append(q, e)
    BY <2>1 DEF ControlEvent, Raise
  <2>5. /\ AnyReset(EventBuffer') <=> AnyReset(q)
        /\ ResetLast(q) => ResetLast(EventBuffer')
        /\ NoControlIn(EventBuffer') <=> NoControlIn(q)
    BY <1>1, <2>1, <2>4, ResetAppend
  <2>6. host.phase = "idle"
    BY <2>2 DEF UpInv
  <2>7. AddressOk(EventBuffer', Rest', DevAddr', host')
    BY <1>1, <1>2, <1>5, <2>2, <2>3, <2>5, <2>6 DEF AddressOk
  <2> QED BY <1>4, <2>1, <2>3, <2>4, <2>7 DEF AddressInv
<1> QED BY <1>6, <1>7, <1>8

\* A client remembers the last packet it was told of.
LEMMA LearnLast ==
    ASSUME NEW c \in ClientViews, NEW m, m.type = "Setup"
    PROVE  Learn(c, m).last = m.packet.serial
<1>1. Learn(c, m) = [c EXCEPT !.owes = m.packet.req, !.last = m.packet.serial,
                     !.configured = c.configured \/ m.packet.req = "SET_CONFIG"]
  BY DEF Learn
<1> QED BY <1>1 DEF ClientViews

\* The client reads a message; a SETUP packet is then the last one.
LEMMA PopOrder ==
    ASSUME IInv, PipeInv, AskInv, OrderInv, PopMessage
    PROVE  OrderInv'
<1>1. /\ Ep0Kept /\ UNCHANGED <<EventBuffer, host>> /\ ~Looping' /\ (Rest' <=> Rest)
      /\ IF Messages = <<>> THEN UNCHANGED <<Messages, client>>
         ELSE Messages' = Tail(Messages) /\ client' = Learn(client, Head(Messages))
  <2>1. pc = "pop" /\ pc' = "client"
    BY DEF PopMessage
  <2>2. Ep0Kept /\ UNCHANGED <<EventBuffer, host>>
    BY PopPipe
  <2> QED BY <2>1, <2>2 DEF PopMessage, Ep0Kept, Looping, Rest, AtRest
<1>2. Messages \in Seq(MessageSet) /\ client \in ClientViews
  BY PipeTypes
<1>3. CASE Messages = <<>>
  BY <1>1, <1>3 DEF OrderInv, Ep0Kept, Pending, Asking, Asks
<1>4. CASE Messages # <<>> /\ Head(Messages).type = "Setup"
  <2>1. 1 \in 1 .. Len(Messages) /\ Head(Messages) = Messages[1] /\ Messages' = Tail(Messages)
    BY <1>1, <1>2, <1>4
  <2>2. Asks(Messages)
    BY <1>4, <2>1 DEF Asks
  <2>3. Len(Messages) = 1 /\ Messages[1].packet = ep0.SetupPacket
    BY <1>4, <2>1 DEF AskInv, AsksLast
  <2>4. ~Asks(Messages')
    BY <1>2, <2>1, <2>3 DEF Asks
  <2>5. ~Rest
    BY <2>2 DEF AskInv, Waits, Answerable, AfterSetup, Rest, AtRest
  <2>6. client'.last = ep0.SetupPacket.serial
    <3>1. Learn(client, Messages[1]).last = Messages[1].packet.serial
      BY <1>2, <1>4, <2>1, LearnLast
    <3> QED BY <1>1, <1>4, <2>1, <2>3, <3>1
  <2> QED BY <1>1, <2>4, <2>5, <2>6 DEF OrderInv, Ep0Kept, Pending, Asking
<1>5. CASE Messages # <<>> /\ Head(Messages).type # "Setup"
  <2>1. client'.last = client.last
    BY <1>1, <1>2, <1>5 DEF Learn, ClientViews
  <2>2. Asks(Messages') => Asks(Messages)
    <3>1. Len(Messages) \in Nat \ {0} /\ Len(Messages') = Len(Messages) - 1
          /\ \A i \in 1 .. Len(Messages') : i + 1 \in 1 .. Len(Messages) /\ Messages'[i] = Messages[i + 1]
      BY <1>1, <1>2, <1>5
    <3> QED BY <3>1 DEF Asks
  <2> QED BY <1>1, <2>1, <2>2 DEF OrderInv, Ep0Kept, Pending, Asking
<1> QED BY <1>3, <1>4, <1>5

\* Every step of the running controller keeps both.
LEMMA RunningKnown ==
    ASSUME IInv, RunStop, UpAndRunning, Wellbehaved, AddressInv, OrderInv, Next
    PROVE  AddressInv' /\ OrderInv'
<1>1. /\ Started /\ PipeInv /\ AskInv /\ Guards(EventBuffer, Rest, host.bus)
      /\ EventBuffer \in Seq(Events) /\ UpInv
  BY PipeTypes, ControlUp DEF UpAndRunning, ControlInv
<1>2. ASSUME PlainStep, OrderKept PROVE AddressInv' /\ OrderInv'
  BY <1>1, <1>2, AddressPlain, OrderPlain
<1>3. CASE StopController
  <2>1. /\ host' = [IdleHost(host) EXCEPT !.bus = "off", !.addr = 0]
        /\ EventBuffer' = <<>> /\ Messages' = <<>> /\ pc' = "client" /\ ep0' = ep0
        /\ client'.last = client.last
    BY <1>3 DEF StopController, call, FreshClient
  <2>2. host'.bus = "off" /\ host'.addr = 0 /\ host'.setups = host.setups
    BY <2>1, PipeTypes DEF IdleHost, HostViews
  <2>3. AddressInv'
    BY <2>2 DEF AddressInv, AddressOk
  <2>4. ~Pending' /\ ~Asking'
    BY <2>1 DEF Pending, NoControlIn, NoControl, Asking, Asks, Looping
  <2> QED BY <2>1, <2>2, <2>3, <2>4, OrderSettled
<1>4. CASE ClientCall /\ ~StopController
  <2>1. CASE StallEp0
    BY <1>1, <2>1, StallKnown
  <2>2. CASE ~StallEp0
    BY <1>1, <1>2, <1>4, <2>2, ClientPlain
  <2> QED BY <2>1, <2>2
<1>5. CASE EndpointEvent
  <2>1. CASE SetupAddress \/ SetupConfig \/ SetupPassed
    BY <1>1, <2>1, SetupKnown
  <2>2. CASE Ep0StatusComplete
    BY <1>1, <2>2, StatusKnown
  <2>3. CASE BulkComplete \/ Ep0DataComplete \/ Ep0DataNotReady \/ Ep0StatusNotReady \/ IgnoredEvent
    BY <1>1, <1>2, <2>3, EventPlain
  <2> QED BY <1>5, <2>1, <2>2, <2>3 DEF EndpointEvent
<1>6. CASE DeviceEvent
  <2>1. CASE BusReset
    BY <1>1, <2>1, ResetKnown
  <2>2. CASE BusDisconnect \/ BusConnectDone \/ LinkStatusChange \/ Wakeup
    BY <1>1, <1>2, <2>2, EventPlain
  <2> QED BY <1>6, <2>1, <2>2 DEF DeviceEvent
<1>7. CASE EventHandler \/ ResetNonControlEndpoint \/ ConfigDone
  BY <1>1, <1>2, <1>7, HandlerPlain
<1>8. CASE PopMessage
  BY <1>1, <1>8, HandlerPlain, AddressPlain, PopOrder
<1>9. CASE Environment
  <2>1. ASSUME NEW r \in Requests, HostSetup(r) PROVE AddressInv' /\ OrderInv'
    BY <1>1, <2>1, SetupSent
  <2>2. CASE HostStatus
    BY <1>1, <2>2, StatusSent
  <2>3. CASE HostReset \/ HostDisconnect \/ \E s \in HostSpeeds : HostConnectDone(s)
    BY <1>1, <2>3, BusSent
  <2>4. CASE \/ \E n \in ControlEps : HostDataNotReady(n)
             \/ HostData \/ HostEarlyStatus \/ HostStatusNotReady
             \/ \E n \in Bulk : HwPayload(n)
             \/ \E n \in Bulk, err \in BOOLEAN : HwComplete(n, err)
             \/ \E l \in LinkStates : HostLink([Event("link", EP0_OUT) EXCEPT !.link = l])
             \/ HostLink(Event("wakeup", EP0_OUT))
             \/ \E n \in Eps : HwOther(n)
    BY <1>1, <1>2, <2>4, HostPlain
  <2> QED BY <1>9, <2>1, <2>2, <2>3, <2>4 DEF Environment, ControlPipe
<1> QED BY <1>3, <1>4, <1>5, <1>6, <1>7, <1>8, <1>9 DEF Next, Poll

\* Without a bus the host uses address 0, and no packet is on its way.
LEMMA StoppedKnown ==
    ASSUME IInv, ~RunStop, Off, AddressInv, OrderInv, Wellbehaved, Next,
           RunStop' => EventBuffer' = <<>> /\ Messages' = <<>> /\ pc' = "client" /\ UNCHANGED host,
           ~RunStop' => Off'
    PROVE  AddressInv' /\ OrderInv'
<1>1. /\ pc \in {"client", "pop"} /\ client.owes = "none" /\ EventBuffer = <<>> /\ Messages = <<>>
      /\ host.bus = "off" /\ host.addr = 0 /\ host \in HostViews
  BY PipeTypes DEF Off, AddressInv, AddressOk
<1>2. EventBuffer' = <<>> /\ Messages' = <<>> /\ pc' \in {"client", "pop"}
  BY DEF Off
<1>3. ~Pending' /\ ~Asking'
  BY <1>2 DEF Pending, NoControlIn, NoControl, Asking, Asks, Looping
<1>4. ~EndpointEvent /\ ~DeviceEvent /\ ~ResetNonControlEndpoint /\ ~ConfigDone
  BY <1>1 DEF EndpointEvent, DeviceEvent, ResetNonControlEndpoint, ConfigDone, AfterConfig, BulkComplete, SetupAddress,
              SetupConfig, SetupPassed, Ep0DataComplete, Ep0StatusComplete, Ep0DataNotReady,
              Ep0StatusNotReady, IgnoredEvent, BusDisconnect, BusReset, BusConnectDone,
              LinkStatusChange, Wakeup, Ep0Complete, AtEvent
<1>5. ~Environment
  BY DEF Environment, ControlPipe, HostSetup, HostDataNotReady, HostData, HostEarlyStatus,
         HostStatusNotReady, HostStatus, HwPayload, HwComplete, HostReset, HostDisconnect,
         HostConnectDone, HostLink, HwOther, HwReady
<1>6. ASSUME host'.bus = "off", host'.addr = 0, host'.setups = host.setups, client'.last = client.last,
             ep0'.Buffer = ep0.Buffer, ep0'.SetupPacket = ep0.SetupPacket
      PROVE  AddressInv' /\ OrderInv'
  BY <1>3, <1>6, OrderSettled DEF AddressInv, AddressOk
<1>7. ASSUME UNCHANGED host, client'.last = client.last,
             UNCHANGED ep0 \/ \E x, y, s, t : ep0' \in
                {[ep0 EXCEPT !.Bounced = x, !.BounceTarget = y], [ep0 EXCEPT !.Bounced = x],
                 [ep0 EXCEPT !.State = s], [ep0 EXCEPT !.State = s, !.StatusStarted = t, !.Bounced = x]}
      PROVE  AddressInv' /\ OrderInv'
  <2>1. ep0'.Buffer = ep0.Buffer /\ ep0'.SetupPacket = ep0.SetupPacket
    BY <1>7, PipeTypes DEF Ep0Fields
  <2> QED BY <1>1, <1>6, <1>7, <2>1
<1>8. CASE StopController
  <2>1. host' = [IdleHost(host) EXCEPT !.bus = "off", !.addr = 0] /\ ep0' = ep0 /\ client'.last = client.last
    BY <1>8 DEF StopController, FreshClient
  <2>2. host'.bus = "off" /\ host'.addr = 0 /\ host'.setups = host.setups
    BY <1>1, <2>1 DEF IdleHost, HostViews
  <2> QED BY <1>6, <2>1, <2>2
<1>9. CASE StartController
  BY <1>7, <1>9 DEF StartController
<1>10. CASE ConfigureEnableEndpoints
  BY <1>7, <1>10 DEF ConfigureEnableEndpoints, Ep0OutStart
<1>11. CASE \E n \in Bulk, aligned \in BOOLEAN : TransferBulk(n, aligned)
  BY <1>7, <1>11 DEF TransferBulk, Submit
<1>12. CASE \/ ConfigureFails
            \/ \E n \in Eps : AbortTransfer(n)
            \/ \E n \in Bulk, b \in BOOLEAN : SetEndpointStallState(n, b)
            \/ \E n \in Bulk, b \in BOOLEAN : SetEndpointPolicy(n, b)
            \/ TransferEp0TooLong
  BY <1>7, <1>12 DEF ConfigureFails, AbortTransfer, SetEndpointStallState, SetEndpointPolicy, TransferEp0TooLong
<1>13. CASE EventHandler
  <2>1. client' = [client EXCEPT !.owes = "none"] /\ UNCHANGED <<ep0, host>>
    BY <1>13 DEF EventHandler
  <2>2. client'.last = client.last
    BY <2>1, PipeTypes DEF ClientViews
  <2> QED BY <1>7, <2>1, <2>2
<1>14. CASE PopMessage
  BY <1>1, <1>7, <1>14 DEF PopMessage
<1>15. ~StallEp0 /\ \A n \in ControlEps : ~TransferEp0(n) /\ ~TransferEp0Refused(n)
  <2>1. \A n : ~Answers(n)
    BY <1>1 DEF Answers, ThreeStage, Wellbehaved
  <2> QED BY <1>1, <2>1 DEF Wellbehaved, StallEp0, TransferEp0, TransferEp0Refused
<1> QED BY <1>4, <1>5, <1>8, <1>9, <1>10, <1>11, <1>12, <1>13, <1>14, <1>15 DEF Next, ClientCall, Poll

\* Only Dwc3ConfigureEnableEndpoints starts the controller.
LEMMA StartsRunning == ASSUME Next, ~RunStop, RunStop' PROVE ConfigureEnableEndpoints
<1>1. CASE ClientCall
  BY <1>1
     DEF ClientCall, StartController, StopController, ConfigureEnableEndpoints, ConfigureFails,
         AbortTransfer, SetEndpointStallState, StallEp0, SetEndpointPolicy, TransferBulk, TransferEp0,
         TransferEp0TooLong, TransferEp0Refused, driver
<1>2. CASE Poll
  BY <1>2
     DEF Poll, EventHandler, EndpointEvent, BulkComplete, SetupAddress, SetupConfig, SetupPassed,
         Ep0DataComplete, Ep0StatusComplete, Ep0DataNotReady, Ep0StatusNotReady, IgnoredEvent,
         DeviceEvent, BusDisconnect, BusReset, BusConnectDone, LinkStatusChange, Wakeup,
         ResetNonControlEndpoint, ConfigDone, AfterConfig, PopMessage, driver
<1>3. CASE Environment
  BY <1>3
     DEF Environment, ControlPipe, HostSetup, HostDataNotReady, HostData, HostEarlyStatus,
         HostStatusNotReady, HostStatus, HwPayload, HwComplete, HostReset, HostDisconnect,
         HostConnectDone, HostLink, HwOther, driver
<1> QED BY <1>1, <1>2, <1>3 DEF Next

\* The address and the order are right after every step,
LEMMA BothKept ==
    ASSUME IInv, ControlInv, AddressInv, OrderInv, Wellbehaved, [Next]_vars
    PROVE  AddressInv' /\ OrderInv'
<1>1. CASE Next /\ RunStop
  BY <1>1, RunningKnown DEF ControlInv
<1>2. CASE Next /\ ~RunStop
  <2>1. Off
    BY <1>2 DEF ControlInv
  <2>2. ~RunStop' => Off'
    BY <1>2, ControlKept DEF ControlInv
  <2>3. ASSUME RunStop' PROVE EventBuffer' = <<>> /\ Messages' = <<>> /\ pc' = "client" /\ UNCHANGED host
    <3>1. ConfigureEnableEndpoints
      BY <1>2, <2>1, <2>3, StartsRunning
    <3> QED BY <2>1, <3>1 DEF ConfigureEnableEndpoints, Off, call
  <2> QED BY <1>2, <2>1, <2>2, <2>3, StoppedKnown
<1>3. CASE UNCHANGED vars
  BY <1>3 DEF vars, driver, call, AddressInv, OrderInv, Pending, Asking, Rest, Looping
<1> QED BY <1>1, <1>2, <1>3

\* and at first, with no bus and no packet.
LEMMA BothInit == ASSUME Init PROVE AddressInv /\ OrderInv
<1>1. /\ host.bus = "off" /\ host.addr = 0 /\ host.setups = 0 /\ client.last = 0
      /\ ep0.Buffer.serial = 0 /\ ep0.SetupPacket.serial = 0
      /\ EventBuffer = <<>> /\ Messages = <<>> /\ pc = "client"
  BY DEF Init, FreshClient, ZeroPacket
<1>2. ~Pending /\ ~Asking
  BY <1>1 DEF Pending, NoControlIn, NoControl, Asking, Asks, Looping
<1> QED BY <1>1, <1>2 DEF AddressInv, AddressOk, OrderInv

\* For such a client, host and controller: once the bus is up and every event is
\* handled, the address in DCFG is the one a host without a request uses.  The
\* driver writes DCFG a stage before the host uses the new address, and clears it
\* when it sees the reset; a SETUP packet the host gave up before that reset, and
\* a SET_ADDRESS that never reaches its status stage, leave no wrong address.
THEOREM AddressKnown ==
    ASSUME Wellbehaved
    PROVE  Spec => []AddressAgrees
<1>1. Init => ControlInv /\ AddressInv /\ OrderInv
  BY ControlInit, BothInit
<1>2. IInv /\ ControlInv /\ AddressInv /\ OrderInv /\ [Next]_vars => ControlInv' /\ AddressInv' /\ OrderInv'
  BY ControlKept, BothKept
<1>3. AddressInv => AddressAgrees
  <2> SUFFICES ASSUME AddressInv, Quiescent, host.bus = "up", host.phase = "idle" PROVE DevAddr = host.addr
    BY DEF AddressAgrees
  <2>1. ~AnyReset(EventBuffer)
    BY DEF Quiescent, AnyReset
  <2> QED BY <2>1 DEF AddressInv, AddressOk
<1> QED BY <1>1, <1>2, <1>3, Invariance, PTL DEF Spec

\* For such a client, host and controller: the client receives each SETUP packet
\* at most once and in the order in which the host sent them, whatever the data
\* of OUT requests that overwrites the EP0 buffer, and whatever resets, stalls
\* and restarts come between.
THEOREM PacketsInOrder ==
    ASSUME Wellbehaved
    PROVE  Spec => SetupOrder
<1> DEFINE Step == pc = "pop" /\ pc' = "client" /\ Messages # <<>> /\ Head(Messages).type = "Setup"
                      => Head(Messages).packet.serial > client.last
<1>1. Init => ControlInv /\ AddressInv /\ OrderInv
  BY ControlInit, BothInit
<1>2. IInv /\ ControlInv /\ AddressInv /\ OrderInv /\ [Next]_vars => ControlInv' /\ AddressInv' /\ OrderInv'
  BY ControlKept, BothKept
<1>3. IInv /\ ControlInv /\ OrderInv => [Step]_vars
  <2> SUFFICES ASSUME IInv, ControlInv, OrderInv, Messages # <<>>, Head(Messages).type = "Setup"
               PROVE  Head(Messages).packet.serial > client.last
    OBVIOUS
  <2>1. AskInv
    BY DEF ControlInv, Off, UpAndRunning
  <2>2. 1 \in 1 .. Len(Messages) /\ Head(Messages) = Messages[1]
    BY PipeTypes
  <2>3. Asking /\ Messages[1].packet = ep0.SetupPacket
    BY <2>1, <2>2 DEF Asking, Asks, AskInv, AsksLast
  <2> QED BY <2>2, <2>3 DEF OrderInv
<1> QED BY <1>1, <1>2, <1>3, Invariance, PTL DEF Spec, SetupOrder

-----------------------------------------------------------------------------
(* The data of a control request is where it belongs before the client      *)
(* hears that its transfer is complete.                                     *)

\* The controller runs a transfer on one endpoint, with its TRB.
RunsWith(S, n, type, id) ==
    /\ S[n].run = type /\ S[n].id = id
    /\ TrbOf(S, n) = [type |-> type, hwo |-> TRUE]

\* A transfer that has been started is the one the controller runs, and its TRB
\* is the one it was given.
LEMMA StartedTransfer ==
    ASSUME NEW E \in EndpointTable, NEW n \in Eps, NEW type \in TrbTypes, NEW id \in Buffers
    PROVE  RunsWith(StartTransfer(E, n, type, id, TRUE), n, type, id)
<1> DEFINE trb == [type |-> type, hwo |-> TRUE]
           F == EndTransfer(E, n)
           G == WithTrb(F, n, trb)
<1>1. F \in EndpointTable /\ Pool(n) \in Eps
  BY EndTransferType, EpsFacts
<1>2. trb \in Trbs
  BY DEF Trbs
<1> HIDE DEF F, trb
<1>3. ASSUME NEW e \in Endpoint PROVE [e EXCEPT !.Trb = trb] \in Endpoint /\ [e EXCEPT !.Trb = trb].Trb = trb
  BY <1>2 DEF Endpoint
<1>4. G \in EndpointTable /\ G[Pool(n)].Trb = trb
  BY <1>1, <1>3 DEF WithTrb, EndpointTable
<1> HIDE DEF G
<1>5. StartTransfer(E, n, type, id, TRUE) = [G EXCEPT ![n] = Running(G[n], type, id)]
  BY DEF StartTransfer, F, G, trb
<1>6. ASSUME NEW e \in Endpoint
      PROVE  Running(e, type, id).run = type /\ Running(e, type, id).id = id /\ Running(e, type, id).Trb = e.Trb
  BY DEF Running, Endpoint
<1>7. ASSUME NEW S, S = [G EXCEPT ![n] = Running(G[n], type, id)]
      PROVE  S[n].run = type /\ S[n].id = id /\ S[Pool(n)].Trb = trb
  <2>1. S[n] = Running(G[n], type, id) /\ G[n] \in Endpoint
    BY <1>4, <1>7 DEF EndpointTable
  <2>2. S[Pool(n)].Trb = G[Pool(n)].Trb
    <3>1. CASE Pool(n) = n
      BY <1>6, <2>1, <3>1
    <3>2. CASE Pool(n) # n
      BY <1>1, <1>4, <1>7, <3>2 DEF EndpointTable
    <3> QED BY <3>1, <3>2
  <2> QED BY <1>4, <1>6, <2>1, <2>2
<1> QED BY <1>5, <1>7 DEF RunsWith, TrbOf, trb

\* What the controller has executed keeps the buffer it was passed.
LEMMA CompletedBuffers ==
    ASSUME NEW E \in EndpointTable, NEW n \in Eps, NEW m \in Eps
    PROVE  Completed(E, n)[m].TransferBuffer = E[m].TransferBuffer
<1> DEFINE F == [E EXCEPT ![Pool(n)] = Released(E[Pool(n)])]
<1>1. ASSUME NEW e \in Endpoint
      PROVE  Released(e) \in Endpoint /\ Released(e).TransferBuffer = e.TransferBuffer
             /\ Idled(e).TransferBuffer = e.TransferBuffer
  BY DEF Released, Idled, Endpoint, Trbs
<1>2. F \in EndpointTable /\ F[m].TransferBuffer = E[m].TransferBuffer
  BY <1>1, EpsFacts DEF EndpointTable
<1>3. Completed(E, n) = [F EXCEPT ![n] = Idled(F[n])]
  BY DEF Completed
<1> HIDE DEF F
<1>4. Completed(E, n)[m] \in {F[m], Idled(F[m])} /\ F[m] \in Endpoint
  BY <1>2, <1>3 DEF EndpointTable
<1> QED BY <1>1, <1>2, <1>4

\* IN data is moved from the buffer the client passed (L are the buffers whose
\* data has been moved).  OUT data is received in the bounce buffer, which the
\* driver (x are its EP0 fields) will copy to the buffer the client passed.
InMoved(e, L) ==
    /\ Stage(e) = "data" => e.id = e.TransferBuffer
    /\ Stage(e) = "done" => e.TransferBuffer \in L
OutMoved(e, x) ==
    /\ Stage(e) \in {"data", "done"} => x.Bounced /\ x.BounceTarget = e.TransferBuffer
    /\ Stage(e) = "data" => e.id = e.TransferBuffer
    /\ Stage(e) = "done" => x.filled = e.TransferBuffer
MovedInv ==
    ep0.State = "Data" =>
        InMoved(Endpoints[EP0_IN], xfers.landed) /\ OutMoved(Endpoints[EP0_OUT], ep0)

\* No data stage is under way, or a step does nothing to it.
Settled == ep0.State # "Data" \/ (OutStage = "quiet" /\ InStage = "quiet")
Unmoved == EntriesSame /\ UNCHANGED ep0

\* Calls of the client other than the transfer on EP0 itself; a bulk transfer
\* would clear Ep0Bounced.
LEMMA ClientSettled ==
    ASSUME IInv, UpAndRunning, Wellbehaved, "bulk" \notin ClientMay, RunStop, ClientCall, RunStop',
           \A n \in ControlEps : ~TransferEp0(n)
    PROVE  Settled' \/ Unmoved
<1>0. "lazy" \notin ClientMay /\ PipeInv /\ AskInv /\ Started
  BY DEF Wellbehaved, UpAndRunning
<1>1. CASE StallEp0
  BY <1>0, <1>1, StallPipe DEF Settled
<1>2. ASSUME NEW n \in ControlEps, TransferEp0Refused(n) PROVE FALSE
  BY <1>0, <1>2, NeverRefused
<1>3. CASE TransferEp0TooLong
  <2>1. StagesKept
    BY <1>0, <1>3, CallStill
  <2>2. Answerable
    BY <1>0, <1>3, PromptAnswer DEF TransferEp0TooLong
  <2> QED BY <2>1, <2>2 DEF Settled, StagesKept, Answerable
<1>4. ASSUME NEW n \in Eps, AbortTransfer(n) PROVE Unmoved
  <2>1. n \in Bulk
    <3>1. n \notin ControlEps
      BY <1>0, <1>4 DEF AbortTransfer
    <3> QED BY <3>1, EndpointAssumption DEF ControlEps, Eps, Bulk, EP0_OUT, EP0_IN
  <2>2. Endpoints' = [EndTransfer(Endpoints, n) EXCEPT ![n].TransferBuffer = NULL] /\ UNCHANGED ep0
    BY <1>4 DEF AbortTransfer
  <2>3. EntriesSame
    BY <2>1, <2>2, BulkCallStages
  <2> QED BY <2>2, <2>3 DEF Unmoved
<1>5. ASSUME NEW n \in Bulk, NEW b \in BOOLEAN, SetEndpointStallState(n, b) PROVE Unmoved
  <2>1. (\E ok : Endpoints' = SetHalt(Endpoints, n, b, ok)) /\ UNCHANGED ep0
    BY <1>5 DEF SetEndpointStallState
  <2>2. EntriesSame
    BY <2>1, BulkCallStages
  <2> QED BY <2>1, <2>2 DEF Unmoved
<1>6. ASSUME NEW n \in Bulk, NEW b \in BOOLEAN, SetEndpointPolicy(n, b) PROVE Unmoved
  <2>1. Endpoints' = [Endpoints EXCEPT ![n].ZeroLengthTermination = b] /\ UNCHANGED ep0
    BY <1>6 DEF SetEndpointPolicy
  <2>2. EntriesSame
    BY <2>1, BulkCallStages
  <2> QED BY <2>1, <2>2 DEF Unmoved
<1>7. /\ ~StartController /\ ~StopController /\ ~ConfigureEnableEndpoints /\ ~ConfigureFails
      /\ \A n \in Bulk, aligned \in BOOLEAN : ~TransferBulk(n, aligned)
  BY <1>0 DEF StartController, StopController, ConfigureEnableEndpoints, ConfigureFails, TransferBulk
<1> QED BY <1>1, <1>2, <1>3, <1>4, <1>5, <1>6, <1>7 DEF ClientCall

\* The EventHandler call: every event ends the data stage or leaves it alone.
LEMMA PollSettled ==
    ASSUME IInv, UpAndRunning, Wellbehaved, Poll
    PROVE  Settled' \/ Unmoved
<1>0. PipeInv /\ AskInv /\ Guards(EventBuffer, Rest, host.bus) /\ ep0 \in Ep0Fields
  BY PipeTypes DEF UpAndRunning
<1>1. CASE EventHandler \/ PopMessage
  BY <1>1 DEF EventHandler, PopMessage, Unmoved, EntriesSame
<1>2. CASE ResetNonControlEndpoint
  <2>1. Index \in Bulk
    BY <1>2, EndpointAssumption DEF ResetNonControlEndpoint, IInv, TypeOK, QueueInv, Bulk
  <2>2. (\E ok : Endpoints' = Reconfigure(Endpoints, Index, ok)) /\ UNCHANGED ep0
    BY <1>2 DEF ResetNonControlEndpoint
  <2>3. EntriesSame
    BY <2>1, <2>2, BulkCallStages
  <2> QED BY <2>2, <2>3 DEF Unmoved
<1>3. CASE ConfigDone
  <2>1. StagesKept
    BY <1>0, <1>3, ConfigPipe
  <2>2. Looping
    BY <1>3 DEF ConfigDone, AfterConfig, Looping
  <2>3. OutStage = "quiet" /\ InStage = "quiet"
    BY <1>0, <2>2 DEF PipeInv, PipeOk, ModeOk
  <2> QED BY <2>1, <2>3 DEF Settled, StagesKept
<1>4. CASE SetupAddress
  <2>1. ep0' = [ep0 EXCEPT !.SetupPacket = ep0.Buffer, !.State = "Status"]
    BY <1>4 DEF SetupAddress
  <2> QED BY <1>0, <2>1 DEF Settled, Ep0Fields
<1>5. CASE SetupConfig
  <2>1. ep0' = [ep0 EXCEPT !.SetupPacket = ep0.Buffer] /\ ep0.State = "Setup"
    BY <1>5 DEF SetupConfig, Ep0Complete
  <2> QED BY <1>0, <2>1 DEF Settled, Ep0Fields
<1>6. CASE SetupPassed
  <2>1. Ep0Complete("Setup") /\ Endpoints' = Ep0Taken
    BY <1>6 DEF SetupPassed
  <2>2. FALSE \in BOOLEAN
    OBVIOUS
  <2>3. OutStage' = "quiet" /\ InStage' = "quiet"
    BY <1>0, <2>1, <2>2, SetupTaken
  <2> QED BY <2>3 DEF Settled
<1>7. CASE Ep0DataComplete
  BY <1>0, <1>7, DataTakenPipe DEF Settled
<1>8. CASE Ep0StatusComplete
  <2>1. \E E : Ep0OutStart(E)
    BY <1>8 DEF Ep0StatusComplete
  <2>2. ep0' = [ep0 EXCEPT !.State = "Setup", !.StatusStarted = FALSE, !.Bounced = FALSE]
    BY <2>1 DEF Ep0OutStart
  <2> QED BY <1>0, <2>2 DEF Settled, Ep0Fields
<1>9. CASE Ep0DataNotReady
  BY <1>0, <1>9, DataNotReadyPipe DEF Unmoved, EntriesSame
<1>10. CASE Ep0StatusNotReady
  <2>1. ep0' = [ep0 EXCEPT !.State = "Status", !.StatusStarted = TRUE] \/ UNCHANGED <<Endpoints, ep0>>
    BY <1>10 DEF Ep0StatusNotReady
  <2> QED BY <1>0, <2>1 DEF Settled, Ep0Fields, Unmoved, EntriesSame
<1>11. CASE BulkComplete \/ IgnoredEvent \/ BusDisconnect \/ LinkStatusChange \/ Wakeup
  BY <1>0, <1>11, OtherEventPipe DEF Unmoved
<1>12. CASE BusReset
  BY <1>0, <1>12, ResetPipe DEF Settled
<1>13. CASE BusConnectDone
  <2>1. pc = "events" /\ AtEvent("connect") /\ (UNCHANGED ep0 \/ \E E : Ep0OutStart(E))
    BY <1>13 DEF BusConnectDone, AtEvent
  <2>2. 1 \in 1 .. Len(EventBuffer) /\ EventBuffer[1].type = "connect"
    BY <1>0, <2>1, AtEventFacts
  <2>3. Guarded(EventBuffer, Rest, 1)
    BY <1>0, <2>2 DEF Guards, ConnectsGuarded
  <2>4. ep0.State = "Setup"
    BY <2>3 DEF Guarded, Rest, AtRest
  <2>5. ep0' = ep0 \/ ep0' = [ep0 EXCEPT !.State = "Setup", !.StatusStarted = FALSE, !.Bounced = FALSE]
    BY <2>1 DEF Ep0OutStart
  <2>6. ep0'.State = "Setup"
    BY <1>0, <2>4, <2>5 DEF Ep0Fields
  <2> QED BY <2>6 DEF Settled
<1> QED BY <1>1, <1>2, <1>3, <1>4, <1>5, <1>6, <1>7, <1>8, <1>9, <1>10, <1>11, <1>12, <1>13
        DEF Poll, EndpointEvent, DeviceEvent

\* The controller and the host, but for the data stage itself.
LEMMA HostSettled ==
    ASSUME IInv, UpAndRunning, Environment, ~HostData
    PROVE  Settled' \/ Unmoved
<1>0. PipeInv /\ AskInv /\ ep0 \in Ep0Fields
  BY PipeTypes DEF UpAndRunning
<1>1. ASSUME NEW r \in Requests, HostSetup(r) PROVE Settled'
  <2>1. Endpoints[EP0_OUT].run = "setup" /\ "setup" \in {"setup", "data", "status"} /\ EP0_OUT \in {EP0_OUT, EP0_IN}
    BY <1>1 DEF HostSetup
  <2>2. OutStage = "setup"
    BY <1>0, <2>1, Executing DEF OutStage
  <2>3. ep0.State = "Setup"
    BY <1>0, <2>2 DEF PipeInv, PipeOk, ModeOk
  <2>4. ep0'.State = ep0.State
    BY <1>0, <1>1, HostSetupPipe
  <2> QED BY <2>3, <2>4 DEF Settled
<1>2. ASSUME NEW n \in Bulk, HwPayload(n) PROVE Unmoved
  <2>1. Endpoints' = PayloadMoved(Endpoints, n) /\ UNCHANGED ep0
    BY <1>2 DEF HwPayload
  <2>2. EntriesSame
    BY <2>1, BulkCallStages
  <2> QED BY <2>1, <2>2 DEF Unmoved
<1>3. ASSUME NEW n \in Bulk, NEW err \in BOOLEAN, HwComplete(n, err) PROVE Unmoved
  <2>1. Endpoints' = Completed(Endpoints, n) /\ UNCHANGED ep0
    BY <1>3 DEF HwComplete
  <2>2. EntriesSame
    BY <2>1, BulkCallStages
  <2> QED BY <2>1, <2>2 DEF Unmoved
<1>4. CASE HostStatus
  <2>1. ep0.State = "Status"
    BY <1>0, <1>4, HostStatusPipe
  <2>2. UNCHANGED ep0
    BY <1>4 DEF HostStatus
  <2> QED BY <2>1, <2>2 DEF Settled
<1> QED BY <1>1, <1>2, <1>3, <1>4
        DEF Environment, ControlPipe, HostDataNotReady, HostEarlyStatus, HostStatusNotReady, HostReset,
            HostDisconnect, HostConnectDone, HostLink, HwOther, Unmoved, EntriesSame

\* The client submits the data stage: into the controller goes its buffer, or the
\* bounce buffer on its behalf.
LEMMA TransferMoves ==
    ASSUME IInv, UpAndRunning, Wellbehaved, NEW n \in ControlEps, TransferEp0(n)
    PROVE  MovedInv'
<1> DEFINE F == EndTransfer(Endpoints, n)
           b == xfers.next
           G == StartTransfer(F, n, "data", b, TRUE)
<1>1. PipeInv /\ AskInv /\ Endpoints \in EndpointTable /\ ep0 \in Ep0Fields
  BY PipeTypes DEF UpAndRunning
<1>2. /\ IF n = EP0_OUT THEN OutStage' = "data" /\ InStage' = "quiet"
                        ELSE OutStage' = "quiet" /\ InStage' = "data"
      /\ Submit(F, n, "data", TRUE, n = EP0_OUT)
  BY <1>1, TransferPipe
<1>3. n \in {EP0_OUT, EP0_IN} /\ n \in Eps /\ F \in EndpointTable /\ "data" \in TrbTypes
  BY <1>1, ControlEpsFacts, EndTransferType DEF ControlEps, TrbTypes
<1>4. b \in Buffers
  <2>1. b \in 1 .. (MaxXfers + 1) /\ MaxXfers \in Nat /\ b <= MaxXfers
    BY EndpointAssumption DEF IInv, TypeOK, Histories, TransferEp0
  <2> QED BY <2>1 DEF Buffers
<1>5. Endpoints' = [G EXCEPT ![n].TransferBuffer = b]
  BY <1>2 DEF Submit
<1>6. ep0' = [ep0 EXCEPT !.Bounced = BounceFlag(TRUE, n = EP0_OUT),
                         !.BounceTarget = IF n = EP0_OUT THEN b ELSE ep0.BounceTarget]
  BY <1>2 DEF Submit
<1> HIDE DEF F, b
<1>7. G \in EndpointTable /\ G[n].id = b
  <2>1. TRUE \in BOOLEAN
    OBVIOUS
  <2>2. G \in EndpointTable
    BY <1>3, <1>4, <2>1, StartTransferType
  <2>3. n \in Eps
    BY <1>3
  <2>4. F \in EndpointTable
    BY <1>3
  <2>5. "data" \in TrbTypes
    BY <1>3
  <2>6. RunsWith(StartTransfer(F, n, "data", b, TRUE), n, "data", b)
    BY <2>3, <2>4, <2>5, <1>4, StartedTransfer
  <2>7. G[n].id = b
    BY <2>6 DEF RunsWith
  <2> QED BY <2>2, <2>7
<1> HIDE DEF G
<1>8. Endpoints'[n].TransferBuffer = b /\ Endpoints'[n].id = b
  <2>1. Endpoints'[n] = [G[n] EXCEPT !.TransferBuffer = b] /\ G[n] \in Endpoint
    BY <1>3, <1>5, <1>7 DEF EndpointTable
  <2> QED BY <1>7, <2>1 DEF Endpoint
<1>9. CASE n = EP0_OUT
  <2>1. ep0'.Bounced /\ ep0'.BounceTarget = b
    BY <1>1, <1>6, <1>9 DEF Ep0Fields, BounceFlag
  <2> QED BY <1>2, <1>8, <1>9, <2>1 DEF MovedInv, InMoved, OutMoved, OutStage, InStage
<1>10. CASE n = EP0_IN
  <2>1. OutStage' = "quiet" /\ InStage' = "data"
    BY <1>2, <1>10, Ep0Pair
  <2> QED BY <1>8, <1>10, <2>1 DEF MovedInv, InMoved, OutMoved, OutStage, InStage
<1> QED BY <1>3, <1>9, <1>10

\* The data stage takes place: IN data lands, OUT data is in the bounce buffer.
LEMMA DataMoves ==
    ASSUME IInv, UpAndRunning, MovedInv, HostData
    PROVE  MovedInv'
<1> DEFINE n == DataEp(host.packet.req)
<1>1. PipeInv /\ AskInv /\ Endpoints \in EndpointTable /\ ep0 \in Ep0Fields /\ xfers \in Histories
  BY PipeTypes DEF UpAndRunning, IInv, TypeOK
<1>2. ep0.State = "Data" /\ ep0'.State = "Data"
  BY <1>1, HostDataPipe
<1>3. /\ Endpoints[n].run = "data" /\ Endpoints' = Completed(Endpoints, n)
      /\ IF n = EP0_OUT
         THEN (\E x : ep0' = [ep0 EXCEPT !.Buffer = x, !.filled = Endpoints[n].id]) /\ UNCHANGED xfers
         ELSE xfers' = [xfers EXCEPT !.landed = xfers.landed \union {Endpoints[n].id}] /\ UNCHANGED ep0
  BY DEF HostData, HostReq
<1>4. n \in {EP0_OUT, EP0_IN}
  BY StageEps
<1> HIDE DEF n
<1>5. Stage(Endpoints[n]) = "data" /\ Endpoints[n].TransferStarted
  <2>1. "data" \in {"setup", "data", "status"}
    OBVIOUS
  <2> QED BY <1>1, <1>3, <1>4, <2>1, Executing
<1>6. IF n = EP0_OUT THEN OutStage' = "done" /\ InStage' = InStage
                     ELSE InStage' = "done" /\ OutStage' = OutStage
  BY <1>3, <1>4, <1>5, CompletedStages
<1>7. \A m \in Eps : Endpoints'[m].TransferBuffer = Endpoints[m].TransferBuffer
  BY <1>1, <1>3, <1>4, Ep0Pair, CompletedBuffers
<1>8. EP0_OUT \in Eps /\ EP0_IN \in Eps /\ EP0_OUT # EP0_IN
  BY Ep0Pair
<1>9. InMoved(Endpoints[EP0_IN], xfers.landed) /\ OutMoved(Endpoints[EP0_OUT], ep0)
  BY <1>2 DEF MovedInv
<1>10. CASE n = EP0_OUT
  <2>1. InStage' = "quiet" /\ OutStage' = "done"
    BY <1>1, <1>2, <1>5, <1>6, <1>10 DEF PipeInv, PipeOk, ModeOk, OutStage
  <2>2. ep0'.Bounced = ep0.Bounced /\ ep0'.BounceTarget = ep0.BounceTarget /\ ep0'.filled = Endpoints[EP0_OUT].id
    BY <1>1, <1>3, <1>10 DEF Ep0Fields
  <2>3. ep0.Bounced /\ ep0.BounceTarget = Endpoints[EP0_OUT].TransferBuffer
        /\ Endpoints[EP0_OUT].id = Endpoints[EP0_OUT].TransferBuffer
    BY <1>5, <1>9, <1>10 DEF OutMoved
  <2> QED BY <1>7, <1>8, <2>1, <2>2, <2>3 DEF MovedInv, InMoved, OutMoved, OutStage, InStage
<1>11. CASE n = EP0_IN
  <2>1. OutStage' = "quiet" /\ InStage' = "done"
    BY <1>1, <1>2, <1>5, <1>6, <1>8, <1>11 DEF PipeInv, PipeOk, ModeOk, InStage
  <2>2. xfers'.landed = xfers.landed \union {Endpoints[EP0_IN].id}
    BY <1>1, <1>3, <1>8, <1>11 DEF Histories
  <2>3. Endpoints[EP0_IN].id = Endpoints[EP0_IN].TransferBuffer
    BY <1>5, <1>9, <1>11 DEF InMoved
  <2> QED BY <1>7, <1>8, <2>1, <2>2, <2>3 DEF MovedInv, InMoved, OutMoved, OutStage, InStage
<1> QED BY <1>4, <1>10, <1>11

\* Every step keeps data where it belongs.
LEMMA MovedKept ==
    ASSUME IInv, ControlInv, MovedInv, Wellbehaved, "bulk" \notin ClientMay, [Next]_vars
    PROVE  MovedInv'
<1>1. ControlInv' /\ ep0 \in Ep0Fields
  BY ControlKept, PipeTypes
<1>2. ASSUME Settled' PROVE MovedInv'
  BY <1>2 DEF Settled, MovedInv, InMoved, OutMoved, OutStage, InStage
<1>3. ASSUME Unmoved PROVE MovedInv'
  <2>1. xfers.landed \subseteq xfers'.landed
    BY EveryHistoryStep DEF HistoryStep
  <2> QED BY <1>3, <2>1 DEF Unmoved, EntriesSame, MovedInv, InMoved, OutMoved
<1>4. CASE ~RunStop'
  BY <1>1, <1>2, <1>4 DEF ControlInv, Off, Settled
<1>5. CASE Next /\ RunStop' /\ ~RunStop
  <2>1. \E E : Ep0OutStart(E)
    BY <1>5, StartsRunning DEF ConfigureEnableEndpoints
  <2>2. ep0' = [ep0 EXCEPT !.State = "Setup", !.StatusStarted = FALSE, !.Bounced = FALSE]
    BY <2>1 DEF Ep0OutStart
  <2>3. Settled'
    BY <1>1, <2>2 DEF Settled, Ep0Fields
  <2> QED BY <1>2, <2>3
<1>6. CASE Next /\ RunStop' /\ RunStop
  <2>1. UpAndRunning
    BY <1>6 DEF ControlInv
  <2>2. CASE HostData
    BY <2>1, <2>2, DataMoves
  <2>3. CASE \E n \in ControlEps : TransferEp0(n)
    BY <2>1, <2>3, TransferMoves
  <2>4. CASE ~HostData /\ \A n \in ControlEps : ~TransferEp0(n)
    <3>1. Settled' \/ Unmoved
      BY <1>6, <2>1, <2>4, ClientSettled, PollSettled, HostSettled DEF Next
    <3> QED BY <1>2, <1>3, <3>1
  <2> QED BY <2>2, <2>3, <2>4
<1>7. CASE UNCHANGED vars
  BY <1>3, <1>7 DEF vars, Unmoved, EntriesSame
<1> QED BY <1>4, <1>5, <1>6, <1>7

\* So the buffer of a data stage that is reported complete holds its data.
LEMMA DataReported ==
    ASSUME IInv, UpAndRunning, MovedInv, Ep0DataComplete
    PROVE  Endpoints[EventEp].TransferBuffer \in xfers'.landed
<1> DEFINE copied == IF ep0.Bounced /\ ep0.filled = ep0.BounceTarget THEN {ep0.BounceTarget} ELSE {}
           told == Tell(xfers.told, Endpoints[EventEp].TransferBuffer, "Complete")
<1>1. PipeInv /\ AskInv /\ xfers \in Histories /\ Ep0Complete("Data")
  BY DEF UpAndRunning, IInv, TypeOK, Ep0DataComplete
<1>2. /\ ep0.State = "Data" /\ EventBuffer \in Seq(Events) /\ EventBuffer # <<>> /\ ControlEvent(EventBuffer[1])
      /\ EventEp = EventBuffer[1].ep /\ EventEp \in {EP0_OUT, EP0_IN}
  BY <1>1, CompleteFacts
<1>3. (IF EventEp = EP0_OUT THEN OutStage ELSE InStage) = "done"
  <2>1. DoneOk(EventBuffer, OutStage, InStage)
    BY <1>1 DEF PipeInv, PipeOk
  <2> QED BY <1>2, <2>1, DoneFacts
<1>4. xfers' = [xfers EXCEPT !.landed = xfers.landed \union copied, !.told = told]
  BY DEF Ep0DataComplete
<1> HIDE DEF told
<1>5. xfers'.landed = xfers.landed \union copied
  BY <1>1, <1>4 DEF Histories
<1>6. InMoved(Endpoints[EP0_IN], xfers.landed) /\ OutMoved(Endpoints[EP0_OUT], ep0)
  BY <1>2 DEF MovedInv
<1>7. CASE EventEp = EP0_OUT
  <2>1. ep0.Bounced /\ ep0.BounceTarget = Endpoints[EP0_OUT].TransferBuffer
        /\ ep0.filled = Endpoints[EP0_OUT].TransferBuffer
    BY <1>3, <1>6, <1>7 DEF OutMoved, OutStage
  <2> QED BY <1>5, <1>7, <2>1
<1>8. CASE EventEp = EP0_IN
  <2>1. InStage = "done"
    BY <1>3, <1>8, Ep0Pair
  <2> QED BY <1>5, <1>6, <1>8, <2>1 DEF InMoved, InStage
<1> QED BY <1>2, <1>7, <1>8

\* Every step keeps the results of control requests true.
LEMMA ControlDataKept ==
    ASSUME IInv, BufInv, ControlInv, MovedInv, ControlDataMoved, [Next]_vars
    PROVE  ControlDataMoved'
<1>1. HistoryStep
  BY EveryHistoryStep
<1>2. /\ xfers.ep \in [Buffers -> Eps] /\ xfers.told \in [Buffers -> Told]
      /\ xfers.landed \subseteq xfers'.landed
      /\ \A n \in Eps : Endpoints[n].TransferBuffer \in Buffers
      /\ \A b \in Buffers : xfers.told[b] = "Complete" /\ xfers.ep[b] \in ControlEps => b \in xfers.landed
  BY <1>1 DEF IInv, TypeOK, Histories, EndpointTable, Endpoint, HistoryStep, ControlDataMoved
<1>3. CASE xfers'.told = xfers.told /\ xfers'.ep = xfers.ep
  BY <1>2, <1>3 DEF ControlDataMoved
<1>4. ASSUME NEW n \in Eps, HandedOut(n) PROVE ControlDataMoved'
  <2>1. xfers.told[xfers.next] = "none"
    <3>1. xfers.next >= xfers.next /\ xfers.next \in Buffers
      BY <1>4, EndpointAssumption DEF IInv, TypeOK, Histories, HandedOut
    <3> QED BY <3>1 DEF BufInv, OwnInv
  <2>2. ASSUME NEW b \in Buffers, xfers'.told[b] = "Complete", xfers'.ep[b] \in ControlEps
        PROVE  b \in xfers'.landed
    <3>1. b # xfers.next
      BY <1>4, <2>1, <2>2 DEF HandedOut
    <3>2. xfers.told[b] = "Complete" /\ xfers.ep[b] \in ControlEps
      BY <1>2, <1>4, <2>2, <3>1 DEF HandedOut
    <3> QED BY <1>2, <3>2
  <2> QED BY <2>2 DEF ControlDataMoved
<1>5. ASSUME NEW n \in Eps, NEW s \in Statuses, ResultTold(n, s) PROVE ControlDataMoved'
  <2> DEFINE c == Endpoints[n].TransferBuffer
  <2>1. xfers'.ep = xfers.ep /\ xfers'.told = Tell(xfers.told, c, s) /\ c \in Buffers
    BY <1>2, <1>5 DEF ResultTold
  <2>2. ASSUME NEW b \in Buffers, xfers'.told[b] = "Complete", xfers'.ep[b] \in ControlEps, b = c
        PROVE  b \in xfers'.landed
    <3>1. s = "Complete"
      BY <1>2, <2>1, <2>2 DEF Tell
    <3>2. CASE n \in Bulk
      <4>1. c # NULL
        BY <1>5, <3>1, <3>2 DEF ResultTold, BufInv, OwnInv
      <4>2. xfers.ep[c] = n
        BY <4>1 DEF BufInv, OwnInv
      <4> QED BY <2>1, <2>2, <3>2, <4>2, BulkFacts DEF ControlEps
    <3>3. CASE Ep0DataComplete /\ n = EventEp
      <4>1. RunStop
        BY <3>3 DEF ControlInv, Off, Ep0DataComplete, Ep0Complete, AtEvent
      <4>2. Endpoints[EventEp].TransferBuffer \in xfers'.landed
        BY <3>3, <4>1, DataReported DEF ControlInv
      <4> QED BY <2>2, <3>3, <4>2
    <3> QED BY <1>5, <3>2, <3>3 DEF ResultTold
  <2>3. ASSUME NEW b \in Buffers, xfers'.told[b] = "Complete", xfers'.ep[b] \in ControlEps, b # c
        PROVE  b \in xfers'.landed
    <3>1. xfers.told[b] = "Complete"
      BY <1>2, <2>1, <2>3 DEF Tell
    <3> QED BY <1>2, <2>1, <2>3, <3>1
  <2> QED BY <2>2, <2>3 DEF ControlDataMoved
<1> QED BY <1>1, <1>3, <1>4, <1>5 DEF HistoryStep

\* For such a client, host and controller, if the client starts no bulk transfers:
\* when a transfer on EP0 is reported complete, the data of its request has been
\* sent from the client's buffer, or is in the client's buffer, whatever OUT
\* data or SETUP packet came into the bounce buffer before, and though stalls,
\* resets and requests the host gives up come between.  (A bulk transfer clears
\* Ep0Bounced, after which received data stays in the bounce buffer.)
THEOREM ControlDataArrives ==
    ASSUME Wellbehaved, "bulk" \notin ClientMay
    PROVE  Spec => []ControlDataMoved
<1>1. Init => ControlInv /\ BufInv /\ MovedInv /\ ControlDataMoved
  <2> SUFFICES ASSUME Init PROVE MovedInv /\ ControlDataMoved
    BY ControlInit, InitOwn
  <2> QED BY DEF Init, MovedInv, ControlDataMoved
<1>2. IInv /\ BufInv /\ ControlInv /\ MovedInv /\ ControlDataMoved /\ [Next]_vars
         => ControlInv' /\ BufInv' /\ MovedInv' /\ ControlDataMoved'
  BY ControlKept, NextOwn, MovedKept, ControlDataKept
<1> QED BY <1>1, <1>2, Invariance, PTL DEF Spec

-----------------------------------------------------------------------------
(* The controller executes the TRBs the driver wrote.  EP0 OUT and EP0 IN   *)
(* share one, so this is about the order in which they use it.              *)

\* An armed SETUP TRB is in the pool, and ending EP0 IN would not clear it; a
\* data or status stage owns the pool, unless RESET has cut EP0 OUT off.
TrbInv ==
    /\ OutStage = "setup" => Owns(Endpoints[EP0_OUT], "setup") /\ Endpoints[EP0_IN].ResourceIndex = 0
    /\ OutStage \in {"data", "status"} /\ ep0.State # "Setup" => Owns(Endpoints[EP0_OUT], OutStage)
    /\ InStage \in {"data", "status"} => Owns(Endpoints[EP0_OUT], InStage)

\* The controller executes nothing on EP0, or a step leaves EP0 alone, or the
\* driver arms EP0.
Quieted == OutStage \in {"quiet", "done"} /\ InStage \in {"quiet", "done"}
LeftAlone == EntriesSame /\ ep0'.State = ep0.State
Rearmed == \E E \in EndpointTable : Ep0OutStart(E)

\* A stage that is begun on one direction.
LEMMA BegunStage ==
    ASSUME NEW e \in Endpoint, Stage(e) # "lost", NEW t \in {"setup", "data", "status"}
    PROVE  /\ e.run = t => Stage(e) = t
           /\ ~e.TransferStarted => Stage(e) = "quiet"
BY DEF Stage

\* The entries of EP0 once the SETUP TRB is armed, or STARTTRANSFER has failed:
\* EP0 IN was ended before the TRB was written.
ArmedEntries(F, ok) ==
    /\ ~F[EP0_IN].TransferStarted
    /\ IF ok THEN F[EP0_OUT].run = "setup" /\ Owns(F[EP0_OUT], "setup") /\ F[EP0_IN].ResourceIndex = 0
             ELSE ~F[EP0_OUT].TransferStarted

\* So Dwc3Ep0OutStart leaves the SETUP TRB in the pool, or nothing going on.
LEMMA ArmedTrb ==
    ASSUME NEW E \in EndpointTable, NEW ok \in BOOLEAN
    PROVE  ArmedEntries(Ep0Armed(E, ok), ok)
<1> DEFINE F == EndTransfer(E, EP0_IN)
           G == EndTransfer(F, EP0_OUT)
           H == EndTransfer(G, EP0_OUT)
           S == Ep0Armed(E, ok)
<1>1. EP0_OUT \in Eps /\ EP0_IN \in Eps /\ EP0_OUT # EP0_IN /\ Pool(EP0_OUT) = EP0_OUT
  BY Ep0Pair
<1>2. F \in EndpointTable /\ F[EP0_IN] = Ended(E[EP0_IN])
  <2>1. F[EP0_IN] = Ended(E[EP0_IN])
    BY <1>1 DEF EndTransfer, EndpointTable
  <2> QED BY <1>1, <2>1, EndTransferType
<1> HIDE DEF F
<1>3. ASSUME NEW T \in EndpointTable
      PROVE  /\ EndTransfer(T, EP0_OUT) \in EndpointTable
             /\ EndTransfer(T, EP0_OUT)[EP0_IN] = T[EP0_IN]
             /\ EndTransfer(T, EP0_OUT)[EP0_OUT] = Ended(T[EP0_OUT])
  <2>1. EndTransfer(T, EP0_OUT) = [T EXCEPT ![EP0_OUT] = Ended(T[EP0_OUT])]
    BY <1>1 DEF EndTransfer
  <2>2. EndTransfer(T, EP0_OUT) \in EndpointTable
    BY <1>1, EndTransferType
  <2> QED BY <1>1, <2>1, <2>2 DEF EndpointTable
<1>4. G \in EndpointTable /\ G[EP0_IN] = Ended(E[EP0_IN])
  BY <1>2, <1>3
<1> HIDE DEF G
<1>5. H \in EndpointTable /\ H[EP0_IN] = Ended(E[EP0_IN]) /\ H[EP0_OUT] = Ended(G[EP0_OUT])
  BY <1>3, <1>4
<1> HIDE DEF H
<1>6. ASSUME NEW e \in Endpoint
      PROVE  ~Ended(e).TransferStarted /\ Ended(e).ResourceIndex = 0
  BY DEF Ended, Endpoint
<1>7. E[EP0_IN] \in Endpoint /\ G[EP0_OUT] \in Endpoint /\ H[EP0_OUT] \in Endpoint /\ DOMAIN H = Eps
  BY <1>1, <1>4, <1>5 DEF EndpointTable
<1>8. S = StartTransfer(G, EP0_OUT, "setup", NULL, ok)
  BY DEF Ep0Armed, Ep0Ended, F, G
<1> HIDE DEF S
<1>9. S[EP0_IN] = H[EP0_IN] /\ (~ok => S[EP0_OUT] = [H[EP0_OUT] EXCEPT !.Trb = ZeroTrb])
  <2>1. \A t : /\ WithTrb(H, EP0_OUT, t)[EP0_OUT] = [H[EP0_OUT] EXCEPT !.Trb = t]
               /\ WithTrb(H, EP0_OUT, t)[EP0_IN] = H[EP0_IN]
               /\ DOMAIN WithTrb(H, EP0_OUT, t) = Eps
    BY <1>1, <1>7 DEF WithTrb
  <2>2. \A T, x : DOMAIN T = Eps => [T EXCEPT ![EP0_OUT] = x][EP0_IN] = T[EP0_IN]
    BY <1>1
  <2> QED BY <1>8, <2>1, <2>2 DEF StartTransfer, H
<1>10. CASE ok
  <2>1. "setup" \in TrbTypes
    BY DEF TrbTypes
  <2>2. RunsWith(StartTransfer(G, EP0_OUT, "setup", NULL, TRUE), EP0_OUT, "setup", NULL)
    BY <1>1, <1>4, <2>1, NullBuffer, StartedTransfer
  <2>3. ok = TRUE
    BY <1>10
  <2>4. RunsWith(S, EP0_OUT, "setup", NULL)
    BY <1>8, <2>2, <2>3
  <2>5. S[EP0_OUT].run = "setup" /\ Owns(S[EP0_OUT], "setup")
    BY <1>1, <2>4 DEF RunsWith, TrbOf, Owns
  <2>6. ~S[EP0_IN].TransferStarted /\ S[EP0_IN].ResourceIndex = 0
    BY <1>5, <1>6, <1>7, <1>9
  <2> QED BY <1>10, <2>5, <2>6 DEF ArmedEntries, S
<1>11. CASE ~ok
  <2>1. ~H[EP0_OUT].TransferStarted /\ ~S[EP0_IN].TransferStarted
    BY <1>5, <1>6, <1>7, <1>9
  <2>2. ~S[EP0_OUT].TransferStarted
    BY <1>7, <1>9, <1>11, <2>1 DEF Endpoint
  <2> QED BY <1>11, <2>1, <2>2 DEF ArmedEntries, S
<1> QED BY <1>10, <1>11

\* The RESET event ends EP0 IN, which clears the shared TRB only if EP0 IN has used it.
LEMMA ResetTrb ==
    ASSUME NEW E \in EndpointTable, NEW S, E[EP0_IN].ResourceIndex = 0
    PROVE  /\ ResetTable(E, S)[EP0_OUT].Trb = E[EP0_OUT].Trb
           /\ ResetTable(E, S)[EP0_IN].ResourceIndex = 0
<1> DEFINE F == HaltsAndBulkReset(E, S)
<1>1. /\ EP0_OUT \in Eps /\ EP0_IN \in Eps /\ EP0_OUT # EP0_IN /\ EP0_OUT \notin Bulk /\ EP0_IN \notin Bulk
      /\ E[EP0_OUT] \in Endpoint /\ E[EP0_IN] \in Endpoint
  BY Ep0Pair DEF EndpointTable
<1>2. ASSUME NEW n \in {EP0_OUT, EP0_IN}
      PROVE  F[n] \in Endpoint /\ F[n].Trb = E[n].Trb /\ F[n].ResourceIndex = E[n].ResourceIndex
  <2>1. F[n] = ResetEndpoint(E[n], n, n \in S)
    BY <1>1, <1>2 DEF HaltsAndBulkReset
  <2>2. ResetEndpoint(E[n], n, n \in S) \in {E[n], [E[n] EXCEPT !.Stalled = FALSE]}
    BY <1>1, <1>2 DEF ResetEndpoint
  <2>3. ASSUME NEW e \in Endpoint, NEW f, f \in {e, [e EXCEPT !.Stalled = FALSE]}
        PROVE  f \in Endpoint /\ f.Trb = e.Trb /\ f.ResourceIndex = e.ResourceIndex
    BY <2>3 DEF Endpoint
  <2>4. E[n] \in Endpoint /\ F[n] \in {E[n], [E[n] EXCEPT !.Stalled = FALSE]}
    BY <1>1, <1>2, <2>1, <2>2
  <2> HIDE DEF F
  <2> QED BY <2>3, <2>4
<1>3. DOMAIN F = Eps
  BY DEF HaltsAndBulkReset
<1>4. ResetTable(E, S) = EndTransfer(F, EP0_IN)
  BY DEF ResetTable
<1> HIDE DEF F
<1>5. EndTransfer(F, EP0_IN) = [F EXCEPT ![EP0_IN] = Ended(F[EP0_IN])]
  BY <1>2 DEF EndTransfer
<1>6. EndTransfer(F, EP0_IN)[EP0_OUT] = F[EP0_OUT] /\ EndTransfer(F, EP0_IN)[EP0_IN] = Ended(F[EP0_IN])
  BY <1>1, <1>3, <1>5
<1>7. Ended(F[EP0_IN]).ResourceIndex = 0
  BY <1>2 DEF Ended, Endpoint
<1> QED BY <1>2, <1>4, <1>6, <1>7

\* A step that leaves EP0 alone,
LEMMA AloneTrb == ASSUME TrbInv, LeftAlone PROVE TrbInv'
BY DEF LeftAlone, EntriesSame, TrbInv, OutStage, InStage

\* one after which the controller executes nothing,
LEMMA QuietTrb == ASSUME Quieted' PROVE TrbInv'
BY DEF Quieted, TrbInv

\* and one that arms EP0.
LEMMA RearmedTrb == ASSUME IInv', Rearmed PROVE TrbInv'
<1>1. PICK E \in EndpointTable : Ep0OutStart(E)
  BY DEF Rearmed
<1>2. PICK ok \in BOOLEAN : Endpoints' = Ep0Armed(E, ok)
  BY <1>1, ResultsBoolean DEF Ep0OutStart
<1>3. ArmedEntries(Endpoints', ok)
  BY <1>2, ArmedTrb
<1>4. Endpoints'[EP0_OUT] \in Endpoint /\ Endpoints'[EP0_IN] \in Endpoint
  BY Ep0Pair DEF IInv, TypeOK, EndpointTable
<1>5. ASSUME NEW e \in Endpoint, ~e.TransferStarted PROVE Stage(e) \in {"quiet", "lost"}
  BY <1>5 DEF Stage
<1>6. InStage' \in {"quiet", "lost"}
  BY <1>3, <1>4, <1>5 DEF ArmedEntries, InStage
<1>7. CASE ok
  <2>1. OutStage' \in {"quiet", "done", "setup", "lost"}
    BY <1>3, <1>7 DEF ArmedEntries, OutStage, Stage
  <2> QED BY <1>3, <1>6, <1>7, <2>1 DEF ArmedEntries, TrbInv
<1>8. CASE ~ok
  <2>1. OutStage' \in {"quiet", "lost"}
    BY <1>3, <1>4, <1>5, <1>8 DEF ArmedEntries, OutStage
  <2> QED BY <1>6, <2>1 DEF TrbInv
<1> QED BY <1>7, <1>8

\* When one direction is done, or the driver is in the status stage, the other
\* direction is quiet, if hosts do not cut IN data short.
LEMMA OneDirection ==
    ASSUME NEW o, NEW i, NEW st, NEW ss, NEW c, NEW r, ModeOk(o, i, st, ss, c, r), "early" \notin HostMay
    PROVE  /\ o = "done" => i = "quiet"
           /\ i = "done" => o = "quiet"
           /\ st = "Status" /\ o = "status" => i = "quiet"
           /\ st = "Status" /\ i = "status" => o = "quiet"
           /\ st = "Setup" => i = "quiet"
           /\ o \in {"quiet", "done", "setup", "data", "status"}
           /\ i \in {"quiet", "done", "data", "status"}
BY DEF ModeOk

\* A data or status stage that is begun on one direction, with the other quiet.
BegunOn(n, t) ==
    /\ Endpoints'[n].run = t /\ Owns(Endpoints'[EP0_OUT], t)
    /\ IF n = EP0_OUT THEN OutStage' = t /\ InStage' = "quiet"
                      ELSE OutStage' = "quiet" /\ InStage' = t

\* It owns the shared TRB.
LEMMA BegunTrb ==
    ASSUME NEW n \in {EP0_OUT, EP0_IN}, NEW t \in {"data", "status"}, BegunOn(n, t)
    PROVE  TrbInv'
BY DEF BegunOn, TrbInv

\* The client submits the data stage.
LEMMA TransferTrb ==
    ASSUME IInv, UpAndRunning, Wellbehaved, NEW n \in ControlEps, TransferEp0(n)
    PROVE  TrbInv'
<1> DEFINE F == EndTransfer(Endpoints, n)
           b == xfers.next
           G == StartTransfer(F, n, "data", b, TRUE)
<1>1. PipeInv /\ AskInv /\ Endpoints \in EndpointTable
  BY PipeTypes DEF UpAndRunning
<1>2. /\ IF n = EP0_OUT THEN OutStage' = "data" /\ InStage' = "quiet"
                        ELSE OutStage' = "quiet" /\ InStage' = "data"
      /\ Submit(F, n, "data", TRUE, n = EP0_OUT)
  BY <1>1, TransferPipe
<1>3. n \in {EP0_OUT, EP0_IN} /\ n \in Eps /\ F \in EndpointTable /\ "data" \in TrbTypes
  BY <1>1, ControlEpsFacts, EndTransferType DEF ControlEps, TrbTypes
<1>4. b \in Buffers
  <2>1. b \in 1 .. (MaxXfers + 1) /\ MaxXfers \in Nat /\ b <= MaxXfers
    BY EndpointAssumption DEF IInv, TypeOK, Histories, TransferEp0
  <2> QED BY <2>1 DEF Buffers
<1>5. Endpoints' = [G EXCEPT ![n].TransferBuffer = b]
  BY <1>2 DEF Submit
<1> HIDE DEF F, b
<1>6. G \in EndpointTable
  <2>1. TRUE \in BOOLEAN
    OBVIOUS
  <2> QED BY <1>3, <1>4, <2>1, StartTransferType
<1>7. RunsWith(G, n, "data", b)
  <2>1. n \in Eps
    BY <1>3
  <2>2. F \in EndpointTable
    BY <1>3
  <2>3. "data" \in TrbTypes
    BY <1>3
  <2> QED BY <2>1, <2>2, <2>3, <1>4, StartedTransfer
<1> HIDE DEF G
<1>8. ASSUME NEW e \in Endpoint
      PROVE  [e EXCEPT !.TransferBuffer = b].Trb = e.Trb /\ [e EXCEPT !.TransferBuffer = b].run = e.run
  BY DEF Endpoint
<1>9. ASSUME NEW m \in Eps PROVE Endpoints'[m].Trb = G[m].Trb /\ Endpoints'[m].run = G[m].run
  <2>1. Endpoints'[m] \in {G[m], [G[m] EXCEPT !.TransferBuffer = b]} /\ G[m] \in Endpoint
    BY <1>5, <1>6, <1>9 DEF EndpointTable
  <2> QED BY <1>8, <2>1
<1>10. Owns(G[EP0_OUT], "data") /\ G[n].run = "data"
  BY <1>3, <1>7, Ep0Pair DEF RunsWith, TrbOf, Owns
<1>11. BegunOn(n, "data")
  BY <1>2, <1>3, <1>9, <1>10, Ep0Pair DEF BegunOn, Owns
<1> QED BY <1>3, <1>11, BegunTrb

\* The driver starts the status stage.
LEMMA StatusTrb ==
    ASSUME IInv, PipeInv, PipeInv', Wellbehaved, "early" \notin HostMay, TrbInv, Ep0StatusNotReady
    PROVE  TrbInv'
<1> DEFINE n == EventEp
           F == EndTransfer(Endpoints, n)
           G == StartTransfer(F, n, "status", NULL, TRUE)
<1>1. EventEp \in {EP0_OUT, EP0_IN} /\ Endpoints \in EndpointTable /\ ep0 \in Ep0Fields
  BY PipeTypes DEF Ep0StatusNotReady, ControlEps
<1>2. CASE ~StartsStatus
  <2>1. LeftAlone
    BY <1>2 DEF Ep0StatusNotReady, LeftAlone, EntriesSame
  <2> QED BY <2>1, AloneTrb
<1>3. CASE StartsStatus
  <2>1. Stage(Endpoints[n]) # "lost" /\ n \in Eps
    BY <1>1, NeverLost, Ep0Pair DEF OutStage, InStage
  <2>2. n \in {EP0_OUT, EP0_IN}
    BY <1>1
  <2> HIDE DEF n
  <2>3. F \in EndpointTable /\ Stage(F[n]) = "quiet"
    BY <1>1, <2>1, <2>2, Ep0EndTransfer
  <2> HIDE DEF F
  <2>4. StartResults(F, n) = {TRUE}
    BY <2>3, Ep0Starts DEF Wellbehaved
  <2>5. Endpoints' = G /\ ep0' = [ep0 EXCEPT !.State = "Status", !.StatusStarted = TRUE]
    BY <1>3, <2>4 DEF Ep0StatusNotReady, F, n
  <2>6. "status" \in TrbTypes
    BY DEF TrbTypes
  <2>7. n \in Eps
    BY <2>1
  <2>8. F \in EndpointTable
    BY <2>3
  <2>9. RunsWith(G, n, "status", NULL)
    BY <2>6, <2>7, <2>8, NullBuffer, StartedTransfer
  <2>10. Stage(G[n]) = "status"
    <3>1. Stage(F[n]) # "lost"
      BY <2>3
    <3> QED BY <2>2, <2>3, <3>1, NullBuffer, Ep0StartTransfer
  <2> HIDE DEF G
  <2>11. Owns(Endpoints'[EP0_OUT], "status") /\ Endpoints'[n].run = "status"
    BY <2>2, <2>5, <2>9, Ep0Pair DEF RunsWith, TrbOf, Owns
  <2>12. ep0'.State = "Status"
    BY <1>1, <2>5 DEF Ep0Fields
  <2>13. /\ ep0'.State = "Status" /\ OutStage' = "status" => InStage' = "quiet"
         /\ ep0'.State = "Status" /\ InStage' = "status" => OutStage' = "quiet"
    <3>1. ModeOk(OutStage', InStage', ep0'.State, ep0'.StatusStarted, Looping', ep0'.SetupPacket.req)
      BY DEF PipeInv, PipeOk
    <3> QED BY <3>1, OneDirection
  <2>14. IF n = EP0_OUT THEN OutStage' = "status" ELSE InStage' = "status"
    BY <2>2, <2>5, <2>10, Ep0Pair DEF OutStage, InStage
  <2>15. BegunOn(n, "status")
    BY <2>11, <2>12, <2>13, <2>14 DEF BegunOn
  <2> QED BY <2>2, <2>15, BegunTrb
<1> QED BY <1>2, <1>3

\* The RESET event.
LEMMA ResetTrbKept ==
    ASSUME IInv, PipeInv, PipeInv', "early" \notin HostMay, TrbInv, BusReset
    PROVE  TrbInv'
<1>1. PICK F : Endpoints' = ResetTable(Endpoints, F)
  BY DEF BusReset
<1>2. ep0'.State = "Setup"
  <2>1. ep0' = [ep0 EXCEPT !.State = "Setup", !.StatusStarted = FALSE, !.Bounced = FALSE]
    BY DEF BusReset
  <2> QED BY <2>1, PipeTypes DEF Ep0Fields
<1>3. InStage' = "quiet"
  <2>1. ModeOk(OutStage', InStage', ep0'.State, ep0'.StatusStarted, Looping', ep0'.SetupPacket.req)
    BY DEF PipeInv, PipeOk
  <2> QED BY <1>2, <2>1, OneDirection
<1>4. OutStage' = OutStage
  <2>1. Stage(Endpoints[EP0_IN]) # "lost" /\ Endpoints \in EndpointTable
    BY NeverLost, PipeTypes DEF InStage
  <2>2. Like(Endpoints[EP0_OUT], ResetTable(Endpoints, F)[EP0_OUT])
    BY <2>1, Ep0ResetStages
  <2> QED BY <1>1, <2>2 DEF Like, OutStage
<1>5. ASSUME OutStage' = "setup"
      PROVE  Owns(Endpoints'[EP0_OUT], "setup") /\ Endpoints'[EP0_IN].ResourceIndex = 0
  <2>1. Owns(Endpoints[EP0_OUT], "setup") /\ Endpoints[EP0_IN].ResourceIndex = 0
    BY <1>4, <1>5 DEF TrbInv
  <2>2. /\ ResetTable(Endpoints, F)[EP0_OUT].Trb = Endpoints[EP0_OUT].Trb
        /\ ResetTable(Endpoints, F)[EP0_IN].ResourceIndex = 0
    BY <2>1, PipeTypes, ResetTrb
  <2> QED BY <1>1, <2>1, <2>2 DEF Owns
<1> QED BY <1>2, <1>3, <1>5 DEF TrbInv

\* The CONNECT_DONE event arms EP0, or leaves it alone.
LEMMA ConnectTrb == ASSUME IInv, BusConnectDone PROVE Rearmed \/ LeftAlone
<1>1. Endpoints \in EndpointTable
  BY PipeTypes
<1>2. CASE Ep0Rearm
  <2>1. \E S : Ep0OutStart(EnableEndpoints(Endpoints, S))
    BY <1>2 DEF BusConnectDone
  <2>2. \A S : EnableEndpoints(Endpoints, S) \in EndpointTable
    BY <1>1, EnableEndpointsType
  <2> QED BY <2>1, <2>2 DEF Rearmed
<1>3. CASE ~Ep0Rearm
  <2>1. PICK S \in SUBSET Bulk : Endpoints' = EnableEndpoints(Endpoints, S) /\ UNCHANGED ep0
    <3> DEFINE enable == {n \in Bulk : Endpoints[n].Enabled} \union {}
    <3>1. enable \subseteq Bulk
      OBVIOUS
    <3>2. \E S \in ConfigOutcomes(enable) : Endpoints' = EnableEndpoints(Endpoints, S) /\ UNCHANGED ep0
      BY <1>3 DEF BusConnectDone
    <3>3. \A S \in ConfigOutcomes(enable) : S \in SUBSET Bulk
      BY <3>1 DEF ConfigOutcomes
    <3> QED BY <3>2, <3>3
  <2>2. EP0_OUT \notin S /\ EP0_IN \notin S
    BY Ep0Pair
  <2>3. EnableEndpoints(Endpoints, S)[EP0_OUT] = Endpoints[EP0_OUT]
        /\ EnableEndpoints(Endpoints, S)[EP0_IN] = Endpoints[EP0_IN]
    BY <1>1, <2>2, Ep0Enabled
  <2> QED BY <2>1, <2>3 DEF LeftAlone, EntriesSame
<1> QED BY <1>2, <1>3

\* The other calls of the client.
LEMMA ClientTrb ==
    ASSUME IInv, UpAndRunning, Wellbehaved, RunStop, ClientCall, RunStop',
           \A n \in ControlEps : ~TransferEp0(n)
    PROVE  Quieted' \/ LeftAlone \/ Rearmed
<1>0. "lazy" \notin ClientMay /\ PipeInv /\ AskInv /\ Started
  BY DEF Wellbehaved, UpAndRunning
<1>1. CASE StallEp0
  <2>1. Ep0OutStart(Ep0Unstalled(Endpoints))
    BY <1>1 DEF StallEp0, StallAndRestart
  <2>2. Ep0Unstalled(Endpoints) \in EndpointTable
    BY PipeTypes, Ep0UnstalledType
  <2> QED BY <2>1, <2>2 DEF Rearmed
<1>2. ASSUME NEW n \in ControlEps, TransferEp0Refused(n) PROVE FALSE
  BY <1>0, <1>2, NeverRefused
<1>3. CASE TransferEp0TooLong
  <2>1. StagesKept
    BY <1>0, <1>3, CallStill
  <2>2. Answerable
    BY <1>0, <1>3, PromptAnswer DEF TransferEp0TooLong
  <2> QED BY <2>1, <2>2 DEF Quieted, StagesKept, Answerable
<1>4. ASSUME NEW n \in Eps, AbortTransfer(n) PROVE LeftAlone
  <2>1. n \in Bulk
    <3>1. n \notin ControlEps
      BY <1>0, <1>4 DEF AbortTransfer
    <3> QED BY <3>1, EndpointAssumption DEF ControlEps, Eps, Bulk, EP0_OUT, EP0_IN
  <2>2. Endpoints' = [EndTransfer(Endpoints, n) EXCEPT ![n].TransferBuffer = NULL] /\ UNCHANGED ep0
    BY <1>4 DEF AbortTransfer
  <2>3. EntriesSame
    BY <2>1, <2>2, BulkCallStages
  <2> QED BY <2>2, <2>3 DEF LeftAlone
<1>5. ASSUME NEW n \in Bulk, NEW b \in BOOLEAN, SetEndpointStallState(n, b) PROVE LeftAlone
  <2>1. (\E ok : Endpoints' = SetHalt(Endpoints, n, b, ok)) /\ UNCHANGED ep0
    BY <1>5 DEF SetEndpointStallState
  <2>2. EntriesSame
    BY <2>1, BulkCallStages
  <2> QED BY <2>1, <2>2 DEF LeftAlone
<1>6. ASSUME NEW n \in Bulk, NEW b \in BOOLEAN, SetEndpointPolicy(n, b) PROVE LeftAlone
  <2>1. Endpoints' = [Endpoints EXCEPT ![n].ZeroLengthTermination = b] /\ UNCHANGED ep0
    BY <1>6 DEF SetEndpointPolicy
  <2>2. EntriesSame
    BY <2>1, BulkCallStages
  <2> QED BY <2>1, <2>2 DEF LeftAlone
<1>7. ASSUME NEW n \in Bulk, NEW aligned \in BOOLEAN, TransferBulk(n, aligned) PROVE LeftAlone
  <2>1. PICK ok : Submit(Endpoints, n, NormalTrb(Endpoints[n], n, aligned), ok, FALSE)
    BY <1>7 DEF TransferBulk
  <2>2. \E type, id : Endpoints' = Submitted(Endpoints, n, type, id, ok)
    BY <2>1 DEF Submit, Submitted
  <2>3. EntriesSame
    BY <2>2, BulkCallStages
  <2>4. Ep0Kept
    <3>1. \E x, y : ep0' = [ep0 EXCEPT !.Bounced = x, !.BounceTarget = y]
      BY <2>1 DEF Submit
    <3> QED BY <3>1, PipeTypes, Ep0FieldsKept
  <2> QED BY <2>3, <2>4 DEF LeftAlone, Ep0Kept
<1>8. ~StartController /\ ~StopController /\ ~ConfigureEnableEndpoints /\ ~ConfigureFails
  BY <1>0 DEF StartController, StopController, ConfigureEnableEndpoints, ConfigureFails
<1> QED BY <1>1, <1>2, <1>3, <1>4, <1>5, <1>6, <1>7, <1>8 DEF ClientCall

\* The EventHandler call, but for the events above.
LEMMA PollTrb ==
    ASSUME IInv, UpAndRunning, Wellbehaved, Poll, ~Ep0StatusNotReady, ~BusReset
    PROVE  Quieted' \/ LeftAlone \/ Rearmed
<1>0. PipeInv /\ AskInv
  BY DEF UpAndRunning
<1>1. CASE EventHandler \/ PopMessage
  BY <1>1 DEF EventHandler, PopMessage, LeftAlone, EntriesSame
<1>2. CASE ResetNonControlEndpoint
  <2>1. Index \in Bulk
    BY <1>2, EndpointAssumption DEF ResetNonControlEndpoint, IInv, TypeOK, QueueInv, Bulk
  <2>2. (\E ok : Endpoints' = Reconfigure(Endpoints, Index, ok)) /\ UNCHANGED ep0
    BY <1>2 DEF ResetNonControlEndpoint
  <2>3. EntriesSame
    BY <2>1, <2>2, BulkCallStages
  <2> QED BY <2>2, <2>3 DEF LeftAlone
<1>3. CASE ConfigDone
  <2>1. StagesKept
    BY <1>0, <1>3, ConfigPipe
  <2>2. Looping
    BY <1>3 DEF ConfigDone, AfterConfig, Looping
  <2>3. OutStage = "quiet" /\ InStage = "quiet"
    BY <1>0, <2>2 DEF PipeInv, PipeOk, ModeOk
  <2> QED BY <2>1, <2>3 DEF Quieted, StagesKept
<1>4. CASE SetupAddress \/ SetupConfig \/ SetupPassed
  <2>1. Ep0Complete("Setup") /\ Endpoints' = Ep0Taken
    BY <1>4 DEF SetupAddress, SetupConfig, SetupPassed
  <2>2. FALSE \in BOOLEAN
    OBVIOUS
  <2>3. OutStage' = "quiet" /\ InStage' = "quiet"
    BY <1>0, <2>1, <2>2, SetupTaken
  <2> QED BY <2>3 DEF Quieted
<1>5. CASE Ep0DataComplete
  BY <1>0, <1>5, DataTakenPipe DEF Quieted
<1>6. CASE Ep0StatusComplete
  <2>1. Ep0OutStart(Ep0Taken) /\ pc = "events"
    BY <1>6 DEF Ep0StatusComplete, Ep0Complete, AtEvent
  <2>2. Ep0Taken \in EndpointTable
    BY <2>1, Ep0Facts
  <2> QED BY <2>1, <2>2 DEF Rearmed
<1>7. CASE Ep0DataNotReady
  BY <1>0, <1>7, DataNotReadyPipe DEF LeftAlone, EntriesSame
<1>8. CASE BulkComplete \/ IgnoredEvent \/ BusDisconnect \/ LinkStatusChange \/ Wakeup
  BY <1>0, <1>8, OtherEventPipe DEF LeftAlone
<1>9. CASE BusConnectDone
  BY <1>9, ConnectTrb
<1> QED BY <1>1, <1>2, <1>3, <1>4, <1>5, <1>6, <1>7, <1>8, <1>9 DEF Poll, EndpointEvent, DeviceEvent

\* The controller and the host: a TRB of EP0 that is executed leaves the
\* controller idle on both directions.
LEMMA HostTrb ==
    ASSUME IInv, UpAndRunning, PipeInv', "early" \notin HostMay, Environment
    PROVE  Quieted' \/ LeftAlone
<1>0. PipeInv /\ AskInv
  BY DEF UpAndRunning
<1>1. ASSUME NEW n \in {EP0_OUT, EP0_IN}, NEW t \in {"setup", "data", "status"}, Endpoints[n].run = t,
             Endpoints' = Completed(Endpoints, n)
      PROVE  Quieted'
  <2>1. Endpoints[n].TransferStarted
    BY <1>0, <1>1, Executing
  <2>2. OutStage' = "done" \/ InStage' = "done"
    BY <1>1, <2>1, CompletedStages
  <2>3. ModeOk(OutStage', InStage', ep0'.State, ep0'.StatusStarted, Looping', ep0'.SetupPacket.req)
    BY DEF PipeInv, PipeOk
  <2>4. (OutStage' = "done" => InStage' = "quiet") /\ (InStage' = "done" => OutStage' = "quiet")
    BY <2>3, OneDirection
  <2> QED BY <2>2, <2>4 DEF Quieted
<1>2. ASSUME NEW r \in Requests, HostSetup(r) PROVE Quieted'
  BY <1>1, <1>2 DEF HostSetup
<1>3. CASE HostData
  BY <1>1, <1>3, StageEps DEF HostData
<1>4. CASE HostStatus
  BY <1>1, <1>4, StageEps DEF HostStatus
<1>5. ASSUME NEW n \in Bulk, HwPayload(n) PROVE LeftAlone
  <2>1. Endpoints' = PayloadMoved(Endpoints, n) /\ UNCHANGED ep0
    BY <1>5 DEF HwPayload
  <2>2. EntriesSame
    BY <2>1, BulkCallStages
  <2> QED BY <2>1, <2>2 DEF LeftAlone
<1>6. ASSUME NEW n \in Bulk, NEW err \in BOOLEAN, HwComplete(n, err) PROVE LeftAlone
  <2>1. Endpoints' = Completed(Endpoints, n) /\ UNCHANGED ep0
    BY <1>6 DEF HwComplete
  <2>2. EntriesSame
    BY <2>1, BulkCallStages
  <2> QED BY <2>1, <2>2 DEF LeftAlone
<1>7. CASE \/ \E n \in ControlEps : HostDataNotReady(n)
           \/ HostEarlyStatus \/ HostStatusNotReady \/ HostReset \/ HostDisconnect
           \/ \E s \in HostSpeeds : HostConnectDone(s)
           \/ \E e : HostLink(e)
           \/ \E n \in Eps : HwOther(n)
  BY <1>7 DEF HostDataNotReady, HostEarlyStatus, HostStatusNotReady, HostReset, HostDisconnect,
              HostConnectDone, HostLink, HwOther, LeftAlone, EntriesSame
<1> QED BY <1>2, <1>3, <1>4, <1>5, <1>6, <1>7 DEF Environment, ControlPipe

\* Every step keeps the TRBs of EP0 what they should be.
LEMMA TrbKept ==
    ASSUME IInv, IInv', ControlInv, ControlInv', TrbInv, Wellbehaved, "early" \notin HostMay, [Next]_vars
    PROVE  TrbInv'
<1>1. ASSUME Quieted' \/ LeftAlone \/ Rearmed PROVE TrbInv'
  BY <1>1, AloneTrb, QuietTrb, RearmedTrb
<1>2. CASE ~RunStop'
  BY <1>1, <1>2 DEF ControlInv, Off, Quieted
<1>3. CASE Next /\ RunStop' /\ ~RunStop
  <2>1. Ep0OutStart(EnableEndpoints(Endpoints, ControlEps \union InterfaceEps))
    BY <1>3, StartsRunning DEF ConfigureEnableEndpoints
  <2>2. EnableEndpoints(Endpoints, ControlEps \union InterfaceEps) \in EndpointTable
    BY PipeTypes, EnableEndpointsType
  <2> QED BY <1>1, <2>1, <2>2 DEF Rearmed
<1>4. CASE Next /\ RunStop' /\ RunStop
  <2>1. UpAndRunning /\ PipeInv /\ PipeInv'
    BY <1>4 DEF ControlInv, UpAndRunning
  <2>2. CASE \E n \in ControlEps : TransferEp0(n)
    BY <2>1, <2>2, TransferTrb
  <2>3. CASE Ep0StatusNotReady
    BY <2>1, <2>3, StatusTrb
  <2>4. CASE BusReset
    BY <2>1, <2>4, ResetTrbKept
  <2>5. CASE Environment
    BY <1>1, <2>1, <2>5, HostTrb
  <2>6. CASE ClientCall /\ \A n \in ControlEps : ~TransferEp0(n)
    BY <1>1, <1>4, <2>1, <2>6, ClientTrb
  <2>7. CASE Poll /\ ~Ep0StatusNotReady /\ ~BusReset
    BY <1>1, <2>1, <2>7, PollTrb
  <2> QED BY <1>4, <2>2, <2>3, <2>4, <2>5, <2>6, <2>7 DEF Next
<1>5. CASE UNCHANGED vars
  BY <1>1, <1>5 DEF vars, LeftAlone, EntriesSame
<1> QED BY <1>2, <1>3, <1>4, <1>5

\* So the controller executes the TRBs that are in the pools.
LEMMA TrbsTell == ASSUME IInv, ControlInv, LostInv, TrbInv PROVE TrbIntact
<1>1. ASSUME NEW n \in Eps, Endpoints[n].run \in TrbTypes, ~(n = EP0_OUT /\ Ep0CutOff)
      PROVE  Owns(Endpoints[Pool(n)], Endpoints[n].run)
  <2>1. Endpoints[n] \in Endpoint /\ Endpoints[n].run # "idle"
    BY <1>1, PipeTypes DEF EndpointTable, TrbTypes
  <2>2. CASE n \in Bulk
    <3>1. Followed(Endpoints[n], EventBuffer, n) /\ Pool(n) = n
      BY <2>2, BulkFacts DEF LostInv, AllFollowed
    <3> QED BY <2>1, <3>1 DEF Followed
  <2>3. CASE n \in {EP0_OUT, EP0_IN}
    <3>1. Pool(n) = EP0_OUT /\ EP0_OUT # EP0_IN
      BY <2>3, Ep0Pair
    <3>2. Stage(Endpoints[n]) # "quiet"
      BY <2>1 DEF Stage, Endpoint, RunTypes, TrbTypes
    <3>3. PipeInv
      BY <2>3, <3>2 DEF ControlInv, Off, UpAndRunning, OutStage, InStage
    <3>4. Stage(Endpoints[n]) # "lost"
      BY <2>3, <3>3, NeverLost DEF OutStage, InStage
    <3>5. Stage(Endpoints[n]) = Endpoints[n].run /\ Endpoints[n].TransferStarted
      BY <2>1, <3>2, <3>4, StageTells
    <3>6. /\ OutStage \in {"quiet", "done", "setup", "data", "status"}
          /\ InStage \in {"quiet", "done", "data", "status"}
      BY <3>3 DEF PipeInv, PipeOk, ModeOk
    <3>7. Endpoints[n].run \notin {"quiet", "done"}
      BY <1>1 DEF TrbTypes
    <3>8. CASE n = EP0_IN
      <4>1. InStage \in {"data", "status"} /\ InStage = Endpoints[n].run
        BY <3>5, <3>6, <3>7, <3>8 DEF InStage
      <4> QED BY <3>1, <4>1 DEF TrbInv
    <3>9. CASE n = EP0_OUT
      <4>1. OutStage \in {"setup", "data", "status"} /\ OutStage = Endpoints[n].run
        BY <3>5, <3>6, <3>7, <3>9 DEF OutStage
      <4>2. OutStage # "setup" => ep0.State # "Setup"
        BY <1>1, <3>5, <3>9, <4>1 DEF Ep0CutOff
      <4> QED BY <3>1, <4>1, <4>2 DEF TrbInv
    <3> QED BY <2>3, <3>8, <3>9
  <2>4. n \in Bulk \/ n \in {EP0_OUT, EP0_IN}
    BY <1>1, EndpointAssumption DEF Eps, Bulk, EP0_OUT, EP0_IN
  <2> QED BY <2>2, <2>3, <2>4
<1> QED BY <1>1 DEF TrbIntact, TrbOf, Owns

\* For such a client, host and controller, if hosts do not cut IN data short and
\* the client starts bulk transfers only after SET_CONFIG, without asking for
\* zero-length packets: the controller executes the TRB the driver wrote for it,
\* on every endpoint.  EP0 IN never clears or overwrites the TRB EP0 OUT executes,
\* though both use one pool and resets, stalls and restarts end them in any
\* order; and no bulk ring is wiped under a transfer.
THEOREM TrbsAreIntact ==
    ASSUME Wellbehaved, "early" \notin HostMay, "eager" \notin ClientMay, "policy" \notin ClientMay
    PROVE  Spec => []TrbIntact
<1>1. Init => ControlInv /\ LostInv /\ TrbInv
  <2> SUFFICES ASSUME Init PROVE TrbInv
    BY ControlInit, LostInit
  <2>1. Quieted
    BY ControlInit DEF ControlInv, Off, Init, Quieted
  <2> QED BY <2>1 DEF TrbInv, Quieted
<1>2. IInv /\ IInv' /\ ControlInv /\ LostInv /\ TrbInv /\ [Next]_vars
         => ControlInv' /\ LostInv' /\ TrbInv'
  <2> SUFFICES ASSUME IInv, IInv', ControlInv, LostInv, TrbInv, [Next]_vars
               PROVE  ControlInv' /\ LostInv' /\ TrbInv'
    OBVIOUS
  <2>1. ControlInv' /\ LostInv'
    BY ControlKept, LostInvKept
  <2> QED BY <2>1, TrbKept
<1>3. IInv /\ ControlInv /\ LostInv /\ TrbInv => TrbIntact
  BY TrbsTell
<1> QED BY <1>1, <1>2, <1>3, Invariance, PTL DEF Spec
=============================================================================
