------------------------ MODULE KeypadConsole_proofs ------------------------
(***************************************************************************)
(* TLAPS proofs about KeypadConsole for every ring size, every set of keys *)
(* and functions, and every length of the notification list.               *)
(***************************************************************************)
EXTENDS KeypadConsole, FiniteSetTheorems, SequenceTheorems, WellFoundedInduction, TLAPS

\* The handler is on a key.
OnKey == pc \in {"walk", "call"}

\* The indices are in range and no slot between them is unwritten.
Filled(q) ==
    /\ q \in Queues(KeyDatas)
    /\ \A i \in 1 .. Count(q) : q.Buffer[(q.Head + i - 1) % MaxCount] \in KeyDatas

\* The keys in the ring; each of them was typed.
Entries(q) == {Contents(q)[i] : i \in 1 .. Count(q)}
Typed(q)   == \A d \in Entries(q) : d.n <= strokes

\* The registrations are kept in the order they were made, so that the handles
\* grow along the list and are those given out.
ListInv ==
    /\ NotifyList \in Seq(Notifies) /\ handles \in 0 .. MaxHandles
    /\ \A i \in 1 .. Len(NotifyList) : NotifyList[i].handle <= handles
    /\ \A i, j \in 1 .. Len(NotifyList) : i < j => NotifyList[i].handle < NotifyList[j].handle

QueueInv ==
    /\ strokes \in 0 .. MaxStrokes /\ resets \in 0 .. MaxResets
    /\ Filled(EfiKeyQueue) /\ Filled(EfiKeyQueueForNotify)
    /\ Typed(EfiKeyQueueForNotify)

HandlerInv ==
    /\ pc \in {"idle", "pop", "walk", "call"}
    /\ KeyData \in KeyDatas \union {NoData}
    /\ Link \in Handles \union {Nobody}
    /\ OnKey => KeyData \in KeyDatas /\ KeyData.n <= strokes
    /\ pc = "call" => Link # Nobody
    /\ LinkIsLive

\* A key waits in the notify ring only while somebody will look.
SignalInv ==
    /\ signalled \in BOOLEAN
    /\ Toggle \in {{}} \union {{t} : t \in {"scroll", "num", "caps", "exposed"}}
    /\ pc = "idle" /\ ~signalled => Count(EfiKeyQueueForNotify) = 0

\* The walk has not come past the node of h.
Ahead(h) == Link # Nobody /\ (h > Link \/ (h = Link /\ pc = "walk"))

\* Every copy of stroke n that is still to be handled matches registration r.
Awaits(r, n) ==
    /\ OnKey /\ KeyData.n = n => IsKeyRegistered(r, KeyData)
    /\ \A d \in Entries(EfiKeyQueueForNotify) : d.n = n => IsKeyRegistered(r, d)

\* What is owed is owed to a registration in the list, for a key that is in the
\* notify ring or in the handler's hands; in the second case the walk has not
\* come past the registration.
Owed(o) ==
    /\ o[2] \in In(EfiKeyQueueForNotify) \/ (OnKey /\ o[2] = KeyData.n)
    /\ OnKey /\ o[2] = KeyData.n => Ahead(o[1])
    /\ \E i \in 1 .. Len(NotifyList) :
          NotifyList[i].handle = o[1] /\ Awaits(NotifyList[i], o[2])

DueInv == due \subseteq Handles \X (1 .. MaxStrokes) /\ \A o \in due : Owed(o)

IInv == ListInv /\ QueueInv /\ HandlerInv /\ SignalInv /\ DueInv

-----------------------------------------------------------------------------
(* The ring.                                                                *)

\* A sum of two indices wraps around at most once.
LEMMA Wrap ==
    /\ \A x \in 0 .. MaxCount - 1 : x % MaxCount = x
    /\ \A x \in MaxCount .. 2 * MaxCount - 1 : x % MaxCount = x - MaxCount
<1>1. MaxCount \in Nat /\ MaxCount > 0
  BY QueueAssumption
<1>2. ASSUME NEW x \in 0 .. MaxCount - 1
      PROVE  x % MaxCount = x
  BY <1>1
<1>3. ASSUME NEW x \in MaxCount .. 2 * MaxCount - 1
      PROVE  x % MaxCount = x - MaxCount
  BY <1>1
<1> QED BY <1>2, <1>3

\* The position of the i-th key after index h.
Place(h, i) == IF h + i - 1 < MaxCount THEN h + i - 1 ELSE h + i - 1 - MaxCount

\* Place is what Contents computes.
LEMMA PlaceIs ==
    ASSUME NEW h \in Slots, NEW i \in 1 .. MaxCount
    PROVE  (h + i - 1) % MaxCount = Place(h, i) /\ Place(h, i) \in Slots
<1>1. MaxCount \in Nat /\ h \in 0 .. MaxCount - 1
  BY QueueAssumption DEF Slots
<1>2. CASE h + i - 1 < MaxCount
  BY <1>1, <1>2, Wrap DEF Place, Slots
<1>3. CASE h + i - 1 >= MaxCount
  <2>1. h + i - 1 \in MaxCount .. 2 * MaxCount - 1
    BY <1>1, <1>3
  <2> QED BY <1>1, <1>3, <2>1, Wrap DEF Place, Slots
<1> QED BY <1>1, <1>2, <1>3

\* The number of keys, and an index moved on by one.
LEMMA CountIs ==
    ASSUME NEW D, NEW q \in Queues(D)
    PROVE  /\ Count(q) = IF q.Tail >= q.Head THEN q.Tail - q.Head
                                             ELSE q.Tail + MaxCount - q.Head
           /\ Count(q) \in 0 .. MaxCount - 1
           /\ q.Head \in Slots /\ q.Tail \in Slots
<1>1. MaxCount \in Nat /\ q.Head \in 0 .. MaxCount - 1 /\ q.Tail \in 0 .. MaxCount - 1
  BY QueueAssumption DEF Slots, Queues
<1>2. CASE q.Tail >= q.Head
  <2>1. q.Tail + MaxCount - q.Head \in MaxCount .. 2 * MaxCount - 1
    BY <1>1, <1>2
  <2>2. (q.Tail + MaxCount - q.Head) % MaxCount = q.Tail - q.Head
    BY <2>1, <1>1, Wrap
  <2> QED BY <1>1, <1>2, <2>2 DEF Count, Slots
<1>3. CASE q.Tail < q.Head
  <2>1. q.Tail + MaxCount - q.Head \in 0 .. MaxCount - 1
    BY <1>1, <1>3
  <2> QED BY <1>1, <1>3, <2>1, Wrap DEF Count, Slots
<1> QED BY <1>1, <1>2, <1>3

\* An index moved on by one.
LEMMA Successor ==
    ASSUME NEW h \in Slots
    PROVE  /\ (h + 1) % MaxCount = IF h = MaxCount - 1 THEN 0 ELSE h + 1
           /\ (h + 1) % MaxCount \in Slots
<1>1. MaxCount \in Nat /\ MaxCount >= 2 /\ h \in 0 .. MaxCount - 1
  BY QueueAssumption DEF Slots
<1>2. CASE h = MaxCount - 1
  <2>1. h + 1 \in MaxCount .. 2 * MaxCount - 1 /\ h + 1 = MaxCount
    BY <1>1, <1>2
  <2> QED BY <1>1, <1>2, <2>1, Wrap DEF Slots
<1>3. CASE h # MaxCount - 1
  <2>1. h + 1 \in 0 .. MaxCount - 1
    BY <1>1, <1>3
  <2> QED BY <1>1, <1>3, <2>1, Wrap DEF Slots
<1> QED BY <1>2, <1>3

\* The keys of a filled ring.
LEMMA ContentsIs ==
    ASSUME NEW q, Filled(q)
    PROVE  /\ q \in Queues(KeyDatas) /\ Count(q) \in 0 .. MaxCount - 1 /\ Count(q) \in Nat
           /\ Contents(q) \in Seq(KeyDatas) /\ Len(Contents(q)) = Count(q)
           /\ \A i \in 1 .. Count(q) : Contents(q)[i] = q.Buffer[Place(q.Head, i)]
           /\ \A i \in 1 .. Count(q) : Contents(q)[i] = q.Buffer[(q.Head + i - 1) % MaxCount]
           /\ \A i \in 1 .. Count(q) : Contents(q)[i] \in KeyDatas
           /\ Count(q) = 0 <=> IsEfikeyBufEmpty(q)
<1>0. MaxCount \in Nat
  BY QueueAssumption
<1>1. q \in Queues(KeyDatas)
  BY DEF Filled
<1>2. Count(q) \in 0 .. MaxCount - 1 /\ q.Head \in Slots /\ q.Tail \in Slots
  BY <1>1, CountIs
<1>3. \A i \in 1 .. Count(q) : (q.Head + i - 1) % MaxCount = Place(q.Head, i)
  BY <1>0, <1>2, PlaceIs
<1>4. \A i \in 1 .. Count(q) : q.Buffer[(q.Head + i - 1) % MaxCount] \in KeyDatas
  BY DEF Filled
<1>5. Contents(q) \in Seq(KeyDatas) /\ Len(Contents(q)) = Count(q)
  BY <1>0, <1>2, <1>4 DEF Contents
<1>6. Count(q) = 0 <=> IsEfikeyBufEmpty(q)
  BY <1>0, <1>1, <1>2, CountIs DEF IsEfikeyBufEmpty, Slots
<1>7. \A i \in 1 .. Count(q) : Contents(q)[i] = q.Buffer[(q.Head + i - 1) % MaxCount]
  BY DEF Contents
<1> QED BY <1>0, <1>1, <1>2, <1>3, <1>4, <1>5, <1>6, <1>7

\* A ring that holds the keys of a sequence is filled, and the sequence is its
\* contents.
LEMMA RingOf ==
    ASSUME NEW r \in Queues(KeyDatas), NEW s \in Seq(KeyDatas), Count(r) = Len(s),
           \A i \in 1 .. Len(s) : r.Buffer[Place(r.Head, i)] = s[i]
    PROVE  Filled(r) /\ Contents(r) = s
<1>0. MaxCount \in Nat
  BY QueueAssumption
<1>1. Count(r) \in 0 .. MaxCount - 1 /\ r.Head \in Slots
  BY CountIs
<1>2. \A i \in 1 .. Count(r) : (r.Head + i - 1) % MaxCount = Place(r.Head, i)
  BY <1>0, <1>1, PlaceIs
<1>3. \A i \in 1 .. Count(r) : r.Buffer[(r.Head + i - 1) % MaxCount] = s[i]
  BY <1>2
<1>4. \A i \in 1 .. Count(r) : s[i] \in KeyDatas
  OBVIOUS
<1>5. Filled(r)
  BY <1>3, <1>4 DEF Filled
<1>6. Contents(r) = [i \in 1 .. Len(s) |-> s[i]]
  BY <1>3 DEF Contents
<1> QED BY <1>5, <1>6

\* PopEfikeyBufHead takes the oldest key of a ring that has one.
LEMMA PopIs ==
    ASSUME NEW q, Filled(q), Count(q) # 0
    PROVE  /\ PopEfikeyBufHead(q) = Advanced(q) /\ Filled(Advanced(q))
           /\ Contents(Advanced(q)) = Tail(Contents(q))
           /\ HeadData(q) = Contents(q)[1]
           /\ Count(Advanced(q)) = Count(q) - 1
<1> DEFINE r == Advanced(q)
           s == Tail(Contents(q))
<1>0. MaxCount \in Nat /\ MaxCount >= 2
  BY QueueAssumption
<1>1. /\ q \in Queues(KeyDatas) /\ Count(q) \in 1 .. MaxCount - 1
      /\ Contents(q) \in Seq(KeyDatas) /\ Len(Contents(q)) = Count(q)
      /\ \A i \in 1 .. Count(q) : Contents(q)[i] = q.Buffer[Place(q.Head, i)]
  BY ContentsIs, <1>0
<1>2. q.Head \in 0 .. MaxCount - 1 /\ q.Tail \in 0 .. MaxCount - 1 /\ q.Head \in Slots
      /\ Count(q) = IF q.Tail >= q.Head THEN q.Tail - q.Head ELSE q.Tail + MaxCount - q.Head
  BY <1>1, CountIs DEF Slots
<1>3. /\ (q.Head + 1) % MaxCount = IF q.Head = MaxCount - 1 THEN 0 ELSE q.Head + 1
      /\ (q.Head + 1) % MaxCount \in Slots
  BY <1>2, Successor
<1>4. /\ r \in Queues(KeyDatas) /\ r.Buffer = q.Buffer /\ r.Tail = q.Tail
      /\ r.Head = IF q.Head = MaxCount - 1 THEN 0 ELSE q.Head + 1
  BY <1>1, <1>3 DEF Advanced, Queues
<1>5. Count(r) = Count(q) - 1
  <2>1. Count(r) = IF r.Tail >= r.Head THEN r.Tail - r.Head ELSE r.Tail + MaxCount - r.Head
    BY <1>4, CountIs
  <2> HIDE DEF r
  <2> QED BY <2>1, <1>0, <1>1, <1>2, <1>4
<1>6. s \in Seq(KeyDatas) /\ Len(s) = Count(q) - 1
      /\ \A i \in 1 .. Len(s) : s[i] = Contents(q)[i + 1]
  BY <1>1
<1>7. \A i \in 1 .. Len(s) : r.Buffer[Place(r.Head, i)] = s[i]
  <2> SUFFICES ASSUME NEW i \in 1 .. Count(q) - 1
               PROVE  r.Buffer[Place(r.Head, i)] = s[i]
    BY <1>6
  <2>1. i + 1 \in 1 .. Count(q) /\ s[i] = q.Buffer[Place(q.Head, i + 1)]
    BY <1>1, <1>6
  <2>2. Place(r.Head, i) = Place(q.Head, i + 1)
    <3> HIDE DEF r, s
    <3> QED BY <1>0, <1>1, <1>2, <1>4 DEF Place
  <2> QED BY <2>1, <2>2, <1>4
<1>8. Filled(r) /\ Contents(r) = s
  <2> HIDE DEF r, s
  <2> QED BY <1>4, <1>5, <1>6, <1>7, RingOf
<1>9. HeadData(q) = Contents(q)[1]
  <2>1. Place(q.Head, 1) = q.Head
    BY <1>0, <1>2 DEF Place
  <2> QED BY <2>1, <1>1, <1>0 DEF HeadData
<1>10. PopEfikeyBufHead(q) = r
  BY ContentsIs DEF PopEfikeyBufHead
<1> QED BY <1>5, <1>8, <1>9, <1>10

\* A push to a ring with room.
LEMMA PushRoom ==
    ASSUME NEW q, Filled(q), Count(q) < MaxCount - 1, NEW d \in KeyDatas,
           NEW r, r = [q EXCEPT !.Buffer = [@ EXCEPT ![q.Tail] = d],
                                !.Tail = (@ + 1) % MaxCount]
    PROVE  /\ Filled(r) /\ Contents(r) = Append(Contents(q), d)
           /\ Count(r) = Count(q) + 1
<1> DEFINE s == Append(Contents(q), d)
<1>0. MaxCount \in Nat /\ MaxCount >= 2
  BY QueueAssumption
<1>1. /\ q \in Queues(KeyDatas) /\ Count(q) \in 0 .. MaxCount - 1
      /\ Contents(q) \in Seq(KeyDatas) /\ Len(Contents(q)) = Count(q)
      /\ \A i \in 1 .. Count(q) : Contents(q)[i] = q.Buffer[Place(q.Head, i)]
  BY ContentsIs, <1>0
<1>2. q.Head \in 0 .. MaxCount - 1 /\ q.Tail \in 0 .. MaxCount - 1 /\ q.Tail \in Slots
      /\ q.Head \in Slots
      /\ Count(q) = IF q.Tail >= q.Head THEN q.Tail - q.Head ELSE q.Tail + MaxCount - q.Head
  BY <1>1, CountIs DEF Slots
<1>3. /\ (q.Tail + 1) % MaxCount = IF q.Tail = MaxCount - 1 THEN 0 ELSE q.Tail + 1
      /\ (q.Tail + 1) % MaxCount \in Slots
  BY <1>2, Successor
<1>4. /\ r \in Queues(KeyDatas) /\ r.Buffer = [q.Buffer EXCEPT ![q.Tail] = d]
      /\ r.Head = q.Head
      /\ r.Tail = IF q.Tail = MaxCount - 1 THEN 0 ELSE q.Tail + 1
  <2>1. [q.Buffer EXCEPT ![q.Tail] = d] \in [Slots -> KeyDatas \union {NoData}]
    BY <1>1, <1>2 DEF Queues
  <2> QED BY <1>1, <1>3, <2>1 DEF Queues
<1>5. Count(r) = Count(q) + 1
  <2>1. Count(r) = IF r.Tail >= r.Head THEN r.Tail - r.Head ELSE r.Tail + MaxCount - r.Head
    BY <1>4, CountIs
  <2>2. \A h, t, u, c : h \in 0 .. MaxCount - 1 /\ t \in 0 .. MaxCount - 1
            /\ u = (IF t = MaxCount - 1 THEN 0 ELSE t + 1)
            /\ c = (IF t >= h THEN t - h ELSE t + MaxCount - h) /\ c < MaxCount - 1
            => (IF u >= h THEN u - h ELSE u + MaxCount - h) = c + 1
    BY <1>0
  <2> QED BY <2>1, <2>2, <1>2, <1>4
<1>6. s \in Seq(KeyDatas) /\ Len(s) = Count(q) + 1
      /\ s[Count(q) + 1] = d
      /\ \A i \in 1 .. Count(q) : s[i] = Contents(q)[i]
  BY <1>1
<1>7. ASSUME NEW i \in 1 .. Count(q)
      PROVE  r.Buffer[Place(r.Head, i)] = s[i]
  <2>1. \A h, t, c : h \in 0 .. MaxCount - 1 /\ t \in 0 .. MaxCount - 1 /\ i \in 1 .. c
            /\ c = (IF t >= h THEN t - h ELSE t + MaxCount - h) /\ c < MaxCount - 1
            => Place(h, i) # t
    BY <1>0, <1>1 DEF Place
  <2>2. Place(q.Head, i) # q.Tail
    BY <2>1, <1>2
  <2>3. Place(q.Head, i) \in Slots
    BY <1>0, <1>1, <1>2, PlaceIs
  <2> QED BY <2>2, <2>3, <1>1, <1>4, <1>6 DEF Queues
<1>8. r.Buffer[Place(r.Head, Count(q) + 1)] = d
  <2>1. Place(q.Head, Count(q) + 1) = q.Tail
    BY <1>0, <1>1, <1>2 DEF Place
  <2> QED BY <2>1, <1>1, <1>2, <1>4 DEF Queues
<1>9. \A i \in 1 .. Len(s) : r.Buffer[Place(r.Head, i)] = s[i]
  <2> SUFFICES ASSUME NEW i \in 1 .. Count(q) + 1
               PROVE  r.Buffer[Place(r.Head, i)] = s[i]
    BY <1>6
  <2>1. i \in 1 .. Count(q) \/ i = Count(q) + 1
    BY <1>1
  <2> HIDE DEF s
  <2> QED BY <2>1, <1>6, <1>7, <1>8
<1>10. Filled(r) /\ Contents(r) = s
  <2> HIDE DEF s
  <2> QED BY <1>4, <1>5, <1>6, <1>9, RingOf
<1> QED BY <1>5, <1>10

\* PushEfikeyBufTail adds a key; in a full ring the oldest makes room.
LEMMA PushIs ==
    ASSUME NEW q, Filled(q), NEW d \in KeyDatas
    PROVE  LET r == PushEfikeyBufTail(q, d)
           IN  /\ Filled(r) /\ Count(r) # 0
               /\ Contents(r) = IF Count(q) = MaxCount - 1 THEN Append(Tail(Contents(q)), d)
                                                          ELSE Append(Contents(q), d)
               /\ Count(r) = IF Count(q) = MaxCount - 1 THEN Count(q) ELSE Count(q) + 1
<1> DEFINE r == PushEfikeyBufTail(q, d)
<1>0. MaxCount \in Nat /\ MaxCount >= 2
  BY QueueAssumption
<1>1. q \in Queues(KeyDatas) /\ Count(q) \in 0 .. MaxCount - 1
  BY ContentsIs
<1>2. q.Head \in 0 .. MaxCount - 1 /\ q.Tail \in 0 .. MaxCount - 1 /\ q.Tail \in Slots
      /\ Count(q) = IF q.Tail >= q.Head THEN q.Tail - q.Head ELSE q.Tail + MaxCount - q.Head
  BY <1>1, CountIs DEF Slots
<1>3. (q.Tail + 1) % MaxCount = q.Head <=> Count(q) = MaxCount - 1
  <2>1. (q.Tail + 1) % MaxCount = IF q.Tail = MaxCount - 1 THEN 0 ELSE q.Tail + 1
    BY <1>2, Successor
  <2> QED BY <2>1, <1>0, <1>2
<1>4. CASE Count(q) = MaxCount - 1
  <2>1. /\ MakeRoom(q) = Advanced(q) /\ Filled(Advanced(q))
        /\ Contents(Advanced(q)) = Tail(Contents(q)) /\ Count(Advanced(q)) = MaxCount - 2
    BY <1>0, <1>3, <1>4, PopIs DEF MakeRoom
  <2>2. r = [Advanced(q) EXCEPT !.Buffer = [@ EXCEPT ![Advanced(q).Tail] = d],
                                !.Tail = (@ + 1) % MaxCount]
    BY <2>1 DEF PushEfikeyBufTail
  <2> HIDE DEF r
  <2>3. Filled(r) /\ Contents(r) = Append(Tail(Contents(q)), d) /\ Count(r) = MaxCount - 1
    <3>1. Count(Advanced(q)) < MaxCount - 1 /\ Count(Advanced(q)) + 1 = MaxCount - 1
      BY <2>1, <1>0
    <3> QED BY <2>1, <2>2, <3>1, PushRoom
  <2> QED BY <2>3, <1>0, <1>4 DEF r
<1>5. CASE Count(q) # MaxCount - 1
  <2>1. MakeRoom(q) = q /\ Count(q) < MaxCount - 1
    BY <1>0, <1>1, <1>3, <1>5 DEF MakeRoom
  <2>2. r = [q EXCEPT !.Buffer = [@ EXCEPT ![q.Tail] = d], !.Tail = (@ + 1) % MaxCount]
    BY <2>1 DEF PushEfikeyBufTail
  <2> HIDE DEF r
  <2>3. Filled(r) /\ Contents(r) = Append(Contents(q), d) /\ Count(r) = Count(q) + 1
    BY <2>1, <2>2, PushRoom
  <2>4. Count(r) # 0
    BY <2>3, <1>1, <1>0
  <2> QED BY <2>3, <2>4, <1>5 DEF r
<1> QED BY <1>4, <1>5

\* The ring of a new device and the ring after InitKeypad are empty.
LEMMA EmptyIs ==
    /\ Filled(ZeroQueue) /\ Contents(ZeroQueue) = <<>> /\ Count(ZeroQueue) = 0
    /\ \A q : Filled(q) => /\ Filled(Cleared(q)) /\ Contents(Cleared(q)) = <<>>
                           /\ Count(Cleared(q)) = 0
<1>0. MaxCount \in Nat /\ 0 \in Slots /\ <<>> \in Seq(KeyDatas) /\ Len(<<>>) = 0
  BY QueueAssumption DEF Slots
<1>1. ASSUME NEW r \in Queues(KeyDatas), r.Head = 0, r.Tail = 0
      PROVE  Filled(r) /\ Contents(r) = <<>> /\ Count(r) = 0
  <2>1. Count(r) = 0
    BY <1>0, <1>1, CountIs
  <2>2. \A i \in 1 .. Len(<<>>) : r.Buffer[Place(r.Head, i)] = <<>>[i]
    BY <1>0
  <2> QED BY <2>1, <2>2, <1>0, RingOf
<1>2. ZeroQueue \in Queues(KeyDatas) /\ ZeroQueue.Head = 0 /\ ZeroQueue.Tail = 0
  BY <1>0 DEF ZeroQueue, Queues
<1>3. ASSUME NEW q, Filled(q)
      PROVE  Cleared(q) \in Queues(KeyDatas) /\ Cleared(q).Head = 0 /\ Cleared(q).Tail = 0
  <2>1. q \in Queues(KeyDatas)
    BY <1>3, ContentsIs
  <2> QED BY <2>1, <1>0 DEF Cleared, Queues
<1> QED BY <1>1, <1>2, <1>3

\* KeypadWaitForKey moves Head past k keys.
LEMMA SkipIs ==
    ASSUME NEW q, Filled(q), NEW k \in 0 .. Count(q),
           NEW r, r = [q EXCEPT !.Head = (@ + k) % MaxCount]
    PROVE  Filled(r) /\ Contents(r) = SubSeq(Contents(q), k + 1, Count(q))
<1> DEFINE s == SubSeq(Contents(q), k + 1, Count(q))
<1>0. MaxCount \in Nat /\ MaxCount >= 2
  BY QueueAssumption
<1>1. /\ q \in Queues(KeyDatas) /\ Count(q) \in 0 .. MaxCount - 1
      /\ Contents(q) \in Seq(KeyDatas) /\ Len(Contents(q)) = Count(q)
      /\ \A i \in 1 .. Count(q) : Contents(q)[i] = q.Buffer[Place(q.Head, i)]
  BY ContentsIs, <1>0
<1>2. q.Head \in 0 .. MaxCount - 1 /\ q.Tail \in 0 .. MaxCount - 1 /\ q.Head \in Slots
      /\ Count(q) = IF q.Tail >= q.Head THEN q.Tail - q.Head ELSE q.Tail + MaxCount - q.Head
  BY <1>1, CountIs DEF Slots
<1>3. (q.Head + k) % MaxCount = Place(q.Head, k + 1) /\ Place(q.Head, k + 1) \in Slots
  <2>1. k + 1 \in 1 .. MaxCount /\ q.Head + (k + 1) - 1 = q.Head + k
    BY <1>0, <1>1, <1>2
  <2> QED BY <2>1, <1>2, PlaceIs
<1>4. /\ r \in Queues(KeyDatas) /\ r.Buffer = q.Buffer /\ r.Tail = q.Tail
      /\ r.Head = Place(q.Head, k + 1)
  BY <1>1, <1>3 DEF Queues
<1>5. Count(r) = Count(q) - k
  <2>1. Count(r) = IF r.Tail >= r.Head THEN r.Tail - r.Head ELSE r.Tail + MaxCount - r.Head
    BY <1>4, CountIs
  <2>2. \A h, t, c : h \in 0 .. MaxCount - 1 /\ t \in 0 .. MaxCount - 1 /\ k \in 0 .. c
            /\ c = (IF t >= h THEN t - h ELSE t + MaxCount - h)
            => (IF t >= Place(h, k + 1) THEN t - Place(h, k + 1)
                                        ELSE t + MaxCount - Place(h, k + 1)) = c - k
    BY <1>0, <1>1 DEF Place
  <2> QED BY <2>1, <2>2, <1>2, <1>4
<1>6. s \in Seq(KeyDatas) /\ Len(s) = Count(q) - k
      /\ \A i \in 1 .. Len(s) : s[i] = Contents(q)[i + k]
  BY <1>1
<1>7. ASSUME NEW i \in 1 .. Count(q) - k
      PROVE  r.Buffer[Place(r.Head, i)] = s[i]
  <2>1. i + k \in 1 .. Count(q) /\ s[i] = q.Buffer[Place(q.Head, i + k)]
    BY <1>1, <1>6
  <2>2. \A h, c : h \in 0 .. MaxCount - 1 /\ c \in 0 .. MaxCount - 1 /\ i \in 1 .. c - k
            /\ k \in 0 .. c => Place(Place(h, k + 1), i) = Place(h, i + k)
    BY <1>0 DEF Place
  <2> QED BY <2>1, <2>2, <1>1, <1>2, <1>4
<1>8. Filled(r) /\ Contents(r) = s
  <2> HIDE DEF s
  <2> QED BY <1>4, <1>5, <1>6, <1>7, RingOf
<1> QED BY <1>8

\* A set of natural numbers that is not empty has a least element.
LEMMA LeastNat ==
    ASSUME NEW S \in SUBSET Nat, S # {}
    PROVE  \E x \in S : \A y \in S : x <= y
<1>1. PICK x \in S : \A y \in S : ~(<<y, x>> \in OpToRel(<, Nat))
  BY NatLessThanWellFounded, WFMin
<1>2. \A y \in S : ~(y < x)
  BY <1>1 DEF OpToRel
<1> QED BY <1>2

\* KeypadWaitForKey drops the partial keys at the head and no other.
LEMMA SkipPartialIs ==
    ASSUME NEW q, Filled(q)
    PROVE  /\ Filled(SkipPartial(q))
           /\ \E k \in 0 .. Count(q) :
                 /\ Contents(SkipPartial(q)) = SubSeq(Contents(q), k + 1, Count(q))
                 /\ \A i \in 1 .. k : IsPartial(Contents(q)[i])
<1> DEFINE full == {i \in 1 .. Count(q) : ~IsPartial(Contents(q)[i])}
           first == IF full = {} THEN Count(q) + 1
                    ELSE CHOOSE i \in full : \A j \in full : i <= j
<1>0. MaxCount \in Nat /\ Count(q) \in Nat /\ q.Head \in 0 .. MaxCount - 1
  BY QueueAssumption, ContentsIs, CountIs DEF Slots
<1>1. first \in 1 .. Count(q) + 1 /\ \A i \in 1 .. first - 1 : IsPartial(Contents(q)[i])
  <2>1. CASE full = {}
    BY <2>1, <1>0
  <2>2. CASE full # {}
    <3>1. full \in SUBSET Nat
      BY <1>0
    <3>2. \E i \in full : \A j \in full : i <= j
      BY <2>2, <3>1, LeastNat
    <3>3. first \in full /\ \A j \in full : first <= j
      BY <2>2, <3>2
    <3> QED BY <3>3, <1>0
  <2> QED BY <2>1, <2>2
<1>2. SkipPartial(q) = [q EXCEPT !.Head = (@ + first - 1) % MaxCount]
  BY DEF SkipPartial
<1> HIDE DEF first
<1> DEFINE k == first - 1
<1>3. k \in 0 .. Count(q) /\ q.Head + first - 1 = q.Head + k
  BY <1>0, <1>1
<1>4. SkipPartial(q) = [q EXCEPT !.Head = (@ + k) % MaxCount]
  BY <1>2, <1>3
<1>5. \A i \in 1 .. k : IsPartial(Contents(q)[i])
  BY <1>1
<1> HIDE DEF k
<1>6. Filled(SkipPartial(q)) /\ Contents(SkipPartial(q)) = SubSeq(Contents(q), k + 1, Count(q))
  BY <1>3, <1>4, SkipIs
<1> QED BY <1>3, <1>5, <1>6

\* The keys in a ring after each operation.
LEMMA EntriesIs ==
    ASSUME NEW q, Filled(q)
    PROVE  /\ Entries(q) \subseteq KeyDatas
           /\ In(q) = {d.n : d \in Entries(q)}
           /\ Count(q) = 0 => Entries(q) = {}
           /\ \A d \in KeyDatas : Entries(PushEfikeyBufTail(q, d)) \subseteq Entries(q) \union {d}
           /\ Count(q) # 0 => /\ HeadData(q) \in Entries(q)
                              /\ Entries(q) = {HeadData(q)} \union Entries(Advanced(q))
<1>1. Count(q) \in Nat /\ Contents(q) \in Seq(KeyDatas) /\ Len(Contents(q)) = Count(q)
      /\ \A i \in 1 .. Count(q) : Contents(q)[i] \in KeyDatas
  BY ContentsIs
<1>2. Entries(q) \subseteq KeyDatas /\ In(q) = {d.n : d \in Entries(q)}
  BY <1>1 DEF Entries, In
<1>3. Count(q) = 0 => Entries(q) = {}
  BY DEF Entries
<1>4. ASSUME NEW d \in KeyDatas
      PROVE  Entries(PushEfikeyBufTail(q, d)) \subseteq Entries(q) \union {d}
  <2> DEFINE r == PushEfikeyBufTail(q, d)
  <2>1. /\ Contents(r) = IF Count(q) = MaxCount - 1 THEN Append(Tail(Contents(q)), d)
                                                   ELSE Append(Contents(q), d)
        /\ Count(r) = IF Count(q) = MaxCount - 1 THEN Count(q) ELSE Count(q) + 1
    BY PushIs
  <2> HIDE DEF r
  <2>2. ASSUME NEW i \in 1 .. Count(r)
        PROVE  Contents(r)[i] = d \/ \E j \in 1 .. Count(q) : Contents(r)[i] = Contents(q)[j]
    <3>1. CASE Count(q) = MaxCount - 1
      <4>1. Count(q) # 0 /\ Contents(r) = Append(Tail(Contents(q)), d) /\ Count(r) = Count(q)
        BY <2>1, <3>1, QueueAssumption
      <4>2. Len(Tail(Contents(q))) = Count(q) - 1
            /\ \A j \in 1 .. Count(q) - 1 : Tail(Contents(q))[j] = Contents(q)[j + 1]
        BY <1>1, <4>1
      <4>3. CASE i = Count(q)
        BY <4>1, <4>2, <4>3, <1>1
      <4>4. CASE i # Count(q)
        <5>1. i \in 1 .. Count(q) - 1 /\ i + 1 \in 1 .. Count(q)
          BY <4>1, <4>4, <1>1
        <5>2. Contents(r)[i] = Contents(q)[i + 1]
          BY <4>1, <4>2, <5>1, <1>1
        <5> QED BY <5>1, <5>2
      <4> QED BY <4>3, <4>4
    <3>2. CASE Count(q) # MaxCount - 1
      <4>1. Contents(r) = Append(Contents(q), d) /\ Count(r) = Count(q) + 1
        BY <2>1, <3>2
      <4>2. i = Count(q) + 1 \/ i \in 1 .. Count(q)
        BY <4>1, <1>1
      <4> QED BY <4>1, <4>2, <1>1
    <3> QED BY <3>1, <3>2
  <2> QED BY <2>2 DEF Entries, r
<1>5. ASSUME Count(q) # 0
      PROVE  HeadData(q) \in Entries(q) /\ Entries(q) = {HeadData(q)} \union Entries(Advanced(q))
  <2>1. /\ Contents(Advanced(q)) = Tail(Contents(q)) /\ HeadData(q) = Contents(q)[1]
        /\ Count(Advanced(q)) = Count(q) - 1
    BY <1>5, PopIs
  <2>2. \A j \in 1 .. Count(q) - 1 : Contents(Advanced(q))[j] = Contents(q)[j + 1]
    BY <1>1, <1>5, <2>1
  <2>3. HeadData(q) \in Entries(q)
    BY <1>1, <1>5, <2>1 DEF Entries
  <2>4. ASSUME NEW e \in Entries(Advanced(q))
        PROVE  e \in Entries(q)
    <3>1. PICK j \in 1 .. Count(q) - 1 : e = Contents(Advanced(q))[j]
      BY <2>1 DEF Entries
    <3>2. j + 1 \in 1 .. Count(q) /\ e = Contents(q)[j + 1]
      BY <3>1, <2>2, <1>1
    <3> QED BY <3>2 DEF Entries
  <2>5. ASSUME NEW e \in Entries(q)
        PROVE  e = HeadData(q) \/ e \in Entries(Advanced(q))
    <3>1. PICK j \in 1 .. Count(q) : e = Contents(q)[j]
      BY DEF Entries
    <3>2. j = 1 \/ j - 1 \in 1 .. Count(q) - 1
      BY <1>1
    <3>3. CASE j = 1
      BY <3>1, <3>3, <2>1
    <3>4. CASE j - 1 \in 1 .. Count(q) - 1
      <4>1. e = Contents(Advanced(q))[j - 1]
        BY <3>1, <3>4, <2>2, <1>1
      <4> QED BY <4>1, <3>4, <2>1 DEF Entries
    <3> QED BY <3>2, <3>3, <3>4
  <2> QED BY <2>3, <2>4, <2>5
<1> QED BY <1>2, <1>3, <1>4, <1>5

\* f[k] is q after k pushes of d, up to n.
AfterPushes(f, q, d, n) ==
    f = [k \in 0 .. n |-> IF k = 0 THEN q ELSE PushEfikeyBufTail(f[k - 1], d)]

\* Pushing a key n times is well defined.
LEMMA Pushes ==
    ASSUME NEW q, NEW d, NEW n \in Nat
    PROVE  \E f : AfterPushes(f, q, d, n)
<1> DEFINE Good(m, f) == f = [k \in 0 .. m |-> IF k = 0 THEN q
                                              ELSE PushEfikeyBufTail(f[k - 1], d)]
           S == {m \in Nat : ~\E f : Good(m, f)}
<1>1. SUFFICES ASSUME S # {} PROVE FALSE
  BY DEF AfterPushes
<1>2. PICK m \in S : \A y \in S : m <= y
  <2>1. S \in SUBSET Nat
    OBVIOUS
  <2> HIDE DEF S
  <2> QED BY <1>1, <2>1, LeastNat
<1>3. CASE m = 0
  <2>1. Good(0, [k \in 0 .. 0 |-> q])
    OBVIOUS
  <2> QED BY <2>1, <1>2, <1>3
<1>4. CASE m # 0
  <2>1. m \in Nat /\ m - 1 \in Nat /\ ~(m <= m - 1)
    BY <1>2, <1>4
  <2>2. m - 1 \notin S
    BY <1>2, <2>1
  <2>3. PICK f : Good(m - 1, f)
    BY <2>1, <2>2
  <2> DEFINE g == [k \in 0 .. m |-> IF k = m THEN PushEfikeyBufTail(f[m - 1], d) ELSE f[k]]
  <2>4. ASSUME NEW k \in 0 .. m
        PROVE  g[k] = IF k = 0 THEN q ELSE PushEfikeyBufTail(g[k - 1], d)
    <3>1. CASE k = m
      <4>1. g[k - 1] = f[m - 1] /\ g[k] = PushEfikeyBufTail(f[m - 1], d)
        BY <3>1, <2>1
      <4> QED BY <4>1, <3>1, <1>4
    <3>2. CASE k # m
      <4>1. k \in 0 .. m - 1 /\ g[k] = f[k]
        BY <3>2, <2>1
      <4>2. f[k] = IF k = 0 THEN q ELSE PushEfikeyBufTail(f[k - 1], d)
        BY <4>1, <2>3
      <4>3. k # 0 => g[k - 1] = f[k - 1]
        BY <4>1, <2>1
      <4> QED BY <4>1, <4>2, <4>3
    <3> QED BY <3>1, <3>2
  <2>5. g = [k \in 0 .. m |-> IF k = 0 THEN q ELSE PushEfikeyBufTail(g[k - 1], d)]
    <3>1. g = [k \in 0 .. m |-> g[k]]
      OBVIOUS
    <3> HIDE DEF g
    <3> QED BY <3>1, <2>4
  <2>6. \E h : Good(m, h)
    <3> HIDE DEF g
    <3> QED BY <2>5
  <2> QED BY <2>6, <1>2
<1> QED BY <1>3, <1>4

\* What PushedForNotify computes from the number of registrations that match.
LEMMA PushedIs ==
    ASSUME NEW d \in KeyDatas, Filled(EfiKeyQueueForNotify), ListInv
    PROVE  /\ Filled(PushedForNotify(d))
           /\ Entries(PushedForNotify(d)) \subseteq Entries(EfiKeyQueueForNotify) \union {d}
           /\ Matching(d) = {} => PushedForNotify(d) = EfiKeyQueueForNotify
<1> DEFINE q == EfiKeyQueueForNotify
           n == Len(NotifyList)
           push == CHOOSE f : AfterPushes(f, q, d, n)
           c == Cardinality(Matching(d))
<1>1. n \in Nat
  BY DEF ListInv
<1>2. PushedForNotify(d) = push[c]
  BY DEF PushedForNotify, AfterPushes
<1>3. AfterPushes(push, q, d, n)
  <2>1. \E f : AfterPushes(f, q, d, n)
    <3> HIDE DEF n, q
    <3> QED BY <1>1, Pushes
  <2> QED BY <2>1
<1>4. push[0] = q /\ \A k \in 1 .. n : push[k] = PushEfikeyBufTail(push[k - 1], d)
  <2> HIDE DEF push, n, q
  <2>1. \A k \in 0 .. n : push[k] = IF k = 0 THEN q ELSE PushEfikeyBufTail(push[k - 1], d)
    BY <1>3 DEF AfterPushes
  <2> QED BY <1>1, <2>1
<1>5. c \in 0 .. n /\ (Matching(d) = {} => c = 0)
  <2>1. Matching(d) \subseteq 1 .. n /\ IsFiniteSet(1 .. n) /\ Cardinality(1 .. n) = n
    BY <1>1, FS_Interval DEF Matching
  <2>2. IsFiniteSet(Matching(d)) /\ c <= n
    BY <2>1, FS_Subset
  <2>3. c \in Nat
    BY <2>2, FS_CardinalityType
  <2> QED BY <2>2, <2>3, <1>1, FS_EmptySet
<1> HIDE DEF push, c, n
<1> DEFINE Bad == {k \in 0 .. n : ~(Filled(push[k]) /\ Entries(push[k]) \subseteq Entries(q) \union {d})}
<1>6. Bad = {}
  <2>1. SUFFICES ASSUME Bad # {} PROVE FALSE
    OBVIOUS
  <2>2. PICK k \in Bad : \A y \in Bad : k <= y
    <3>1. Bad \in SUBSET Nat
      BY <1>1
    <3> HIDE DEF Bad
    <3> QED BY <2>1, <3>1, LeastNat
  <2>3. k # 0
    BY <1>4, <2>2
  <2>4. k \in 1 .. n /\ k - 1 \in 0 .. n /\ ~(k <= k - 1)
    BY <2>2, <2>3, <1>1
  <2>5. k - 1 \notin Bad
    BY <2>2, <2>4
  <2>6. Filled(push[k - 1]) /\ Entries(push[k - 1]) \subseteq Entries(q) \union {d}
    BY <2>4, <2>5
  <2>7. Filled(push[k])
        /\ Entries(push[k]) \subseteq Entries(push[k - 1]) \union {d}
    BY <1>4, <2>4, <2>6, PushIs, EntriesIs
  <2>8. k \notin Bad
    BY <2>6, <2>7
  <2> QED BY <2>2, <2>8
<1>7. Filled(push[c]) /\ Entries(push[c]) \subseteq Entries(q) \union {d}
  BY <1>5, <1>6
<1>8. Matching(d) = {} => push[c] = q
  BY <1>4, <1>5
<1> QED BY <1>2, <1>7, <1>8

-----------------------------------------------------------------------------
(* The list of registrations.                                               *)

\* Handles are positive numbers, and a handle names one node.
LEMMA ListFacts ==
    ASSUME ListInv
    PROVE  /\ Len(NotifyList) \in Nat /\ handles \in Nat /\ MaxHandles \in Nat
           /\ \A i \in 1 .. Len(NotifyList) :
                 /\ NotifyList[i] \in Notifies /\ NotifyList[i].handle \in Handles
                 /\ NotifyList[i].handle \in Nat /\ NotifyList[i].handle > 0
           /\ \A i, j \in 1 .. Len(NotifyList) :
                 NotifyList[i].handle = NotifyList[j].handle => i = j
<1>1. MaxHandles \in Nat
  BY ConsoleAssumption
<1>2. Len(NotifyList) \in Nat /\ handles \in Nat
      /\ \A i \in 1 .. Len(NotifyList) : NotifyList[i] \in Notifies
  BY <1>1 DEF ListInv
<1>3. \A r \in Notifies : r.handle \in Handles /\ r.handle \in Nat /\ r.handle > 0
  BY <1>1 DEF Notifies, Handles
<1>4. ASSUME NEW i \in 1 .. Len(NotifyList), NEW j \in 1 .. Len(NotifyList),
             NotifyList[i].handle = NotifyList[j].handle
      PROVE  i = j
  <2>1. ~(i < j) /\ ~(j < i)
    BY <1>2, <1>3, <1>4 DEF ListInv
  <2> QED BY <2>1, <1>2
<1> QED BY <1>1, <1>2, <1>3, <1>4

\* The node of a handle that is in the list.
LEMMA PositionIs ==
    ASSUME ListInv, NEW h, \E i \in 1 .. Len(NotifyList) : NotifyList[i].handle = h
    PROVE  PositionOf(h) \in 1 .. Len(NotifyList) /\ NotifyList[PositionOf(h)].handle = h
BY DEF PositionOf

\* The node after a live one: nothing lies between, and the list ends after it
\* if there is none.
LEMMA NextLinkIs ==
    ASSUME ListInv, LinkIsLive, OnKey, Link # Nobody
    PROVE  /\ NextLink \in Handles \union {Nobody}
           /\ NextLink # Nobody => \E i \in 1 .. Len(NotifyList) : NotifyList[i].handle = NextLink
           /\ \A i \in 1 .. Len(NotifyList) : NotifyList[i].handle > Link =>
                 NextLink # Nobody /\ NotifyList[i].handle >= NextLink
<1> DEFINE p == PositionOf(Link)
<1>1. p \in 1 .. Len(NotifyList) /\ NotifyList[p].handle = Link
  BY PositionIs DEF LinkIsLive, OnKey
<1>2. Len(NotifyList) \in Nat
      /\ \A i \in 1 .. Len(NotifyList) : NotifyList[i].handle \in Handles
           /\ NotifyList[i].handle \in Nat /\ NotifyList[i].handle > 0
  BY ListFacts
<1>3. NextLink = IF p = Len(NotifyList) THEN Nobody ELSE NotifyList[p + 1].handle
  BY DEF NextLink, Position
<1> HIDE DEF p
<1>4. p # Len(NotifyList) => p + 1 \in 1 .. Len(NotifyList)
  BY <1>1, <1>2
<1>5. ASSUME NEW i \in 1 .. Len(NotifyList), NotifyList[i].handle > Link
      PROVE  p # Len(NotifyList) /\ NotifyList[i].handle >= NotifyList[p + 1].handle
  <2>1. ~(i < p) /\ i # p
    BY <1>1, <1>2, <1>5 DEF ListInv
  <2>2. p + 1 <= i /\ p # Len(NotifyList) /\ p + 1 \in 1 .. Len(NotifyList)
    BY <2>1, <1>1, <1>2, <1>4
  <2>3. p + 1 < i \/ p + 1 = i
    BY <2>2, <1>1
  <2>4. NotifyList[p + 1].handle < NotifyList[i].handle \/ p + 1 = i
    BY <2>2, <2>3 DEF ListInv
  <2> QED BY <2>2, <2>4, <1>2
<1>6. NextLink # Nobody => p # Len(NotifyList) /\ NextLink = NotifyList[p + 1].handle
  BY <1>3
<1>7. p # Len(NotifyList) => NextLink # Nobody /\ NextLink = NotifyList[p + 1].handle
  BY <1>2, <1>3, <1>4 DEF Nobody
<1> QED BY <1>2, <1>3, <1>4, <1>5, <1>6, <1>7

\* The head of the list.
LEMMA FirstLinkIs ==
    ASSUME ListInv
    PROVE  /\ FirstLink \in Handles \union {Nobody}
           /\ FirstLink # Nobody => \E i \in 1 .. Len(NotifyList) : NotifyList[i].handle = FirstLink
           /\ \A i \in 1 .. Len(NotifyList) : FirstLink # Nobody /\ NotifyList[i].handle >= FirstLink
<1>1. Len(NotifyList) \in Nat
      /\ \A i \in 1 .. Len(NotifyList) : NotifyList[i].handle \in Handles
           /\ NotifyList[i].handle \in Nat /\ NotifyList[i].handle > 0
  BY ListFacts
<1>2. NotifyList = <<>> => Len(NotifyList) = 0
  OBVIOUS
<1>3. NotifyList # <<>> => 1 \in 1 .. Len(NotifyList)
  BY <1>1 DEF ListInv
<1>4. NotifyList # <<>> => FirstLink = NotifyList[1].handle /\ FirstLink # Nobody
  BY <1>1, <1>3 DEF FirstLink, Nobody
<1>5. NotifyList = <<>> => FirstLink = Nobody
  BY DEF FirstLink
<1>6. ASSUME NEW i \in 1 .. Len(NotifyList)
      PROVE  FirstLink # Nobody /\ NotifyList[i].handle >= FirstLink
  <2>1. NotifyList # <<>> /\ 1 \in 1 .. Len(NotifyList)
    BY <1>1, <1>2, <1>3
  <2>2. i = 1 \/ 1 < i
    BY <1>1
  <2>3. i = 1 \/ NotifyList[1].handle < NotifyList[i].handle
    BY <2>1, <2>2 DEF ListInv
  <2> QED BY <1>1, <1>4, <2>1, <2>3
<1> QED BY <1>1, <1>3, <1>4, <1>5, <1>6

\* KeypadUnregisterKeyNotify takes one node out and keeps the order.
LEMMA WithoutIs ==
    ASSUME ListInv, NEW h, \E i \in 1 .. Len(NotifyList) : NotifyList[i].handle = h,
           NotifyList' = Without(h), handles' = handles
    PROVE  /\ ListInv'
           /\ \A i \in 1 .. Len(NotifyList) : NotifyList[i].handle # h =>
                 \E j \in 1 .. Len(NotifyList') : NotifyList'[j] = NotifyList[i]
<1> DEFINE p == PositionOf(h)
           n == Len(NotifyList)
           s == NotifyList'
<1>1. p \in 1 .. n /\ NotifyList[p].handle = h
  BY PositionIs
<1>2. n \in Nat /\ \A i \in 1 .. n : NotifyList[i] \in Notifies
  BY ListFacts
<1>3. s = [i \in 1 .. (n - 1) |-> IF i < p THEN NotifyList[i] ELSE NotifyList[i + 1]]
  BY DEF Without
<1> HIDE DEF p, n
<1>4. n - 1 \in Nat /\ \A i \in 1 .. n - 1 : i \in 1 .. n /\ i + 1 \in 1 .. n
  BY <1>1, <1>2
<1>5. s \in Seq(Notifies) /\ Len(s) = n - 1
      /\ \A i \in 1 .. n - 1 : s[i] = IF i < p THEN NotifyList[i] ELSE NotifyList[i + 1]
  BY <1>2, <1>3, <1>4
<1> HIDE DEF s
<1>6. \A i \in 1 .. n - 1 : s[i].handle <= handles
  BY <1>4, <1>5 DEF ListInv, n
<1>7. ASSUME NEW i \in 1 .. n - 1, NEW j \in 1 .. n - 1, i < j
      PROVE  s[i].handle < s[j].handle
  <2> DEFINE a == IF i < p THEN i ELSE i + 1
             b == IF j < p THEN j ELSE j + 1
  <2>1. a \in 1 .. n /\ b \in 1 .. n /\ a < b /\ s[i] = NotifyList[a] /\ s[j] = NotifyList[b]
    BY <1>1, <1>2, <1>4, <1>5, <1>7
  <2> HIDE DEF a, b
  <2> QED BY <2>1 DEF ListInv, n
<1>8. ListInv'
  BY <1>5, <1>6, <1>7 DEF ListInv, s
<1>9. ASSUME NEW i \in 1 .. n, NotifyList[i].handle # h
      PROVE  \E j \in 1 .. n - 1 : s[j] = NotifyList[i]
  <2>1. i # p
    BY <1>1, <1>9
  <2>2. CASE i < p
    BY <2>2, <1>1, <1>2, <1>5
  <2>3. CASE i > p
    <3>1. i - 1 \in 1 .. n - 1 /\ ~(i - 1 < p) /\ (i - 1) + 1 = i
      BY <2>3, <1>1, <1>2
    <3> QED BY <3>1, <1>5
  <2> QED BY <2>1, <2>2, <2>3, <1>1, <1>2
<1> QED BY <1>5, <1>8, <1>9 DEF n, s

-----------------------------------------------------------------------------
(* Every step keeps the invariant.                                          *)

\* The numbers of strokes, and what the parts of the invariant say of them.
LEMMA StrokeFacts ==
    ASSUME IInv
    PROVE  /\ MaxStrokes \in Nat /\ strokes \in 0 .. MaxStrokes /\ strokes \in Nat
           /\ \A d \in KeyDatas : d.n \in 1 .. MaxStrokes /\ d.n \in Nat
           /\ Filled(EfiKeyQueue) /\ Filled(EfiKeyQueueForNotify)
           /\ Entries(EfiKeyQueueForNotify) \subseteq KeyDatas
           /\ In(EfiKeyQueueForNotify) = {d.n : d \in Entries(EfiKeyQueueForNotify)}
           /\ \A d \in Entries(EfiKeyQueueForNotify) : d.n <= strokes
           /\ OnKey => KeyData \in KeyDatas /\ KeyData.n <= strokes
           /\ \A o \in due : o[2] \in Nat /\ o[2] <= strokes /\ o[1] \in Handles
<1>1. MaxStrokes \in Nat /\ strokes \in 0 .. MaxStrokes /\ strokes \in Nat
  BY ConsoleAssumption DEF IInv, QueueInv
<1>2. \A d \in KeyDatas : d.n \in 1 .. MaxStrokes /\ d.n \in Nat
  BY <1>1 DEF KeyDatas
<1>3. Filled(EfiKeyQueue) /\ Filled(EfiKeyQueueForNotify)
      /\ \A d \in Entries(EfiKeyQueueForNotify) : d.n <= strokes
  BY DEF IInv, QueueInv, Typed
<1>4. Entries(EfiKeyQueueForNotify) \subseteq KeyDatas
      /\ In(EfiKeyQueueForNotify) = {d.n : d \in Entries(EfiKeyQueueForNotify)}
  BY <1>3, EntriesIs
<1>5. OnKey => KeyData \in KeyDatas /\ KeyData.n <= strokes
  BY DEF IInv, HandlerInv
<1>6. ASSUME NEW o \in due
      PROVE  o[2] \in Nat /\ o[2] <= strokes /\ o[1] \in Handles
  <2>1. o \in Handles \X (1 .. MaxStrokes)
    BY DEF IInv, DueInv
  <2>2. o[2] \in Nat /\ o[1] \in Handles
    BY <2>1, <1>1
  <2>3. o[2] \in In(EfiKeyQueueForNotify) \/ (OnKey /\ o[2] = KeyData.n)
    BY DEF IInv, DueInv, Owed
  <2> QED BY <2>2, <2>3, <1>3, <1>4, <1>5
<1> QED BY <1>1, <1>2, <1>3, <1>4, <1>5, <1>6

\* A key is typed: the notify ring gets a copy for every registration it matches.
LEMMA KeyForKeeps ==
    ASSUME IInv, NEW d \in KeyDatas, KeyFor(d), pc \in {"idle", "call"},
           UNCHANGED <<NotifyList, Toggle, handler, handles, resets>>, Filled(EfiKeyQueue')
    PROVE  IInv'
<1> DEFINE Q == EfiKeyQueueForNotify
<1>0. UNCHANGED <<NotifyList, Toggle, pc, KeyData, Link, handles, resets>>
  BY DEF handler
<1>1. /\ d.n = strokes + 1 /\ strokes' = strokes + 1
      /\ Q' = PushedForNotify(d) /\ signalled' = Signals(d)
  BY DEF KeyFor
<1>2. strokes' \in 0 .. MaxStrokes /\ strokes' \in Nat
  BY <1>1, StrokeFacts
<1>3. /\ Filled(Q') /\ Entries(Q') \subseteq Entries(Q) \union {d}
      /\ Matching(d) = {} => Q' = Q
  BY <1>1, StrokeFacts, PushedIs DEF IInv
<1>4. /\ Entries(Q') \subseteq KeyDatas /\ In(Q') = {e.n : e \in Entries(Q')}
  BY <1>3, EntriesIs
<1>5. \A e \in Entries(Q') : e.n <= strokes'
  BY <1>1, <1>3, StrokeFacts
<1>6. ListInv'
  BY <1>0 DEF IInv, ListInv
<1>7. QueueInv'
  BY <1>0, <1>2, <1>3, <1>5 DEF IInv, QueueInv, Typed
<1>8. HandlerInv'
  <2>1. OnKey' => KeyData' \in KeyDatas /\ KeyData'.n <= strokes'
    BY <1>0, <1>1, StrokeFacts DEF OnKey
  <2> QED BY <2>1, <1>0 DEF IInv, HandlerInv, LinkIsLive, OnKey
<1>9. SignalInv'
  <2>1. signalled' \in BOOLEAN
    BY <1>1 DEF Signals, IInv, SignalInv
  <2>2. ASSUME pc' = "idle", ~signalled' PROVE Count(Q') = 0
    <3>1. ~signalled /\ Matching(d) = {}
      BY <1>1, <2>2 DEF Signals
    <3> QED BY <3>1, <2>2, <1>0, <1>3 DEF IInv, SignalInv
  <2> QED BY <2>1, <2>2, <1>0 DEF IInv, SignalInv
<1>10. DueInv'
  <2>1. ASSUME NEW o \in due'
        PROVE  /\ o \in due \/ \E i \in Matching(d) : o = <<NotifyList[i].handle, d.n>>
               /\ o[2] \in In(Q') \/ (OnKey /\ o[2] = KeyData.n)
    BY <1>1 DEF KeyFor, OnKey
  <2>2. ASSUME NEW o \in due', o \in due
        PROVE  Owed(o)'
    <3>1. /\ OnKey /\ o[2] = KeyData.n => Ahead(o[1])
          /\ \E i \in 1 .. Len(NotifyList) :
                NotifyList[i].handle = o[1] /\ Awaits(NotifyList[i], o[2])
      BY <2>2 DEF IInv, DueInv, Owed
    <3>2. PICK i \in 1 .. Len(NotifyList) : NotifyList[i].handle = o[1] /\ Awaits(NotifyList[i], o[2])
      BY <3>1
    <3>3. \A e \in Entries(Q') : e.n = o[2] => e \in Entries(Q)
      BY <1>1, <1>3, <2>2, StrokeFacts
    <3>4. Awaits(NotifyList[i], o[2])'
      BY <3>2, <3>3, <1>0 DEF Awaits, OnKey, IsKeyRegistered
    <3>5. (OnKey /\ o[2] = KeyData.n => Ahead(o[1]))'
      BY <3>1, <1>0 DEF OnKey, Ahead
    <3>6. (o[2] \in In(Q) \/ (OnKey /\ o[2] = KeyData.n))'
      BY <2>1, <1>0 DEF OnKey
    <3> QED BY <3>2, <3>4, <3>5, <3>6, <1>0 DEF Owed
  <2>3. ASSUME NEW o \in due', NEW i \in Matching(d), o = <<NotifyList[i].handle, d.n>>
        PROVE  Owed(o)' /\ o[1] \in Handles /\ o[2] \in 1 .. MaxStrokes
    <3>1. i \in 1 .. Len(NotifyList) /\ IsKeyRegistered(NotifyList[i], d)
      BY DEF Matching
    <3>2. o[1] = NotifyList[i].handle /\ o[2] = d.n
      BY <2>3
    <3>3. \A e \in Entries(Q') : e.n = o[2] => e = d
      BY <1>1, <1>3, <3>2, StrokeFacts
    <3>4. ~(OnKey /\ KeyData.n = o[2])
      BY <1>1, <3>2, StrokeFacts
    <3>5. Awaits(NotifyList[i], o[2])'
      BY <3>1, <3>3, <3>4, <1>0 DEF Awaits, OnKey, IsKeyRegistered
    <3>6. (o[2] \in In(Q) \/ (OnKey /\ o[2] = KeyData.n))'
      BY <2>1, <1>0 DEF OnKey
    <3>7. ~(OnKey /\ o[2] = KeyData.n)'
      BY <3>4, <1>0 DEF OnKey
    <3>8. o[1] \in Handles /\ o[2] \in 1 .. MaxStrokes
      BY <3>1, <3>2, ListFacts, StrokeFacts DEF IInv
    <3> QED BY <3>1, <3>2, <3>5, <3>6, <3>7, <3>8, <1>0 DEF Owed
  <2>4. ASSUME NEW o \in due' PROVE o \in Handles \X (1 .. MaxStrokes)
    <3>1. CASE o \in due
      BY <3>1 DEF IInv, DueInv
    <3>2. CASE \E i \in Matching(d) : o = <<NotifyList[i].handle, d.n>>
      BY <3>2, <2>3
    <3> QED BY <2>1, <3>1, <3>2
  <2> QED BY <2>1, <2>2, <2>3, <2>4 DEF DueInv
<1> QED BY <1>6, <1>7, <1>8, <1>9, <1>10 DEF IInv

\* Only the readers' ring changes.
LEMMA ReadersOnly ==
    ASSUME IInv, Filled(EfiKeyQueue'),
           UNCHANGED <<EfiKeyQueueForNotify, NotifyList, Toggle, signalled, handler, bounds, due>>
    PROVE  IInv'
<1>0. UNCHANGED <<EfiKeyQueueForNotify, NotifyList, Toggle, signalled, pc, KeyData, Link, strokes,
                  handles, resets, due>>
  BY DEF handler, bounds
<1>1. ListInv'
  BY <1>0 DEF IInv, ListInv
<1>2. QueueInv'
  BY <1>0 DEF IInv, QueueInv, Typed
<1>3. HandlerInv'
  BY <1>0 DEF IInv, HandlerInv, OnKey, LinkIsLive
<1>4. SignalInv'
  BY <1>0 DEF IInv, SignalInv
<1>5. DueInv'
  BY <1>0 DEF IInv, DueInv, Owed, OnKey, Ahead, Awaits
<1> QED BY <1>1, <1>2, <1>3, <1>4, <1>5 DEF IInv

\* A poll, after which the readers' ring is filled whatever is done with it.
LEMMA PollKeeps ==
    ASSUME IInv, NEW q, Poll(q), pc \in {"idle", "call"},
           UNCHANGED <<NotifyList, Toggle, handler, handles, resets>>,
           Filled(q) => Filled(EfiKeyQueue')
    PROVE  IInv' /\ Filled(q)
<1>1. CASE NoKey /\ q = EfiKeyQueue
  <2>1. Filled(q)
    BY <1>1, StrokeFacts
  <2>2. UNCHANGED <<EfiKeyQueueForNotify, NotifyList, Toggle, signalled, handler, bounds, due>>
    BY <1>1 DEF NoKey, bounds
  <2> QED BY <2>1, <2>2, ReadersOnly
<1>2. ASSUME NEW d \in KeyDatas, KeyFor(d), q = PushEfikeyBufTail(EfiKeyQueue, d)
      PROVE  IInv' /\ Filled(q)
  <2>1. Filled(q)
    BY <1>2, StrokeFacts, PushIs
  <2> QED BY <2>1, <1>2, KeyForKeeps
<1> QED BY <1>1, <1>2 DEF Poll

\* PopEfikeyBufHead on any ring.
LEMMA PopFilled ==
    ASSUME NEW q, Filled(q)
    PROVE  /\ Filled(PopEfikeyBufHead(q))
           /\ Contents(PopEfikeyBufHead(q)) = IF Contents(q) = <<>> THEN Contents(q)
                                              ELSE Tail(Contents(q))
           /\ Count(q) = 0 <=> Contents(q) = <<>>
<1>1. Contents(q) \in Seq(KeyDatas) /\ Len(Contents(q)) = Count(q)
      /\ (Count(q) = 0 <=> IsEfikeyBufEmpty(q))
  BY ContentsIs
<1>2. Count(q) = 0 <=> Contents(q) = <<>>
  BY <1>1
<1>3. CASE Count(q) = 0
  BY <1>1, <1>2, <1>3 DEF PopEfikeyBufHead
<1>4. CASE Count(q) # 0
  BY <1>2, <1>4, PopIs
<1> QED BY <1>2, <1>3, <1>4

\* Who may call is at TPL_NOTIFY with the handler idle or inside a call.
LEMMA MayIs == \A w : May(w) => pc \in {"idle", "call"}
BY DEF May

\* The timer and both readers.
LEMMA ReadersKeep ==
    ASSUME IInv, KeypadTimerHandler \/ KeypadReadKeyStrokeWorker \/ KeypadWaitForKey
    PROVE  IInv'
<1>1. CASE KeypadTimerHandler
  <2>1. PICK d \in KeyDatas : KeyFor(d) /\ EfiKeyQueue' = PushEfikeyBufTail(EfiKeyQueue, d)
    BY <1>1 DEF KeypadTimerHandler
  <2>2. Filled(EfiKeyQueue')
    BY <2>1, StrokeFacts, PushIs
  <2> QED BY <1>1, <2>1, <2>2, KeyForKeeps DEF KeypadTimerHandler
<1>2. CASE KeypadReadKeyStrokeWorker
  <2>1. PICK q \in Polls : Poll(q) /\ EfiKeyQueue' = PopEfikeyBufHead(q)
    BY <1>2 DEF KeypadReadKeyStrokeWorker
  <2> QED BY <1>2, <2>1, PopFilled, PollKeeps, MayIs DEF KeypadReadKeyStrokeWorker
<1>3. CASE KeypadWaitForKey
  <2>1. PICK q \in Polls : Poll(q) /\ EfiKeyQueue' = SkipPartial(q)
    BY <1>3 DEF KeypadWaitForKey
  <2> QED BY <1>3, <2>1, SkipPartialIs, PollKeeps, MayIs DEF KeypadWaitForKey
<1> QED BY <1>1, <1>2, <1>3

\* Reset empties both rings; the key the handler is on stays with it.
LEMMA ResetKeeps ==
    ASSUME IInv, KeypadEfiReset
    PROVE  IInv'
<1>0. /\ UNCHANGED <<NotifyList, signalled, pc, KeyData, Link, strokes, handles>>
      /\ EfiKeyQueue' = Cleared(EfiKeyQueue)
      /\ EfiKeyQueueForNotify' = Cleared(EfiKeyQueueForNotify)
      /\ Toggle' = {} /\ resets < MaxResets /\ resets' = resets + 1
      /\ due' = {o \in due : pc = "call" /\ o[2] = KeyData.n}
  BY DEF KeypadEfiReset, handler
<1>1. /\ Filled(EfiKeyQueue') /\ Filled(EfiKeyQueueForNotify')
      /\ Count(EfiKeyQueueForNotify') = 0
  BY <1>0, StrokeFacts, EmptyIs
<1>2. Entries(EfiKeyQueueForNotify') = {}
  BY <1>1, EntriesIs
<1>3. resets' \in 0 .. MaxResets
  BY <1>0, ConsoleAssumption DEF IInv, QueueInv
<1>4. ListInv'
  BY <1>0 DEF IInv, ListInv
<1>5. QueueInv'
  BY <1>0, <1>1, <1>2, <1>3 DEF IInv, QueueInv, Typed
<1>6. HandlerInv'
  BY <1>0 DEF IInv, HandlerInv, OnKey, LinkIsLive
<1>7. SignalInv'
  BY <1>0, <1>1 DEF IInv, SignalInv
<1>8. DueInv'
  <2>1. ASSUME NEW o \in due' PROVE Owed(o)'
    <3>1. o \in due /\ OnKey /\ o[2] = KeyData.n /\ Owed(o)
      BY <1>0 DEF IInv, DueInv, OnKey
    <3>2. PICK i \in 1 .. Len(NotifyList) : NotifyList[i].handle = o[1] /\ Awaits(NotifyList[i], o[2])
      BY <3>1 DEF Owed
    <3>3. Awaits(NotifyList[i], o[2])'
      BY <3>2, <1>0, <1>2 DEF Awaits, OnKey
    <3>4. (OnKey /\ o[2] = KeyData.n /\ Ahead(o[1]))'
      BY <3>1, <1>0 DEF Owed, OnKey, Ahead
    <3> QED BY <3>2, <3>3, <3>4, <1>0 DEF Owed
  <2> QED BY <2>1, <1>0 DEF IInv, DueInv
<1> QED BY <1>4, <1>5, <1>6, <1>7, <1>8 DEF IInv

\* SetState.
LEMMA SetStateKeeps ==
    ASSUME IInv, NEW t \in ToggleStates, KeypadSetState(t)
    PROVE  IInv'
<1>0. /\ UNCHANGED <<EfiKeyQueue, EfiKeyQueueForNotify, NotifyList, signalled, pc, KeyData, Link,
                     strokes, handles, resets, due>>
      /\ Toggle' = Toggled(t)
  BY DEF KeypadSetState, handler, bounds, queues
<1>1. Toggled(t) \in {{}} \union {{x} : x \in {"scroll", "num", "caps", "exposed"}}
  BY ConsoleAssumption DEF Toggled
<1>2. ListInv'
  BY <1>0 DEF IInv, ListInv
<1>3. QueueInv'
  BY <1>0 DEF IInv, QueueInv, Typed
<1>4. HandlerInv'
  BY <1>0 DEF IInv, HandlerInv, OnKey, LinkIsLive
<1>5. SignalInv'
  BY <1>0, <1>1 DEF IInv, SignalInv
<1>6. DueInv'
  BY <1>0 DEF IInv, DueInv, Owed, OnKey, Ahead, Awaits
<1> QED BY <1>2, <1>3, <1>4, <1>5, <1>6 DEF IInv

\* A registration goes to the end of the list with a handle of its own.
LEMMA RegisterKeeps ==
    ASSUME IInv, NEW k \in Keys, NEW s \in Shifts, NEW f \in Fns, KeypadRegisterKeyNotify(k, s, f)
    PROVE  IInv'
<1> DEFINE r == [handle |-> handles + 1, key |-> k, shift |-> s, fn |-> f]
           n == Len(NotifyList)
<1>0. /\ UNCHANGED <<EfiKeyQueue, EfiKeyQueueForNotify, Toggle, signalled, pc, KeyData, Link,
                     strokes, resets, due>>
      /\ handles < MaxHandles /\ handles' = handles + 1 /\ NotifyList' = Append(NotifyList, r)
  BY DEF KeypadRegisterKeyNotify, handler, queues
<1>1. handles \in Nat /\ MaxHandles \in Nat /\ NotifyList \in Seq(Notifies) /\ n \in Nat
      /\ \A i \in 1 .. n : NotifyList[i].handle <= handles /\ NotifyList[i].handle \in Nat
  BY ListFacts DEF IInv, ListInv
<1>2. handles' \in 0 .. MaxHandles /\ handles + 1 \in Handles
  BY <1>0, <1>1 DEF Handles
<1>3. r \in Notifies /\ r.handle = handles + 1
  BY <1>2 DEF Notifies
<1> HIDE DEF r, n
<1>4. /\ NotifyList' \in Seq(Notifies) /\ Len(NotifyList') = n + 1 /\ NotifyList'[n + 1] = r
      /\ \A i \in 1 .. n : NotifyList'[i] = NotifyList[i]
  BY <1>0, <1>1, <1>3 DEF n
<1>5. \A i \in 1 .. n + 1 : i \in 1 .. n \/ i = n + 1
  BY <1>1
<1>6. ListInv'
  <2>1. \A i \in 1 .. n + 1 : NotifyList'[i].handle <= handles'
    BY <1>0, <1>1, <1>3, <1>4, <1>5
  <2>2. ASSUME NEW i \in 1 .. n + 1, NEW j \in 1 .. n + 1, i < j
        PROVE  NotifyList'[i].handle < NotifyList'[j].handle
    <3>1. i \in 1 .. n
      BY <2>2, <1>1
    <3>2. CASE j = n + 1
      BY <3>1, <3>2, <1>0, <1>1, <1>3, <1>4
    <3>3. CASE j \in 1 .. n
      BY <3>1, <3>3, <2>2, <1>4 DEF IInv, ListInv, n
    <3> QED BY <3>2, <3>3, <1>5
  <2> QED BY <2>1, <2>2, <1>2, <1>4 DEF ListInv
<1>7. ASSUME NEW i \in 1 .. Len(NotifyList)
      PROVE  i \in 1 .. Len(NotifyList') /\ NotifyList'[i] = NotifyList[i]
  BY <1>1, <1>4 DEF n
<1>8. QueueInv'
  BY <1>0 DEF IInv, QueueInv, Typed
<1>9. HandlerInv'
  <2>1. LinkIsLive'
    BY <1>0, <1>7 DEF IInv, HandlerInv, LinkIsLive
  <2> QED BY <2>1, <1>0 DEF IInv, HandlerInv, OnKey
<1>10. SignalInv'
  BY <1>0 DEF IInv, SignalInv
<1>11. DueInv'
  <2>1. ASSUME NEW o \in due PROVE Owed(o)'
    <3>1. Owed(o)
      BY DEF IInv, DueInv
    <3>2. PICK i \in 1 .. Len(NotifyList) : NotifyList[i].handle = o[1] /\ Awaits(NotifyList[i], o[2])
      BY <3>1 DEF Owed
    <3>3. NotifyList'[i].handle = o[1] /\ Awaits(NotifyList[i], o[2])' /\ i \in 1 .. Len(NotifyList')
          /\ NotifyList'[i] = NotifyList[i]
      BY <3>2, <1>0, <1>7 DEF Awaits, OnKey, IsKeyRegistered
    <3> QED BY <3>1, <3>3, <1>0 DEF Owed, OnKey, Ahead
  <2> QED BY <2>1, <1>0 DEF IInv, DueInv
<1> QED BY <1>6, <1>8, <1>9, <1>10, <1>11 DEF IInv

\* A registration is removed, but never the one the handler stands on.
LEMMA UnregisterKeeps ==
    ASSUME IInv, NEW h \in Handles, KeypadUnregisterKeyNotify(h)
    PROVE  IInv'
<1>0. /\ UNCHANGED <<EfiKeyQueue, EfiKeyQueueForNotify, Toggle, signalled, pc, KeyData, Link,
                     strokes, handles, resets>>
      /\ pc \in {"idle", "call"} /\ (pc = "call" => h # Link)
      /\ \E i \in 1 .. Len(NotifyList) : NotifyList[i].handle = h
      /\ NotifyList' = Without(h) /\ due' = {o \in due : o[1] # h}
  BY MayIs DEF KeypadUnregisterKeyNotify, handler, queues, bounds, Unregistered
<1>1. /\ ListInv'
      /\ \A i \in 1 .. Len(NotifyList) : NotifyList[i].handle # h =>
            \E j \in 1 .. Len(NotifyList') : NotifyList'[j] = NotifyList[i]
  BY <1>0, WithoutIs DEF IInv
<1>2. QueueInv'
  BY <1>0 DEF IInv, QueueInv, Typed
<1>3. HandlerInv'
  <2>1. LinkIsLive'
    <3> SUFFICES ASSUME pc \in {"walk", "call"}, Link # Nobody
                 PROVE  \E j \in 1 .. Len(NotifyList') : NotifyList'[j].handle = Link
      BY <1>0 DEF LinkIsLive
    <3>1. PICK i \in 1 .. Len(NotifyList) : NotifyList[i].handle = Link
      BY DEF IInv, HandlerInv, LinkIsLive
    <3>2. Link # h
      BY <1>0
    <3> QED BY <3>1, <3>2, <1>1
  <2> QED BY <2>1, <1>0 DEF IInv, HandlerInv, OnKey
<1>4. SignalInv'
  BY <1>0 DEF IInv, SignalInv
<1>5. DueInv'
  <2>1. ASSUME NEW o \in due' PROVE Owed(o)'
    <3>1. Owed(o) /\ o[1] # h
      BY <1>0 DEF IInv, DueInv
    <3>2. PICK i \in 1 .. Len(NotifyList) : NotifyList[i].handle = o[1] /\ Awaits(NotifyList[i], o[2])
      BY <3>1 DEF Owed
    <3>3. PICK j \in 1 .. Len(NotifyList') : NotifyList'[j] = NotifyList[i]
      BY <3>1, <3>2, <1>1
    <3>4. NotifyList'[j].handle = o[1] /\ Awaits(NotifyList[j], o[2])'
      <4>1. \A g : Awaits(g, o[2]) => (OnKey' /\ KeyData'.n = o[2] => IsKeyRegistered(g, KeyData'))
                 /\ \A d \in Entries(EfiKeyQueueForNotify') : d.n = o[2] => IsKeyRegistered(g, d)
        BY <1>0 DEF Awaits, OnKey
      <4> QED BY <4>1, <3>2, <3>3 DEF Awaits, IsKeyRegistered
    <3> QED BY <3>1, <3>4, <1>0 DEF Owed, OnKey, Ahead
  <2> QED BY <2>1, <1>0 DEF IInv, DueInv
<1> QED BY <1>1, <1>2, <1>3, <1>4, <1>5 DEF IInv

\* KeyNotifyProcessHandler is dispatched.
LEMMA DispatchKeeps ==
    ASSUME IInv, Dispatch
    PROVE  IInv'
<1>0. /\ UNCHANGED <<EfiKeyQueue, EfiKeyQueueForNotify, NotifyList, Toggle, KeyData, Link,
                     strokes, handles, resets, due>>
      /\ pc = "idle" /\ pc' = "pop" /\ signalled' = FALSE
  BY DEF Dispatch, queues, bounds
<1>1. ListInv'
  BY <1>0 DEF IInv, ListInv
<1>2. QueueInv'
  BY <1>0 DEF IInv, QueueInv, Typed
<1>3. HandlerInv'
  BY <1>0 DEF IInv, HandlerInv, OnKey, LinkIsLive
<1>4. SignalInv'
  BY <1>0 DEF IInv, SignalInv
<1>5. DueInv'
  BY <1>0 DEF IInv, DueInv, Owed, OnKey, Ahead, Awaits
<1> QED BY <1>1, <1>2, <1>3, <1>4, <1>5 DEF IInv

\* The handler takes the next key, or finds none and is done.
LEMMA NotifyPopKeeps ==
    ASSUME IInv, NotifyPop
    PROVE  IInv'
<1> DEFINE Q == EfiKeyQueueForNotify
<1>0. UNCHANGED <<EfiKeyQueue, NotifyList, Toggle, signalled, strokes, handles, resets, due>>
      /\ pc = "pop" /\ Filled(Q) /\ ~OnKey
  BY StrokeFacts DEF NotifyPop, bounds, OnKey
<1>1. ListInv'
  BY <1>0 DEF IInv, ListInv
<1>2. Count(Q) = 0 <=> IsEfikeyBufEmpty(Q)
  BY <1>0, ContentsIs
<1>3. CASE IsEfikeyBufEmpty(Q)
  <2>1. pc' = "idle" /\ UNCHANGED <<Q, KeyData, Link>>
    BY <1>3 DEF NotifyPop
  <2>2. Entries(Q) = {} /\ In(Q) = {}
    BY <1>0, <1>2, <1>3, EntriesIs
  <2>3. due = {}
    BY <2>2, <1>0 DEF IInv, DueInv, Owed
  <2>4. QueueInv'
    BY <1>0, <2>1 DEF IInv, QueueInv, Typed
  <2>5. HandlerInv'
    BY <1>0, <2>1 DEF IInv, HandlerInv, OnKey, LinkIsLive
  <2>6. SignalInv'
    BY <1>0, <1>2, <1>3, <2>1 DEF IInv, SignalInv
  <2>7. DueInv'
    BY <1>0, <2>3 DEF DueInv
  <2> QED BY <1>1, <2>4, <2>5, <2>6, <2>7 DEF IInv
<1>4. CASE ~IsEfikeyBufEmpty(Q)
  <2>1. /\ KeyData' = HeadData(Q) /\ Q' = Advanced(Q) /\ pc' = "walk" /\ Link' = FirstLink
    BY <1>4 DEF NotifyPop, PopEfikeyBufHead
  <2>2. Filled(Q')
    BY <1>0, <1>2, <1>4, <2>1, PopIs
  <2>3. HeadData(Q) \in Entries(Q) /\ Entries(Q) = {HeadData(Q)} \union Entries(Q')
    BY <1>0, <1>2, <1>4, <2>1, EntriesIs
  <2>4. In(Q') = {d.n : d \in Entries(Q')}
    BY <2>2, EntriesIs
  <2>5. KeyData' \in KeyDatas /\ KeyData'.n <= strokes
    BY <2>1, <2>3, StrokeFacts
  <2>6. QueueInv'
    BY <1>0, <2>2, <2>3 DEF IInv, QueueInv, Typed
  <2>7. HandlerInv'
    BY <1>0, <2>1, <2>5, FirstLinkIs DEF IInv, HandlerInv, OnKey, LinkIsLive
  <2>8. SignalInv'
    BY <1>0, <2>1 DEF IInv, SignalInv
  <2>9. DueInv'
    <3>1. ASSUME NEW o \in due PROVE Owed(o)'
      <4>1. Owed(o) /\ o[2] \in In(Q)
        BY <1>0 DEF IInv, DueInv, Owed
      <4>2. o[2] = KeyData'.n \/ o[2] \in In(Q')
        BY <4>1, <2>1, <2>3, <2>4, StrokeFacts
      <4>3. PICK i \in 1 .. Len(NotifyList) : NotifyList[i].handle = o[1]
                                              /\ Awaits(NotifyList[i], o[2])
        BY <4>1 DEF Owed
      <4>4. FirstLink # Nobody /\ (o[1] > FirstLink \/ o[1] = FirstLink)
        <5>1. FirstLink # Nobody /\ o[1] >= FirstLink /\ FirstLink \in Handles /\ o[1] \in Handles
          BY <4>3, FirstLinkIs, StrokeFacts DEF IInv
        <5> QED BY <5>1, ListFacts DEF Handles, IInv
      <4>5. Ahead(o[1])' /\ OnKey'
        BY <4>4, <2>1 DEF Ahead, OnKey
      <4>6. \A d \in Entries(Q) : d.n = o[2] => IsKeyRegistered(NotifyList[i], d)
        BY <4>3 DEF Awaits
      <4>7. Awaits(NotifyList[i], o[2])'
        BY <4>6, <2>1, <2>3, <1>0 DEF Awaits
      <4> QED BY <4>2, <4>3, <4>5, <4>7, <1>0 DEF Owed
    <3> QED BY <3>1, <1>0 DEF IInv, DueInv
  <2> QED BY <1>1, <2>6, <2>7, <2>8, <2>9 DEF IInv
<1> QED BY <1>3, <1>4

\* The walk is over: what is owed for this key has been called.
LEMMA WalkEndsKeeps ==
    ASSUME IInv, WalkEnds
    PROVE  IInv'
<1>0. /\ UNCHANGED <<EfiKeyQueue, EfiKeyQueueForNotify, NotifyList, Toggle, signalled, KeyData,
                     Link, strokes, handles, resets, due>>
      /\ pc = "walk" /\ Link = Nobody /\ pc' = "pop"
  BY DEF WalkEnds, queues, bounds, AfterWalk
<1>1. ListInv'
  BY <1>0 DEF IInv, ListInv
<1>2. QueueInv'
  BY <1>0 DEF IInv, QueueInv, Typed
<1>3. HandlerInv'
  BY <1>0 DEF IInv, HandlerInv, OnKey, LinkIsLive
<1>4. SignalInv'
  BY <1>0 DEF IInv, SignalInv
<1>5. DueInv'
  <2>1. ASSUME NEW o \in due PROVE Owed(o)'
    <3>1. Owed(o) /\ ~Ahead(o[1])
      BY <1>0 DEF IInv, DueInv, Ahead
    <3>2. o[2] \in In(EfiKeyQueueForNotify)
      BY <3>1, <1>0 DEF Owed, OnKey
    <3>3. PICK i \in 1 .. Len(NotifyList) : NotifyList[i].handle = o[1] /\ Awaits(NotifyList[i], o[2])
      BY <3>1 DEF Owed
    <3>4. Awaits(NotifyList[i], o[2])' /\ ~OnKey'
      BY <3>3, <1>0 DEF Awaits, OnKey
    <3> QED BY <3>2, <3>3, <3>4, <1>0 DEF Owed
  <2> QED BY <2>1, <1>0 DEF IInv, DueInv
<1> QED BY <1>1, <1>2, <1>3, <1>4, <1>5 DEF IInv

\* The walk goes on to the next node, from one that owes nothing for this key.
LEMMA MovesOn ==
    ASSUME IInv, OnKey, Link # Nobody, pc' = "walk", Link' = NextLink,
           \A o \in due : o[2] = KeyData.n => o[1] > Link,
           UNCHANGED <<queues, NotifyList, Toggle, signalled, KeyData, bounds, due>>
    PROVE  IInv'
<1>0. /\ UNCHANGED <<EfiKeyQueue, EfiKeyQueueForNotify, NotifyList, Toggle, signalled, KeyData,
                     strokes, handles, resets, due>>
      /\ pc \in {"walk", "call"} /\ OnKey'
  BY DEF queues, bounds, OnKey
<1>1. /\ NextLink \in Handles \union {Nobody}
      /\ NextLink # Nobody => \E i \in 1 .. Len(NotifyList) : NotifyList[i].handle = NextLink
      /\ \A i \in 1 .. Len(NotifyList) : NotifyList[i].handle > Link =>
            NextLink # Nobody /\ NotifyList[i].handle >= NextLink
  BY NextLinkIs DEF IInv, HandlerInv
<1>2. ListInv'
  BY <1>0 DEF IInv, ListInv
<1>3. QueueInv'
  BY <1>0 DEF IInv, QueueInv, Typed
<1>4. HandlerInv'
  BY <1>0, <1>1 DEF IInv, HandlerInv, OnKey, LinkIsLive
<1>5. SignalInv'
  BY <1>0 DEF IInv, SignalInv
<1>6. DueInv'
  <2>1. ASSUME NEW o \in due PROVE Owed(o)'
    <3>1. Owed(o) /\ o[1] \in Handles
      BY StrokeFacts DEF IInv, DueInv
    <3>2. PICK i \in 1 .. Len(NotifyList) : NotifyList[i].handle = o[1] /\ Awaits(NotifyList[i], o[2])
      BY <3>1 DEF Owed
    <3>3. Awaits(NotifyList[i], o[2])'
      BY <3>2, <1>0 DEF Awaits, OnKey
    <3>4. ASSUME o[2] = KeyData.n PROVE Ahead(o[1])'
      <4>1. o[1] > Link
        BY <3>4
      <4>2. NextLink # Nobody /\ o[1] >= NextLink /\ NextLink \in Handles
        BY <4>1, <3>2, <1>1
      <4>3. o[1] > NextLink \/ o[1] = NextLink
        BY <4>2, <3>1, ListFacts DEF Handles, IInv
      <4> QED BY <4>2, <4>3 DEF Ahead
    <3>5. (o[2] \in In(EfiKeyQueueForNotify) \/ (OnKey /\ o[2] = KeyData.n))'
      BY <3>1, <1>0 DEF Owed
    <3> QED BY <3>2, <3>3, <3>4, <3>5, <1>0 DEF Owed
  <2> QED BY <2>1, <1>0 DEF IInv, DueInv
<1> QED BY <1>2, <1>3, <1>4, <1>5, <1>6 DEF IInv

\* A registration that does not match the key is passed over.
LEMMA WalkPassesKeeps ==
    ASSUME IInv, WalkPasses
    PROVE  IInv'
<1>1. OnKey /\ Link # Nobody /\ pc = "walk" /\ pc' = "walk" /\ ~Matches
  BY DEF WalkPasses, OnKey
<1>2. Position \in 1 .. Len(NotifyList) /\ NotifyList[Position].handle = Link
  BY <1>1, PositionIs DEF IInv, HandlerInv, LinkIsLive, OnKey, Position
<1>3. ASSUME NEW o \in due, o[2] = KeyData.n PROVE o[1] > Link
  <2>1. Owed(o)
    BY DEF IInv, DueInv
  <2>2. o[1] > Link \/ o[1] = Link
    BY <2>1, <1>1, <1>3 DEF Owed, Ahead
  <2>3. PICK i \in 1 .. Len(NotifyList) : NotifyList[i].handle = o[1] /\ Awaits(NotifyList[i], o[2])
    BY <2>1 DEF Owed
  <2>4. IsKeyRegistered(NotifyList[i], KeyData)
    BY <2>3, <1>1, <1>3 DEF Awaits
  <2>5. ASSUME o[1] = Link PROVE FALSE
    <3>1. i = Position
      BY <2>3, <2>5, <1>2, ListFacts DEF IInv
    <3> QED BY <3>1, <2>4, <1>1 DEF Matches
  <2> QED BY <2>2, <2>5
<1> QED BY <1>1, <1>3, MovesOn DEF WalkPasses

\* The function is called and owed no more.
LEMMA WalkCallsKeeps ==
    ASSUME IInv, WalkCalls
    PROVE  IInv'
<1>0. /\ UNCHANGED <<EfiKeyQueue, EfiKeyQueueForNotify, NotifyList, Toggle, signalled, KeyData,
                     Link, strokes, handles, resets>>
      /\ pc = "walk" /\ Link # Nobody /\ pc' = "call"
      /\ due' = due \ {<<Link, KeyData.n>>}
  BY DEF WalkCalls, queues, bounds
<1>1. ListInv'
  BY <1>0 DEF IInv, ListInv
<1>2. QueueInv'
  BY <1>0 DEF IInv, QueueInv, Typed
<1>3. HandlerInv'
  BY <1>0 DEF IInv, HandlerInv, OnKey, LinkIsLive
<1>4. SignalInv'
  BY <1>0 DEF IInv, SignalInv
<1>5. DueInv'
  <2>1. ASSUME NEW o \in due' PROVE Owed(o)'
    <3>1. o \in due /\ o # <<Link, KeyData.n>> /\ Owed(o) /\ o \in Handles \X (1 .. MaxStrokes)
      BY <1>0 DEF IInv, DueInv
    <3>2. o[2] = KeyData.n => o[1] # Link
      BY <3>1
    <3>3. PICK i \in 1 .. Len(NotifyList) : NotifyList[i].handle = o[1] /\ Awaits(NotifyList[i], o[2])
      BY <3>1 DEF Owed
    <3>4. Awaits(NotifyList[i], o[2])' /\ OnKey /\ OnKey'
      BY <3>3, <1>0 DEF Awaits, OnKey
    <3>5. o[2] = KeyData.n => Ahead(o[1])'
      BY <3>1, <3>2, <3>4, <1>0 DEF Owed, Ahead
    <3>6. (o[2] \in In(EfiKeyQueueForNotify) \/ (OnKey /\ o[2] = KeyData.n))'
      BY <3>1, <3>4, <1>0 DEF Owed
    <3> QED BY <3>3, <3>4, <3>5, <3>6, <1>0 DEF Owed
  <2> QED BY <2>1, <1>0 DEF IInv, DueInv
<1> QED BY <1>1, <1>2, <1>3, <1>4, <1>5 DEF IInv

\* The function returns.
LEMMA CallReturnsKeeps ==
    ASSUME IInv, CallReturns
    PROVE  IInv'
<1>1. OnKey /\ Link # Nobody /\ pc = "call"
  BY DEF CallReturns, OnKey, IInv, HandlerInv
<1>2. ASSUME NEW o \in due, o[2] = KeyData.n PROVE o[1] > Link
  BY <1>1, <1>2 DEF IInv, DueInv, Owed, Ahead
<1> QED BY <1>1, <1>2, MovesOn DEF CallReturns

\* Init and every step.
LEMMA InitIInv == Init => IInv
<1> SUFFICES ASSUME Init PROVE IInv
  OBVIOUS
<1>1. Filled(ZeroQueue) /\ Count(ZeroQueue) = 0 /\ Entries(ZeroQueue) = {}
  BY EmptyIs, EntriesIs
<1>2. ListInv
  BY ConsoleAssumption DEF Init, ListInv
<1>3. QueueInv
  BY <1>1, ConsoleAssumption DEF Init, QueueInv, Typed
<1>4. HandlerInv
  BY DEF Init, HandlerInv, OnKey, LinkIsLive
<1>5. SignalInv
  BY <1>1 DEF Init, SignalInv
<1>6. DueInv
  BY DEF Init, DueInv
<1> QED BY <1>2, <1>3, <1>4, <1>5, <1>6 DEF IInv

\* The inductive invariant is kept by every operation, dispatch and callback.
LEMMA NextIInv == IInv /\ [Next]_vars => IInv'
<1> SUFFICES ASSUME IInv, [Next]_vars PROVE IInv'
  OBVIOUS
<1>1. CASE UNCHANGED vars
  BY <1>1, ReadersOnly, StrokeFacts DEF vars, queues
<1>2. CASE KeypadTimerHandler \/ KeypadReadKeyStrokeWorker \/ KeypadWaitForKey
  BY <1>2, ReadersKeep
<1>3. CASE KeypadEfiReset
  BY <1>3, ResetKeeps
<1>4. CASE \E t \in ToggleStates : KeypadSetState(t)
  BY <1>4, SetStateKeeps
<1>5. CASE \E k \in Keys, s \in Shifts, f \in Fns : KeypadRegisterKeyNotify(k, s, f)
  BY <1>5, RegisterKeeps
<1>6. CASE \E h \in Handles : KeypadUnregisterKeyNotify(h)
  BY <1>6, UnregisterKeeps
<1>7. CASE Handler
  BY <1>7, DispatchKeeps, NotifyPopKeeps, WalkEndsKeeps, WalkPassesKeeps, WalkCallsKeeps,
     CallReturnsKeeps DEF Handler
<1> QED BY <1>1, <1>2, <1>3, <1>4, <1>5, <1>6, <1>7 DEF Next

\* IInv holds in every reachable state.
THEOREM Invariance == Spec => []IInv
BY InitIInv, NextIInv, PTL DEF Spec

-----------------------------------------------------------------------------
(* What it is for.                                                          *)

\* The ring indices stay in range, the list holds registrations and at most one
\* toggle is on, whoever calls from wherever.
THEOREM TypeCorrect == Spec => []TypeOK
<1>1. IInv => TypeOK
  BY DEF IInv, ListInv, QueueInv, HandlerInv, SignalInv, DueInv, Filled, TypeOK
<1> QED BY <1>1, Invariance, PTL

\* KeyNotifyProcessHandler never goes on from a node that was freed while it
\* called a function.
THEOREM WalksLiveNodes == Spec => []LinkIsLive
<1>1. IInv => LinkIsLive
  BY DEF IInv, HandlerInv
<1> QED BY <1>1, Invariance, PTL

\* When the handler is idle and its event is not signalled, every registration
\* has been called for every key that was typed while it was in the list,
\* except keys lost to a full ring or a reset.
THEOREM NoWakeUpLost == Spec => []NotifiedAll
<1>1. IInv => NotifiedAll
  <2> SUFFICES ASSUME IInv, pc = "idle", ~signalled, due # {} PROVE FALSE
    BY DEF NotifiedAll
  <2>1. PICK o \in due : Owed(o)
    BY DEF IInv, DueInv
  <2>2. Entries(EfiKeyQueueForNotify) = {} /\ ~OnKey
    BY StrokeFacts, EntriesIs DEF IInv, SignalInv, OnKey
  <2>3. In(EfiKeyQueueForNotify) = {}
    BY <2>2, StrokeFacts
  <2> QED BY <2>1, <2>2, <2>3 DEF Owed
<1> QED BY <1>1, Invariance, PTL

-----------------------------------------------------------------------------
(* The readers' ring implements KeyFifo.                                    *)

\* A poll brings the queue of the readers no key or one.
LEMMA PollIsPolled ==
    ASSUME IInv, NEW q, Poll(q)
    PROVE  Contents(q) \in Fifo!Polled(Contents(EfiKeyQueue)) /\ Filled(q)
<1>1. CASE q = EfiKeyQueue
  BY <1>1, StrokeFacts DEF Fifo!Polled
<1>2. ASSUME NEW d \in KeyDatas, q = PushEfikeyBufTail(EfiKeyQueue, d)
      PROVE  Contents(q) \in Fifo!Polled(Contents(EfiKeyQueue)) /\ Filled(q)
  <2>1. Filled(EfiKeyQueue) /\ Len(Contents(EfiKeyQueue)) = Count(EfiKeyQueue)
    BY StrokeFacts, ContentsIs
  <2>2. Filled(q) /\ Contents(q) = Fifo!Arrived(Contents(EfiKeyQueue), d)
    BY <1>2, <2>1, PushIs DEF Fifo!Arrived
  <2> QED BY <2>2 DEF Fifo!Polled
<1> QED BY <1>1, <1>2 DEF Poll

\* Every step of the driver is a step of the promised queue or leaves it alone.
LEMMA StepIsFifoStep ==
    IInv /\ [Next]_vars => [Fifo!Deliver \/ Fifo!Reset]_<<Contents(EfiKeyQueue), resets>>
<1> SUFFICES ASSUME IInv, [Next]_vars
             PROVE  Fifo!Deliver \/ Fifo!Reset \/ UNCHANGED <<Contents(EfiKeyQueue), resets>>
  OBVIOUS
<1>1. CASE KeypadTimerHandler
  <2>1. PICK d \in KeyDatas : KeyFor(d) /\ EfiKeyQueue' = PushEfikeyBufTail(EfiKeyQueue, d)
    BY <1>1 DEF KeypadTimerHandler
  <2>2. Contents(EfiKeyQueue') \in Fifo!Polled(Contents(EfiKeyQueue))
    BY <2>1, PollIsPolled DEF Poll
  <2> QED BY <2>2, <1>1 DEF KeypadTimerHandler, Fifo!Deliver
<1>2. CASE KeypadReadKeyStrokeWorker
  <2>1. PICK q \in Polls : Poll(q) /\ EfiKeyQueue' = PopEfikeyBufHead(q)
    BY <1>2 DEF KeypadReadKeyStrokeWorker
  <2>2. Contents(q) \in Fifo!Polled(Contents(EfiKeyQueue)) /\ Filled(q)
    BY <2>1, PollIsPolled
  <2>3. Contents(EfiKeyQueue') = IF Contents(q) = <<>> THEN Contents(q) ELSE Tail(Contents(q))
    BY <2>1, <2>2, PopFilled
  <2> QED BY <2>2, <2>3, <1>2 DEF KeypadReadKeyStrokeWorker, Fifo!Deliver
<1>3. CASE KeypadWaitForKey
  <2>1. PICK q \in Polls : Poll(q) /\ EfiKeyQueue' = SkipPartial(q)
    BY <1>3 DEF KeypadWaitForKey
  <2>2. Contents(q) \in Fifo!Polled(Contents(EfiKeyQueue)) /\ Filled(q)
    BY <2>1, PollIsPolled
  <2>3. PICK k \in 0 .. Count(q) :
           /\ Contents(EfiKeyQueue') = SubSeq(Contents(q), k + 1, Count(q))
           /\ \A i \in 1 .. k : IsPartial(Contents(q)[i])
    BY <2>1, <2>2, SkipPartialIs
  <2>4. Count(q) \in Nat /\ Contents(q) \in Seq(KeyDatas) /\ Len(Contents(q)) = Count(q)
    BY <2>2, ContentsIs
  <2>5. Len(SubSeq(Contents(q), k + 1, Count(q))) = Count(q) - k
    BY <2>4
  <2>6. Fifo!Skips(Contents(q), Contents(EfiKeyQueue'))
    <3> DEFINE s == Contents(q)
               t == Contents(EfiKeyQueue')
    <3>1. Len(t) = Count(q) - k /\ Len(s) = Count(q) /\ t = SubSeq(s, k + 1, Count(q))
      BY <2>3, <2>4, <2>5
    <3>2. \A i \in 1 .. k : IsPartial(s[i])
      BY <2>3
    <3> HIDE DEF s, t
    <3>3. Len(t) <= Len(s) /\ Len(s) - Len(t) = k /\ Len(s) - Len(t) + 1 = k + 1
      BY <3>1, <2>4
    <3>4. Fifo!Skips(s, t)
      BY <3>1, <3>2, <3>3 DEF Fifo!Skips
    <3> QED BY <3>4 DEF s, t
  <2> QED BY <2>2, <2>6, <1>3 DEF KeypadWaitForKey, Fifo!Deliver
<1>4. CASE KeypadEfiReset
  <2>1. Contents(EfiKeyQueue') = <<>>
    BY <1>4, StrokeFacts, EmptyIs DEF KeypadEfiReset
  <2> QED BY <2>1, <1>4 DEF KeypadEfiReset, Fifo!Reset
<1>5. CASE \E t \in ToggleStates : KeypadSetState(t)
  BY <1>5 DEF KeypadSetState, queues, bounds
<1>6. CASE \E k \in Keys, s \in Shifts, f \in Fns : KeypadRegisterKeyNotify(k, s, f)
  BY <1>6 DEF KeypadRegisterKeyNotify, queues
<1>7. CASE \E h \in Handles : KeypadUnregisterKeyNotify(h)
  BY <1>7 DEF KeypadUnregisterKeyNotify, queues, bounds
<1>8. CASE Handler
  BY <1>8 DEF Handler, Dispatch, NotifyPop, WalkEnds, WalkPasses, WalkCalls, CallReturns, queues,
     bounds
<1>9. CASE UNCHANGED vars
  BY <1>9 DEF vars, queues, bounds
<1> QED BY <1>1, <1>2, <1>3, <1>4, <1>5, <1>6, <1>7, <1>8, <1>9 DEF Next

\* A reader gets the keys typed since the last reset in order and each once,
\* and loses only the oldest when it falls a ring behind: the ring with its
\* Head, Tail and unused slot is a bounded FIFO.
THEOREM RingIsFifo == Spec => ReadersFifo
<1>1. Init => Fifo!Init
  BY EmptyIs DEF Init, Fifo!Init
<1> QED BY <1>1, StepIsFifoStep, Invariance, PTL DEF Spec, ReadersFifo, Fifo!Spec
=============================================================================
