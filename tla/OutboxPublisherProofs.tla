------------------------ MODULE OutboxPublisherProofs ------------------------
(***************************************************************************)
(* Nothing that was marked PUBLISHED is missing from the stream, a message *)
(* too many is paid for by a fault, and without faults the messages of a   *)
(* workflow leave in order: for every number of rows, batch size, retry    *)
(* schedule and number of faults.                                          *)
(***************************************************************************)
EXTENDS OutboxPublisher, FiniteSetTheorems, TLAPS

\* Adding a message keeps the ones that are there.
LEMMA AppendKeeps ==
  ASSUME NEW S, NEW s \in Seq(S), NEW e \in S
  PROVE  /\ Append(s, e) \in Seq(S)
         /\ \A k \in DOMAIN s : k \in DOMAIN Append(s, e) /\ Append(s, e)[k] = s[k]
         /\ \E k \in DOMAIN Append(s, e) : Append(s, e)[k] = e
  <1>1. Append(s, e) \in Seq(S) /\ Len(s) \in Nat
    OBVIOUS
  <1>2. Len(s) + 1 \in DOMAIN Append(s, e) /\ Append(s, e)[Len(s) + 1] = e
    OBVIOUS
  <1>3. \A k \in DOMAIN s : k \in DOMAIN Append(s, e) /\ Append(s, e)[k] = s[k]
    OBVIOUS
  <1> QED  BY <1>1, <1>2, <1>3

\* A sequence over a set is one over every larger set.
LEMMA SeqMonotone ==
  ASSUME NEW S, NEW T, S \subseteq T, NEW s \in Seq(S)
  PROVE  s \in Seq(T)
  <1>1. Len(s) \in Nat /\ s \in [1..Len(s) -> S]
    OBVIOUS
  <1>2. s \in [1..Len(s) -> T]
    BY <1>1
  <1> QED  BY <1>1, <1>2

\* Taking the next row of the batch keeps the thread's variables typed.
LEMMA TakeType ==
  ASSUME TypeOK, NEW S \in SUBSET rows, Take(S)
  PROVE  /\ pc' \in {"sleep", "enqueue"}
         /\ batch' \subseteq rows
         /\ row' \in rows \cup {0}
         /\ pc' = "enqueue" <=> row' # 0
         /\ tries' = 0
  <1>1. S \subseteq Nat \ {0}
    BY DEF TypeOK
  <1>2. CASE S = {} /\ pc' = "sleep" /\ row' = 0 /\ batch' = {}
    BY <1>2 DEF Take
  <1>3. CASE \E i \in S : /\ \A j \in S : i <= j
                          /\ pc' = "enqueue" /\ row' = i /\ batch' = S \ {i}
    BY <1>1, <1>3 DEF Take
  <1> QED  BY <1>2, <1>3 DEF Take

\* A fault is counted within its bound.
LEMMA FaultType ==
  ASSUME TypeOK, Fault
  PROVE  faults' \in 0..MaxFaults
  <1>1. faults \in Nat /\ faults < MaxFaults /\ faults' = faults + 1
    BY DEF TypeOK, Fault
  <1> QED  BY <1>1, PublisherAssumption

\* A thread that starts over satisfies everything that is said of it.
LEMMA FreshType ==
  ASSUME PublisherInv, NEW at \in {"poll", "stopped", "dead"}, Fresh(at),
         rows' = rows, stream' = stream, published' \subseteq rows,
         requested' \in BOOLEAN, faults' \in 0..MaxFaults
  PROVE  TypeOK' /\ MarkedNext'
  <1>1. row' = 0 /\ batch' = {} /\ pc' = at /\ tries' = 0
    BY DEF Fresh
  <1>2. 0 \in 0..(MaxAttempts - 1)
    BY PublisherAssumption
  <1>3. rows \subseteq 1..MaxRows /\ stream \in Seq(rows)
    BY DEF PublisherInv, TypeOK
  <1> QED  BY <1>1, <1>2, <1>3 DEF TypeOK, MarkedNext

\* A step that leaves the stream as it is, or adds the current row to it,
\* and marks nothing.
LEMMA StreamGrows ==
  ASSUME PublisherInv, row \in rows,
         stream' = Append(stream, row) \/ stream' = stream
  PROVE  /\ stream' \in Seq(rows)
         /\ \A i : InStream(i) => InStream(i)'
         /\ stream' = Append(stream, row) => \E k \in DOMAIN stream' : stream'[k] = row
  <1>1. stream \in Seq(rows)
    BY DEF PublisherInv, TypeOK
  <1>2. CASE stream' = stream
    <2>1. stream' \in Seq(rows) /\ \A i : InStream(i) => InStream(i)'
      BY <1>1, <1>2 DEF InStream
    <2>2. ASSUME stream' = Append(stream, row)
          PROVE  \E k \in DOMAIN stream' : stream'[k] = row
      BY <1>1, <2>2, AppendKeeps
    <2> QED  BY <2>1, <2>2
  <1>3. CASE stream' = Append(stream, row)
    BY <1>1, <1>3, AppendKeeps DEF InStream
  <1> QED  BY <1>2, <1>3

LEMMA PublisherInit == Init => PublisherInv
  <1> SUFFICES ASSUME Init PROVE PublisherInv
    OBVIOUS
  <1>1. 0 \in 0..(MaxAttempts - 1) /\ 0 \in 0..MaxFaults
    BY PublisherAssumption
  <1>2. stream \in Seq(rows)
    BY DEF Init
  <1>3. TypeOK
    BY <1>1, <1>2 DEF Init, TypeOK
  <1> QED  BY <1>3 DEF Init, PublisherInv, PublishedInStream, MarkedNext

LEMMA PublisherStep == PublisherInv /\ [Next]_vars => PublisherInv'
  <1> SUFFICES ASSUME PublisherInv, [Next]_vars PROVE PublisherInv'
    OBVIOUS
  <1> USE PublisherAssumption
  <1>0. TypeOK /\ PublishedInStream /\ MarkedNext
    BY DEF PublisherInv
  <1>1. ASSUME NEW i \in 1..MaxRows, Insert(i) PROVE PublisherInv'
    <2>1. rows' \subseteq 1..MaxRows /\ rows \subseteq rows'
      BY <1>0, <1>1 DEF Insert, TypeOK
    <2>2. stream' \in Seq(rows')
      <3>1. stream \in Seq(rows) /\ stream' = stream
        BY <1>0, <1>1 DEF Insert, TypeOK
      <3> QED  BY <2>1, <3>1, SeqMonotone
    <2>3. TypeOK'
      BY <1>0, <1>1, <2>1, <2>2 DEF Insert, TypeOK, thread
    <2> QED
      BY <1>0, <1>1, <2>3
      DEF Insert, PublisherInv, PublishedInStream, MarkedNext, InStream, thread
  <1>2. ASSUME FetchUnpublished PROVE PublisherInv'
    <2>1. Oldest \in SUBSET rows
      BY DEF Oldest
    <2>2. Take(Oldest) /\ UNCHANGED <<rows, published, stream, requested, faults>>
      BY <1>2 DEF FetchUnpublished
    <2>3. TypeOK'
      BY <1>0, <2>1, <2>2, TakeType DEF TypeOK
    <2>4. pc' # "mark"
      BY <1>0, <2>1, <2>2, TakeType
    <2> QED
      BY <1>0, <2>2, <2>3, <2>4 DEF PublisherInv, PublishedInStream, MarkedNext, InStream
  <1>3. ASSUME Leave \/ Wake PROVE PublisherInv'
    <2>1. /\ Fresh("stopped") \/ Fresh("poll")
          /\ UNCHANGED <<rows, published, stream, requested, faults>>
      BY <1>3 DEF Leave, Wake
    <2>2. published \subseteq rows /\ requested \in BOOLEAN /\ faults \in 0..MaxFaults
      BY <1>0 DEF TypeOK
    <2>3. TypeOK' /\ MarkedNext'
      BY <2>1, <2>2, FreshType
    <2> QED  BY <1>0, <2>1, <2>3 DEF PublisherInv, PublishedInStream, InStream
  <1>4. ASSUME Enqueue PROVE PublisherInv'
    <2>1. row \in rows /\ stream' = Append(stream, row)
      BY <1>0, <1>4 DEF Enqueue, TypeOK
    <2>2. /\ stream' \in Seq(rows)
          /\ \A i : InStream(i) => InStream(i)'
          /\ \E k \in DOMAIN stream' : stream'[k] = row
      BY <2>1, StreamGrows
    <2>3. TypeOK'
      BY <1>0, <1>4, <2>2 DEF Enqueue, TypeOK
    <2>4. PublishedInStream'
      BY <1>0, <1>4, <2>2 DEF Enqueue, PublishedInStream
    <2>5. MarkedNext'
      BY <1>4, <2>2 DEF Enqueue, MarkedNext, InStream
    <2> QED  BY <2>3, <2>4, <2>5 DEF PublisherInv
  <1>5. ASSUME NEW added \in BOOLEAN, EnqueueFails(added) PROVE PublisherInv'
    <2>1. row \in rows /\ (stream' = Append(stream, row) \/ stream' = stream)
      BY <1>0, <1>5 DEF EnqueueFails, TypeOK
    <2>2. stream' \in Seq(rows) /\ \A i : InStream(i) => InStream(i)'
      BY <2>1, StreamGrows
    <2>3. /\ pc' \in {"enqueue", "sleep"}
          /\ batch' \subseteq rows
          /\ row' \in rows \cup {0}
          /\ pc' = "enqueue" <=> row' # 0
          /\ tries' \in 0..(MaxAttempts - 1)
      <3>1. CASE tries + 1 < MaxAttempts
        <4>1. tries' = tries + 1 /\ tries \in Nat /\ UNCHANGED <<pc, batch, row>>
          BY <1>0, <1>5, <3>1 DEF EnqueueFails, TypeOK
        <4>2. tries' \in 0..(MaxAttempts - 1)
          BY <3>1, <4>1
        <4>3. pc = "enqueue" /\ row # 0 /\ row \in rows /\ batch \subseteq rows
          BY <1>0, <1>5 DEF EnqueueFails, TypeOK
        <4> QED  BY <4>1, <4>2, <4>3
      <3>2. CASE ~ (tries + 1 < MaxAttempts)
        <4>1. Take(batch) /\ batch \in SUBSET rows
          BY <1>0, <1>5, <3>2 DEF EnqueueFails, TypeOK
        <4> QED  BY <1>0, <4>1, TakeType
      <3> QED  BY <3>1, <3>2
    <2>4. faults' \in 0..MaxFaults /\ UNCHANGED <<rows, published, requested>>
      BY <1>0, <1>5, FaultType DEF EnqueueFails
    <2>5. TypeOK'
      BY <1>0, <2>2, <2>3, <2>4 DEF TypeOK
    <2>6. PublishedInStream'
      BY <1>0, <2>2, <2>4 DEF PublishedInStream
    <2> QED  BY <2>3, <2>5, <2>6 DEF PublisherInv, MarkedNext
  <1>6. ASSUME MarkPublished PROVE PublisherInv'
    <2>1. Take(batch) /\ batch \in SUBSET rows /\ row \in rows
      BY <1>0, <1>6 DEF MarkPublished, TypeOK
    <2>2. /\ pc' \in {"sleep", "enqueue"}
          /\ batch' \subseteq rows
          /\ row' \in rows \cup {0}
          /\ pc' = "enqueue" <=> row' # 0
          /\ tries' = 0
      BY <1>0, <2>1, TakeType
    <2>3. TypeOK'
      BY <1>0, <1>6, <2>1, <2>2 DEF MarkPublished, TypeOK
    <2>4. PublishedInStream'
      BY <1>0, <1>6 DEF MarkPublished, PublishedInStream, MarkedNext, InStream
    <2> QED  BY <2>2, <2>3, <2>4 DEF PublisherInv, MarkedNext
  <1>7. ASSUME NEW written \in BOOLEAN, ThreadDies(written) PROVE PublisherInv'
    <2>1. published' \subseteq rows
      BY <1>0, <1>7 DEF ThreadDies, TypeOK
    <2>2. TypeOK' /\ MarkedNext'
      <3>1. Fresh("dead") /\ Fault /\ UNCHANGED <<rows, stream, requested>>
        BY <1>7 DEF ThreadDies
      <3>2. requested' \in BOOLEAN
        BY <1>0, <3>1 DEF TypeOK
      <3> QED  BY <1>0, <2>1, <3>1, <3>2, FaultType, FreshType
    <2>3. PublishedInStream'
      BY <1>0, <1>7 DEF ThreadDies, PublishedInStream, MarkedNext, InStream
    <2> QED  BY <2>2, <2>3 DEF PublisherInv
  <1>8. ASSUME Stop PROVE PublisherInv'
    BY <1>0, <1>8
    DEF Stop, thread, PublisherInv, TypeOK, PublishedInStream, MarkedNext, InStream
  <1>9. ASSUME Restart PROVE PublisherInv'
    <2>1. Fresh("poll") /\ Fault /\ requested' = FALSE
      BY <1>9 DEF Restart
    <2>2. UNCHANGED <<rows, published, stream>> /\ published \subseteq rows
      BY <1>0, <1>9 DEF Restart, TypeOK
    <2>3. TypeOK' /\ MarkedNext'
      BY <1>0, <2>1, <2>2, FaultType, FreshType
    <2> QED  BY <1>0, <2>2, <2>3 DEF PublisherInv, PublishedInStream, InStream
  <1>10. ASSUME UNCHANGED vars PROVE PublisherInv'
    BY <1>0, <1>10 DEF vars, PublisherInv, TypeOK, PublishedInStream, MarkedNext, InStream
  <1> QED
    BY <1>1, <1>2, <1>3, <1>4, <1>5, <1>6, <1>7, <1>8, <1>9, <1>10 DEF Next

\* The publisher's variables keep their types, whatever fails.
THEOREM PublisherTypes == Spec => []TypeOK
  <1>1. PublisherInv => TypeOK
    BY DEF PublisherInv
  <1> QED  BY PublisherInit, PublisherStep, <1>1, PTL DEF Spec

\* Transactional outbox (runtime/outbox.py, mark only after enqueue): whatever
\* fails and whoever restarts, a row marked PUBLISHED is in the stream.
THEOREM NoMessageLost == Spec => []PublishedInStream
  <1>1. PublisherInv => PublishedInStream
    BY DEF PublisherInv
  <1> QED  BY PublisherInit, PublisherStep, <1>1, PTL DEF Spec

------------------------------------------------------------------------------
\* What is still to be published: the rest of the batch, and the row at hand.
ToCome == batch \cup ({row} \ {0})

\* No row of a batch comes twice: what is still to be published is PENDING.
Unmarked == ToCome \cap published = {} /\ row \notin batch

\* Every message is one of a PUBLISHED row, the row about to be marked, or a
\* fault.
Copies == Len(stream) <= Cardinality(published) + faults + (IF pc = "mark" THEN 1 ELSE 0)

\* The rows of a workflow are committed one after the other.
RowsInOrder ==
  \A i \in rows : \A j \in 1..(i - 1) : WorkflowOf[j] = WorkflowOf[i] => j \in rows

\* The rows of a workflow before a published one are published.
PublishedInOrder ==
  \A i \in published : \A j \in 1..(i - 1) : WorkflowOf[j] = WorkflowOf[i] => j \in published

\* Those before a row that is still to be published come before it.
BatchInOrder ==
  /\ \A i \in ToCome : \A j \in 1..(i - 1) :
       WorkflowOf[j] = WorkflowOf[i] => j \in published \cup ToCome
  /\ \A i \in batch : row < i

\* The stream has no message of another row.
StreamSettled ==
  \A k \in DOMAIN stream : stream[k] \in published \/ (pc = "mark" /\ stream[k] = row)

OrderInv ==
  /\ PublisherInv /\ Unmarked /\ Copies /\ RowsInOrder
  /\ faults = 0 => PublishedInOrder /\ BatchInOrder /\ StreamSettled /\ InOrder

\* Counting rows: they are finitely many, and a new one adds one.
LEMMA RowCount ==
  ASSUME TypeOK, NEW S \in SUBSET rows
  PROVE  /\ IsFiniteSet(S) /\ Cardinality(S) \in Nat
         /\ \A i : Cardinality(S \cup {i}) \in Nat /\ Cardinality(S) <= Cardinality(S \cup {i})
         /\ \A i : i \notin S => Cardinality(S \cup {i}) = Cardinality(S) + 1
  <1>1. IsFiniteSet(1..MaxRows)
    BY FS_Interval, PublisherAssumption
  <1>2. S \subseteq 1..MaxRows
    BY DEF TypeOK
  <1>3. IsFiniteSet(S)
    BY <1>1, <1>2, FS_Subset
  <1>4. Cardinality(S) \in Nat
    BY <1>3, FS_CardinalityType
  <1>5. \A i : Cardinality(S \cup {i}) = IF i \in S THEN Cardinality(S) ELSE Cardinality(S) + 1
    BY <1>3, FS_AddElement
  <1> QED  BY <1>3, <1>4, <1>5

\* The loop over the batch takes the oldest row and keeps the others.
LEMMA TakeOrder ==
  ASSUME TypeOK, NEW S \in SUBSET rows, Take(S)
  PROVE  /\ ToCome' = S /\ row' \notin batch'
         /\ \A i \in batch' : row' < i
         /\ pc' # "mark"
  <1>1. S \subseteq Nat \ {0}
    BY DEF TypeOK
  <1>2. CASE S = {} /\ pc' = "sleep" /\ row' = 0 /\ batch' = {}
    BY <1>2 DEF ToCome
  <1>3. CASE \E i \in S : /\ \A j \in S : i <= j
                          /\ pc' = "enqueue" /\ row' = i /\ batch' = S \ {i}
    <2>1. PICK i \in S : /\ \A j \in S : i <= j
                         /\ pc' = "enqueue" /\ row' = i /\ batch' = S \ {i}
      BY <1>3
    <2>2. \A j \in S \ {i} : i < j
      BY <1>1, <2>1
    <2>3. i # 0
      BY <1>1
    <2> QED  BY <2>1, <2>2, <2>3 DEF ToCome
  <1> QED  BY <1>2, <1>3 DEF Take

\* fetch_unpublished cuts the PENDING rows off at some age: with a row it
\* fetches every older PENDING one.
LEMMA OldestFirst ==
  ASSUME TypeOK, NEW i \in Oldest, NEW j \in rows \ published, j < i
  PROVE  j \in Oldest
  <1> DEFINE pending == rows \ published
             Older(k) == {l \in pending : l < k}
  <1>1. i \in Nat /\ j \in Nat /\ pending \subseteq Nat
    BY DEF TypeOK, Oldest
  <1>2. Older(j) \subseteq Older(i)
    BY <1>1
  <1>3. IsFiniteSet(Older(i))
    <2>1. Older(i) \in SUBSET rows
      OBVIOUS
    <2> QED  BY <2>1, RowCount
  <1>4. /\ Cardinality(Older(j)) <= Cardinality(Older(i))
        /\ Cardinality(Older(i)) \in Nat /\ Cardinality(Older(j)) \in Nat
    BY <1>2, <1>3, FS_Subset, FS_CardinalityType
  <1>5. Cardinality(Older(i)) < BatchSize
    BY DEF Oldest
  <1> QED  BY <1>4, <1>5, PublisherAssumption DEF Oldest

LEMMA OrderInit == Init => OrderInv
  <1> SUFFICES ASSUME Init PROVE OrderInv
    OBVIOUS
  <1>1. PublisherInv
    BY PublisherInit
  <1>2. Unmarked /\ RowsInOrder /\ PublishedInOrder /\ BatchInOrder
    BY DEF Init, Unmarked, RowsInOrder, PublishedInOrder, BatchInOrder, ToCome
  <1>3. StreamSettled /\ InOrder /\ Len(stream) = 0
    BY DEF Init, StreamSettled, InOrder
  <1>4. Copies
    BY <1>3, FS_EmptySet DEF Init, Copies
  <1> QED  BY <1>1, <1>2, <1>3, <1>4 DEF OrderInv

LEMMA OrderStep == OrderInv /\ [Next]_vars => OrderInv'
  <1> SUFFICES ASSUME OrderInv, [Next]_vars PROVE OrderInv'
    OBVIOUS
  <1> USE PublisherAssumption
  <1>0. /\ PublisherInv /\ TypeOK /\ Unmarked /\ Copies /\ RowsInOrder
        /\ faults = 0 => PublishedInOrder /\ BatchInOrder /\ StreamSettled /\ InOrder
    BY DEF OrderInv, PublisherInv
  <1>a. PublisherInv' /\ TypeOK'
    BY <1>0, PublisherStep DEF PublisherInv
  <1>b. /\ Len(stream) \in Nat /\ faults \in Nat
        /\ published \in SUBSET rows /\ batch \in SUBSET rows /\ rows \subseteq Nat \ {0}
        /\ Cardinality(published) \in Nat
    BY <1>0, RowCount DEF TypeOK
  <1>1. ASSUME NEW i \in 1..MaxRows, Insert(i) PROVE OrderInv'
    <2>1. /\ rows' = rows \cup {i} /\ UNCHANGED <<published, stream, pc, batch, row, faults>>
          /\ \A j \in 1..(i - 1) : WorkflowOf[j] = WorkflowOf[i] => j \in rows
      BY <1>1 DEF Insert, thread
    <2>2. RowsInOrder'
      BY <1>0, <2>1 DEF RowsInOrder
    <2> QED
      BY <1>0, <1>a, <2>1, <2>2
      DEF OrderInv, Unmarked, Copies, PublishedInOrder, BatchInOrder, StreamSettled,
          InOrder, ToCome
  <1>2. ASSUME FetchUnpublished PROVE OrderInv'
    <2>1. /\ Take(Oldest) /\ Oldest \in SUBSET rows /\ Oldest \cap published = {}
          /\ pc = "poll" /\ UNCHANGED <<rows, published, stream, faults>>
      BY <1>2 DEF FetchUnpublished, Oldest
    <2>2. /\ ToCome' = Oldest /\ row' \notin batch' /\ pc' # "mark"
          /\ \A i \in batch' : row' < i
      BY <1>0, <2>1, TakeOrder
    <2>3. \A i \in Oldest : \A j \in 1..(i - 1) :
            WorkflowOf[j] = WorkflowOf[i] => j \in published \cup Oldest
      <3> SUFFICES ASSUME NEW i \in Oldest, NEW j \in 1..(i - 1), WorkflowOf[j] = WorkflowOf[i],
                          j \notin published
                   PROVE  j \in Oldest
        OBVIOUS
      <3>1. i \in rows /\ i \in Nat
        BY <1>b, <2>1
      <3>2. j \in rows /\ j < i
        BY <1>0, <3>1 DEF RowsInOrder
      <3> QED  BY <1>0, <3>2, OldestFirst
    <2>4. Unmarked' /\ RowsInOrder'
      BY <1>0, <2>1, <2>2 DEF Unmarked, RowsInOrder
    <2>5. Copies'
      BY <1>0, <2>1, <2>2 DEF Copies
    <2>6. faults' = 0 => PublishedInOrder' /\ BatchInOrder' /\ StreamSettled' /\ InOrder'
      BY <1>0, <2>1, <2>2, <2>3
      DEF PublishedInOrder, BatchInOrder, StreamSettled, InOrder
    <2> QED  BY <1>a, <2>4, <2>5, <2>6 DEF OrderInv
  <1>3. ASSUME Leave \/ Wake PROVE OrderInv'
    <2>1. /\ pc' # "mark" /\ pc # "mark" /\ batch' = {} /\ row' = 0
          /\ UNCHANGED <<rows, published, stream, faults>>
      BY <1>3 DEF Leave, Wake, Fresh
    <2> QED
      BY <1>0, <1>a, <2>1
      DEF OrderInv, Unmarked, Copies, RowsInOrder, PublishedInOrder, BatchInOrder,
          StreamSettled, InOrder, ToCome
  <1>4. ASSUME Enqueue PROVE OrderInv'
    <2>1. /\ pc = "enqueue" /\ pc' = "mark" /\ stream' = Append(stream, row)
          /\ UNCHANGED <<rows, published, batch, row, faults>>
          /\ row \in rows /\ row # 0
      BY <1>0, <1>4 DEF Enqueue, TypeOK
    <2>2. /\ stream \in Seq(rows)
          /\ Len(stream') = Len(stream) + 1 /\ DOMAIN stream' = 1..(Len(stream) + 1)
          /\ \A k \in 1..Len(stream) : stream'[k] = stream[k]
          /\ stream'[Len(stream) + 1] = row
      BY <1>0, <2>1 DEF TypeOK
    <2>3. Unmarked' /\ RowsInOrder'
      BY <1>0, <2>1 DEF Unmarked, RowsInOrder, ToCome
    <2>4. Copies'
      BY <1>0, <1>b, <2>1, <2>2 DEF Copies
    <2>5. ASSUME faults' = 0
          PROVE  PublishedInOrder' /\ BatchInOrder' /\ StreamSettled' /\ InOrder'
      <3>1. PublishedInOrder /\ BatchInOrder /\ StreamSettled /\ InOrder
        BY <1>0, <2>1, <2>5
      <3>2. PublishedInOrder' /\ BatchInOrder'
        BY <2>1, <3>1 DEF PublishedInOrder, BatchInOrder, ToCome
      <3>3. DOMAIN stream = 1..Len(stream) /\ \A k \in 1..Len(stream) : stream[k] \in rows
        BY <2>2
      <3>4. StreamSettled'
        BY <1>b, <2>1, <2>2, <3>1, <3>3 DEF StreamSettled
      <3>5. \A k \in 1..Len(stream) : WorkflowOf[stream[k]] = WorkflowOf[row] => stream[k] < row
        <4> SUFFICES ASSUME NEW k \in 1..Len(stream), WorkflowOf[stream[k]] = WorkflowOf[row],
                            ~ (stream[k] < row)
                     PROVE  FALSE
          OBVIOUS
        <4>1. stream[k] \in published /\ stream[k] \in Nat /\ row \in Nat \ {0}
          BY <1>b, <2>1, <3>1, <3>3 DEF StreamSettled
        <4>2. row \notin published
          BY <1>0, <2>1 DEF Unmarked, ToCome
        <4>3. row \in 1..(stream[k] - 1)
          BY <4>1, <4>2
        <4> QED  BY <3>1, <4>1, <4>2, <4>3 DEF PublishedInOrder
      <3>6. InOrder'
        <4> SUFFICES ASSUME NEW k \in DOMAIN stream', NEW l \in DOMAIN stream', k < l,
                            WorkflowOf[stream'[k]] = WorkflowOf[stream'[l]]
                     PROVE  stream'[k] < stream'[l]
          BY DEF InOrder
        <4>1. k \in 1..Len(stream) /\ (l \in 1..Len(stream) \/ l = Len(stream) + 1)
          BY <1>b, <2>2
        <4>2. CASE l \in 1..Len(stream)
          BY <2>1, <2>2, <2>5, <3>1, <3>3, <4>1, <4>2 DEF InOrder
        <4>3. CASE l = Len(stream) + 1
          BY <2>2, <3>5, <4>1, <4>3
        <4> QED  BY <4>1, <4>2, <4>3
      <3> QED  BY <3>2, <3>4, <3>6
    <2> QED  BY <1>a, <2>3, <2>4, <2>5 DEF OrderInv
  <1>5. ASSUME NEW added \in BOOLEAN, EnqueueFails(added) PROVE OrderInv'
    <2>1. /\ pc = "enqueue" /\ faults' = faults + 1 /\ UNCHANGED <<rows, published>>
          /\ \/ Take(batch)
             \/ UNCHANGED <<pc, batch, row>>
          /\ stream' = Append(stream, row) \/ stream' = stream
      BY <1>5 DEF EnqueueFails, Fault
    <2>2. Unmarked' /\ pc' # "mark"
      <3>1. CASE UNCHANGED <<pc, batch, row>>
        BY <1>0, <2>1, <3>1 DEF Unmarked, ToCome
      <3>2. CASE Take(batch)
        <4>1. ToCome' = batch /\ row' \notin batch' /\ pc' # "mark"
          BY <1>0, <1>b, <3>2, TakeOrder
        <4>2. batch \cap published = {}
          BY <1>0 DEF Unmarked, ToCome
        <4> QED  BY <2>1, <4>1, <4>2 DEF Unmarked
      <3> QED  BY <2>1, <3>1, <3>2
    <2>3. Len(stream') <= Len(stream) + 1
      <3>1. stream \in Seq(rows) /\ row \in rows
        BY <1>0, <2>1 DEF TypeOK
      <3> QED  BY <1>b, <2>1, <3>1
    <2>4. Len(stream') \in Nat
      BY <1>a DEF TypeOK
    <2>5. Copies'
      BY <1>0, <1>b, <2>1, <2>2, <2>3, <2>4 DEF Copies
    <2>6. faults' # 0 /\ RowsInOrder'
      BY <1>0, <1>b, <2>1 DEF RowsInOrder
    <2> QED  BY <1>a, <2>2, <2>5, <2>6 DEF OrderInv
  <1>6. ASSUME MarkPublished PROVE OrderInv'
    <2>1. /\ pc = "mark" /\ published' = published \cup {row} /\ Take(batch)
          /\ UNCHANGED <<rows, stream, faults>> /\ row \in rows /\ row # 0
      BY <1>0, <1>6 DEF MarkPublished, TypeOK
    <2>2. /\ ToCome' = batch /\ row' \notin batch' /\ pc' # "mark"
          /\ \A i \in batch' : row' < i
      BY <1>0, <1>b, <2>1, TakeOrder
    <2>3. /\ ToCome = batch \cup {row} /\ batch \cap published = {}
          /\ row \notin published /\ row \notin batch
      BY <1>0, <2>1 DEF Unmarked, ToCome
    <2>4. Unmarked'
      BY <2>1, <2>2, <2>3 DEF Unmarked
    <2>5. Copies'
      <3>1. Cardinality(published') = Cardinality(published) + 1
        BY <1>0, <1>b, <2>1, <2>3, RowCount
      <3> QED  BY <1>0, <1>b, <2>1, <2>2, <3>1 DEF Copies
    <2>6. RowsInOrder'
      BY <1>0, <2>1 DEF RowsInOrder
    <2>7. ASSUME faults' = 0
          PROVE  PublishedInOrder' /\ BatchInOrder' /\ StreamSettled' /\ InOrder'
      <3>1. PublishedInOrder /\ BatchInOrder /\ StreamSettled /\ InOrder
        BY <1>0, <2>1, <2>7
      <3>2. \A j \in 1..(row - 1) : WorkflowOf[j] = WorkflowOf[row] => j \in published
        <4> SUFFICES ASSUME NEW j \in 1..(row - 1), WorkflowOf[j] = WorkflowOf[row]
                     PROVE  j \in published
          OBVIOUS
        <4>1. row \in Nat /\ j < row /\ j \in Nat
          BY <1>b, <2>1
        <4>2. j \in published \cup batch \cup {row}
          BY <2>3, <3>1 DEF BatchInOrder
        <4>3. j \notin batch /\ j # row
          BY <1>b, <3>1, <4>1 DEF BatchInOrder
        <4> QED  BY <4>2, <4>3
      <3>3. PublishedInOrder'
        BY <2>1, <3>1, <3>2 DEF PublishedInOrder
      <3>4. BatchInOrder'
        BY <2>1, <2>2, <2>3, <3>1 DEF BatchInOrder
      <3>5. StreamSettled' /\ InOrder'
        BY <2>1, <2>7, <3>1 DEF StreamSettled, InOrder
      <3> QED  BY <3>3, <3>4, <3>5
    <2> QED  BY <1>a, <2>4, <2>5, <2>6, <2>7 DEF OrderInv
  <1>7. ASSUME \/ Restart
               \/ \E written \in BOOLEAN : ThreadDies(written)
        PROVE  OrderInv'
    <2>1. /\ faults' = faults + 1 /\ batch' = {} /\ row' = 0 /\ pc' # "mark"
          /\ UNCHANGED <<rows, stream>>
          /\ published' = published \/ (pc = "mark" /\ published' = published \cup {row})
      BY <1>7 DEF ThreadDies, Restart, Fault, Fresh
    <2>2. Unmarked' /\ RowsInOrder'
      BY <1>0, <2>1 DEF Unmarked, ToCome, RowsInOrder
    <2>3. Cardinality(published) <= Cardinality(published') /\ Cardinality(published') \in Nat
      <3>1. CASE published' = published
        BY <1>b, <3>1
      <3>2. CASE published' = published \cup {row}
        BY <1>0, <1>b, <3>2, RowCount
      <3> QED  BY <2>1, <3>1, <3>2
    <2>4. Copies'
      BY <1>0, <1>b, <2>1, <2>3 DEF Copies
    <2>5. faults' # 0
      BY <1>b, <2>1
    <2> QED  BY <1>a, <2>2, <2>4, <2>5 DEF OrderInv
  <1>8. ASSUME Stop \/ UNCHANGED vars PROVE OrderInv'
    <2>1. UNCHANGED <<rows, published, stream, pc, batch, row, faults>>
      BY <1>8 DEF Stop, thread, vars
    <2> QED
      BY <1>0, <1>a, <2>1
      DEF OrderInv, Unmarked, Copies, RowsInOrder, PublishedInOrder, BatchInOrder,
          StreamSettled, InOrder, ToCome
  <1> QED
    BY <1>1, <1>2, <1>3, <1>4, <1>5, <1>6, <1>7, <1>8 DEF Next

\* _publish_batch and _enqueue_with_retry: batches, retries and restarts add
\* no message that a fault does not account for, however many there are.
THEOREM DuplicatesArePaidFor == Spec => []OneCopyPerFault
  <1>1. OrderInv => OneCopyPerFault
    <2> SUFFICES ASSUME OrderInv PROVE OneCopyPerFault
      OBVIOUS
    <2>1. TypeOK /\ Unmarked /\ Copies
      BY DEF OrderInv, PublisherInv
    <2>2. /\ Len(stream) \in Nat /\ faults \in Nat /\ published \in SUBSET rows
          /\ rows \in SUBSET rows
      BY <2>1, PublisherAssumption DEF TypeOK
    <2>3. /\ Cardinality(published) \in Nat /\ Cardinality(rows) \in Nat /\ IsFiniteSet(rows)
      BY <2>1, <2>2, RowCount
    <2>4. CASE pc = "mark"
      <3>1. row \in rows \ published
        BY <2>1, <2>4 DEF TypeOK, Unmarked, ToCome
      <3>2. Cardinality(published \cup {row}) = Cardinality(published) + 1
        BY <2>1, <2>2, <3>1, RowCount
      <3>3. Cardinality(published \cup {row}) <= Cardinality(rows)
        BY <2>2, <2>3, <3>1, FS_Subset
      <3> QED  BY <2>1, <2>2, <2>3, <2>4, <3>2, <3>3 DEF Copies, OneCopyPerFault
    <2>5. CASE pc # "mark"
      <3>1. Cardinality(published) <= Cardinality(rows)
        BY <2>2, <2>3, FS_Subset
      <3> QED  BY <2>1, <2>2, <2>3, <2>5, <3>1 DEF Copies, OneCopyPerFault
    <2> QED  BY <2>4, <2>5
  <1> QED  BY OrderInit, OrderStep, <1>1, PTL DEF Spec

\* fetch_unpublished by created_at, one row after the other: while nothing
\* fails a workflow's messages leave in the order of its rows, although
\* younger rows of other workflows may commit, and be published, first.
THEOREM WorkflowOrderKept == Spec => []InOrder
  <1>1. OrderInv => InOrder
    BY DEF OrderInv, InOrder
  <1> QED  BY OrderInit, OrderStep, <1>1, PTL DEF Spec
==============================================================================
