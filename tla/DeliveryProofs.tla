--------------------------- MODULE DeliveryProofs ---------------------------
(* Proofs about Delivery and Thrift, for any batches, widths and lengths. *)
EXTENDS Delivery, SequenceTheorems, TLAPS

-----------------------------------------------------------------------------
(* The inductive invariant. *)

\* The last submission before n that wrote anything was cut short.
CutBefore(n) ==
  \E k \in 1 .. n - 1 :
    submitted[k].result = "cut" /\ \A m \in k + 1 .. n - 1 : submitted[m].result = "unmade"

\* What waits in the buffer is cut short, and nothing has been flushed since.
BufferIsCut ==
  /\ \A i \in DOMAIN buffer : ~buffer[i].whole
  /\ buffer # <<>> => process /\ CutBefore(Len(submitted) + 1)

\* A datagram has one whole message, its last; more than that only when something was cut.
Datagram(d) ==
  /\ \A i \in DOMAIN d : d[i].whole => i = Len(d)
  /\ d[Len(d)].number \in 1 .. Len(submitted) /\ submitted[d[Len(d)].number].result = "ok"
  /\ Len(d) # 1 => CutBefore(d[Len(d)].number)
  /\ d[Len(d)].args = Wire(submitted[d[Len(d)].number].spans)

\* What the agent reads in a batch is what the client wrote of its spans.
ReadAsWritten ==
  \A r \in received : r.readable => r.batch = ReadArgs(Wire(submitted[r.number].spans)).batch

\* Only what cannot be written is cut short.
CutsUnwritable == \A n \in DOMAIN submitted : submitted[n].result = "cut" => ~Writable(Wire(submitted[n].spans))

Datagrams == \A d \in network : Datagram(d)

IInv == TypeOK /\ BufferIsCut /\ Datagrams /\ GarbledOnlyBehindCut /\ ReadAsWritten /\ CutsUnwritable

-----------------------------------------------------------------------------
(* The steps. *)

LEMMA InitInv == Init => IInv
<1> SUFFICES ASSUME Init PROVE IInv OBVIOUS
<1>1. buffer \in Seq(Message) /\ submitted \in Seq(SubmissionType) /\ Len(submitted) = 0 BY DEF Init
<1>2. TypeOK
  <2>1. network \subseteq Seq(Message) \ {<<>>} /\ \A r \in received : r.number \in 1 .. Len(submitted) BY DEF Init
  <2>2. Len(submitted) <= MaxSubmissions BY <1>1, DeliveryAssumption
  <2>3. process \in BOOLEAN BY DEF Init
  <2>4. QED BY <1>1, <2>1, <2>2, <2>3 DEF TypeOK
<1>3. QED BY <1>2 DEF IInv, BufferIsCut, Datagrams, GarbledOnlyBehindCut, ReadAsWritten, CutsUnwritable, Init

\* A submission is appended to the history.
LEMMA Appended ==
  ASSUME IInv, Len(submitted) < MaxSubmissions, NEW batch \in Batch,
         NEW result \in {"lost", "unmade", "cut", "unsent", "ok"}, Ends(batch, result)
  PROVE  /\ submitted' \in Seq(SubmissionType) /\ Len(submitted') = Len(submitted) + 1
         /\ Len(submitted') <= MaxSubmissions /\ Len(submitted) \in Nat
         /\ submitted'[Len(submitted) + 1] = [spans |-> batch, result |-> result]
         /\ \A n \in 1 .. Len(submitted) : submitted'[n] = submitted[n]
<1>1. submitted \in Seq(SubmissionType) /\ Len(submitted) \in Nat BY DEF IInv, TypeOK
<1>2. [spans |-> batch, result |-> result] \in SubmissionType BY DEF SubmissionType
<1>3. submitted'[Len(submitted) + 1] = [spans |-> batch, result |-> result] BY <1>1, <1>2 DEF Ends
<1>4. QED BY <1>1, <1>2, <1>3, DeliveryAssumption DEF Ends

LEMMA CutsAppended ==
  ASSUME IInv, Len(submitted) < MaxSubmissions, NEW batch \in Batch,
         NEW result \in {"lost", "unmade", "cut", "unsent", "ok"}, Ends(batch, result),
         result = "cut" => ~Writable(Wire(batch))
  PROVE  CutsUnwritable'
<1>1. /\ submitted' \in Seq(SubmissionType) /\ Len(submitted') = Len(submitted) + 1 /\ Len(submitted) \in Nat
      /\ submitted'[Len(submitted) + 1] = [spans |-> batch, result |-> result]
      /\ \A n \in 1 .. Len(submitted) : submitted'[n] = submitted[n]
  BY Appended
<1>2. ASSUME NEW n \in DOMAIN submitted', submitted'[n].result = "cut"
      PROVE  ~Writable(Wire(submitted'[n].spans))
  <2>1. n \in 1 .. Len(submitted) \/ n = Len(submitted) + 1 BY <1>1
  <2>2. CASE n \in 1 .. Len(submitted)
    <3>1. submitted[n].result = "cut" /\ submitted'[n] = submitted[n] BY <1>1, <1>2, <2>2
    <3>2. n \in DOMAIN submitted BY <2>2 DEF IInv, TypeOK
    <3>3. QED BY <3>1, <3>2 DEF IInv, CutsUnwritable
  <2>3. CASE n = Len(submitted) + 1
    <3>1. submitted'[n].result = result /\ submitted'[n].spans = batch BY <1>1, <2>3
    <3>2. QED BY <1>2, <3>1
  <2>4. QED BY <2>1, <2>2, <2>3
<1>3. QED BY <1>2 DEF CutsUnwritable, Wire, Spans, Finished, TracerProcess

\* ... and what was cut before an earlier one stays so.
LEMMA CutBeforeKept ==
  ASSUME NEW n \in Nat, Len(submitted) \in Nat, n <= Len(submitted) + 1, CutBefore(n),
         \A m \in 1 .. Len(submitted) : submitted'[m] = submitted[m]
  PROVE  CutBefore(n)'
<1>1. PICK k \in 1 .. n - 1 :
        submitted[k].result = "cut" /\ \A m \in k + 1 .. n - 1 : submitted[m].result = "unmade"
  BY DEF CutBefore
<1>2. \A m \in 1 .. n - 1 : submitted'[m] = submitted[m] OBVIOUS
<1>3. QED BY <1>1, <1>2 DEF CutBefore

\* The datagrams on the way and those received stay as they were.
LEMMA DatagramsKept ==
  ASSUME IInv, UNCHANGED received, Len(submitted) \in Nat, Len(submitted') = Len(submitted) + 1,
         \A m \in 1 .. Len(submitted) : submitted'[m] = submitted[m]
  PROVE  /\ \A d \in network : Datagram(d)'
         /\ GarbledOnlyBehindCut' /\ ReadAsWritten'
         /\ \A r \in received' : r.number \in 1 .. Len(submitted')
<1>1. ASSUME NEW d \in network PROVE Datagram(d)'
  <2>1. Datagram(d) BY DEF IInv, Datagrams
  <2>2. Len(d) # 1 => CutBefore(d[Len(d)].number)' BY <2>1, CutBeforeKept DEF Datagram
  <2>3. submitted'[d[Len(d)].number].result = "ok" BY <2>1 DEF Datagram
  <2>4. d[Len(d)].args = Wire(submitted[d[Len(d)].number].spans)' BY <2>1 DEF Datagram, Wire, Spans, Finished, TracerProcess
  <2>5. QED BY <2>1, <2>2, <2>3, <2>4 DEF Datagram
<1>2. ASSUME NEW r \in received, ~r.readable PROVE CutBefore(r.number)'
  <2>1. r.number \in 1 .. Len(submitted) BY DEF IInv, TypeOK
  <2>2. CutBefore(r.number) BY <1>2 DEF IInv, GarbledOnlyBehindCut, CutBefore
  <2>3. QED BY <2>1, <2>2, CutBeforeKept
<1>3. GarbledOnlyBehindCut' BY <1>2 DEF GarbledOnlyBehindCut, CutBefore
<1>4. ReadAsWritten' BY DEF IInv, TypeOK, ReadAsWritten
<1>5. QED BY <1>1, <1>3, <1>4 DEF IInv, TypeOK

\* A submission that makes no datagram keeps the invariant if it keeps what it says of the buffer.
LEMMA NothingSent ==
  ASSUME IInv, Len(submitted) < MaxSubmissions, NEW batch \in Batch,
         NEW result \in {"lost", "unmade", "cut", "unsent", "ok"}, Ends(batch, result),
         UNCHANGED <<process, network, received>>, buffer' \in Seq(Message), BufferIsCut',
         result = "cut" => ~Writable(Wire(batch))
  PROVE  IInv'
<1>1. /\ submitted' \in Seq(SubmissionType) /\ Len(submitted') = Len(submitted) + 1
      /\ Len(submitted') <= MaxSubmissions /\ Len(submitted) \in Nat
      /\ \A n \in 1 .. Len(submitted) : submitted'[n] = submitted[n]
  BY Appended
<1>2. /\ \A d \in network : Datagram(d)'
      /\ GarbledOnlyBehindCut' /\ ReadAsWritten'
      /\ \A r \in received' : r.number \in 1 .. Len(submitted')
  BY <1>1, DatagramsKept
<1>3. TypeOK' BY <1>1, <1>2 DEF IInv, TypeOK
<1>4. Datagrams' BY <1>2 DEF Datagrams
<1>5. CutsUnwritable' BY CutsAppended
<1>6. QED BY <1>2, <1>3, <1>4, <1>5 DEF IInv

LEMMA SubmitKeeps == ASSUME IInv, NEW batch \in Batch, Submit(batch) PROVE IInv'
<1>1. Len(submitted) < MaxSubmissions /\ UNCHANGED <<process, received>> BY DEF Submit
<1>a. Len(submitted) \in Nat BY DEF IInv, TypeOK
<1>b. PICK n \in Nat : n = Len(submitted) + 1 BY <1>a
<1>2. Len(submitted) = n - 1 /\ This = n /\ n \in 1 .. MaxSubmissions
  BY <1>1, <1>a, <1>b, DeliveryAssumption DEF This
<1>3. buffer \in Seq(Message) /\ BufferIsCut BY DEF IInv, TypeOK
<1>c. CutBefore(Len(submitted) + 1) => CutBefore(n) BY <1>b
<1>d. ASSUME Len(submitted') = n, CutBefore(n + 1)' PROVE CutBefore(Len(submitted) + 1)' BY <1>d
<1>4. CASE Unnamed(batch)
  <2>1. Ends(batch, "lost") /\ ~process /\ UNCHANGED <<buffer, network>> BY <1>4 DEF Unnamed
  <2>2. BufferIsCut' BY <1>1, <1>3, <2>1 DEF BufferIsCut
  <2>3. QED BY <1>1, <1>3, <2>1, <2>2, NothingSent
<1>5. CASE NotMade(batch)
  <2>1. Ends(batch, "unmade") /\ UNCHANGED <<buffer, network>> BY <1>5 DEF NotMade
  <2>2. /\ Len(submitted') = n /\ submitted'[n].result = "unmade"
        /\ \A m \in 1 .. Len(submitted) : submitted'[m] = submitted[m]
    <3>1. /\ submitted'[Len(submitted) + 1] = [spans |-> batch, result |-> "unmade"]
          /\ Len(submitted') = Len(submitted) + 1 /\ \A m \in 1 .. Len(submitted) : submitted'[m] = submitted[m]
      BY <1>1, <2>1, Appended
    <3>2. QED BY <1>b, <3>1
  <2>3. ASSUME CutBefore(n) PROVE CutBefore(n + 1)'
    <3>1. PICK k \in 1 .. n - 1 :
            submitted[k].result = "cut" /\ \A m \in k + 1 .. n - 1 : submitted[m].result = "unmade"
      BY <2>3 DEF CutBefore
    <3>2. k \in 1 .. n /\ submitted'[k].result = "cut" BY <1>2, <2>2, <3>1
    <3>3. \A m \in k + 1 .. n : submitted'[m].result = "unmade" BY <1>2, <2>2, <3>1
    <3>4. QED BY <1>2, <3>2, <3>3 DEF CutBefore
  <2>4. BufferIsCut'
    <3>1. buffer # <<>> => process /\ CutBefore(Len(submitted) + 1)' BY <1>3, <1>c, <1>d, <2>2, <2>3 DEF BufferIsCut
    <3>2. QED BY <1>1, <1>3, <2>1, <3>1 DEF BufferIsCut
  <2>5. QED BY <1>1, <1>3, <2>1, <2>4, NothingSent
<1>6. CASE WriteFails(batch)
  <2>1. Ends(batch, "cut") /\ process /\ buffer' = Append(buffer, Cut(n)) /\ UNCHANGED network
       /\ ~Writable(Wire(batch))
    BY <1>2, <1>6 DEF WriteFails
  <2>2. Len(submitted') = n /\ submitted'[n].result = "cut"
    <3>1. /\ submitted'[Len(submitted) + 1] = [spans |-> batch, result |-> "cut"]
          /\ Len(submitted') = Len(submitted) + 1 /\ \A m \in 1 .. Len(submitted) : submitted'[m] = submitted[m]
      BY <1>1, <2>1, Appended
    <3>2. QED BY <1>b, <3>1
  <2>3. CutBefore(n + 1)' BY <1>2, <2>2 DEF CutBefore
  <2>a. Cut(n) \in Message BY <1>2 DEF Message
  <2>4. Cut(n) \in Message /\ ~Cut(n).whole BY <2>a DEF Cut
  <2>5. buffer' \in Seq(Message) BY <1>3, <2>1, <2>4
  <2>6. \A i \in DOMAIN buffer' : ~buffer'[i].whole BY <1>3, <2>1, <2>4 DEF BufferIsCut
  <2>7. BufferIsCut'
    <3>1. CutBefore(Len(submitted) + 1)' BY <1>d, <2>2, <2>3
    <3>2. QED BY <1>1, <2>1, <2>6, <3>1 DEF BufferIsCut
  <2>8. QED BY <1>1, <2>1, <2>5, <2>7, NothingSent
<1>7. CASE SendtoFails(batch)
  <2>1. Ends(batch, "unsent") /\ buffer' = <<>> /\ UNCHANGED network BY <1>7 DEF SendtoFails
  <2>2. BufferIsCut' /\ buffer' \in Seq(Message) BY <2>1 DEF BufferIsCut
  <2>3. QED BY <1>1, <2>1, <2>2, NothingSent
<1>8. CASE Sent(batch)
  <2>0. PICK d : d = Append(buffer, Whole(n, batch)) OBVIOUS
  <2>1. /\ Ends(batch, "ok") /\ buffer' = <<>> /\ network' = network \cup {d}
        /\ CanMake(Spans(batch)) /\ Writable(Wire(batch))
    BY <1>2, <1>8, <2>0 DEF Sent
  <2>2. /\ submitted' \in Seq(SubmissionType) /\ Len(submitted') = n /\ Len(submitted') <= MaxSubmissions
        /\ submitted'[n] = [spans |-> batch, result |-> "ok"] /\ \A m \in 1 .. Len(submitted) : submitted'[m] = submitted[m]
    <3>1. submitted'[Len(submitted) + 1] = [spans |-> batch, result |-> "ok"] BY <1>1, <2>1, Appended
    <3>2. QED BY <1>1, <1>a, <1>b, <2>1, <3>1, Appended
  <2>3. Whole(n, batch) \in Message BY <1>2, <2>1 DEF Message, Sendable
  <2>4. d \in Seq(Message) /\ Len(d) = Len(buffer) + 1 /\ d[Len(d)] = Whole(n, batch) BY <1>3, <2>0, <2>3
  <2>5. \A i \in DOMAIN d : d[i].whole => i = Len(d) BY <1>3, <2>0, <2>3 DEF BufferIsCut
  <2>6. Len(d) # 1 => CutBefore(n)'
    <3>1. SUFFICES ASSUME Len(d) # 1 PROVE CutBefore(n)' OBVIOUS
    <3>2. buffer # <<>> BY <1>3, <2>4, <3>1
    <3>3. CutBefore(n) BY <1>3, <1>c, <3>2 DEF BufferIsCut
    <3>4. QED BY <1>a, <1>b, <2>2, <3>3, CutBeforeKept
  <2>7. Datagram(d)' BY <1>2, <2>2, <2>4, <2>5, <2>6 DEF Datagram, Whole
  <2>8. /\ \A e \in network : Datagram(e)'
        /\ GarbledOnlyBehindCut' /\ ReadAsWritten'
        /\ \A r \in received' : r.number \in 1 .. Len(submitted')
    BY <1>1, <1>a, <1>2, <2>2, DatagramsKept
  <2>9. Datagrams' BY <2>1, <2>7, <2>8 DEF Datagrams
  <2>10. BufferIsCut' /\ buffer' \in Seq(Message) BY <2>1 DEF BufferIsCut
  <2>11. d # <<>> BY <1>3, <2>0, <2>3
  <2>12. TypeOK' BY <1>1, <2>1, <2>2, <2>4, <2>8, <2>10, <2>11 DEF IInv, TypeOK
  <2>13. CutsUnwritable' BY <1>1, <2>1, CutsAppended
  <2>14. QED BY <2>8, <2>9, <2>10, <2>12, <2>13 DEF IInv
<1>9. QED BY <1>4, <1>5, <1>6, <1>7, <1>8 DEF Submit

LEMMA DeliverKeeps == ASSUME IInv, NEW d \in network, Deliver(d) PROVE IInv'
<1>1. received' = received \cup {Process(d)} /\ UNCHANGED <<process, buffer, network, submitted>> BY DEF Deliver
<1>2. Datagram(d) BY DEF IInv, Datagrams
<1>3. Process(d).number = d[Len(d)].number /\ (~Process(d).readable => Len(d) # 1) BY DEF Process
<1>4. ~Process(d).readable => CutBefore(Process(d).number) BY <1>2, <1>3 DEF Datagram
<1>5. ASSUME NEW r \in received', ~r.readable PROVE CutBefore(r.number)
  <2>1. CASE r \in received BY <1>5, <2>1 DEF IInv, GarbledOnlyBehindCut, CutBefore
  <2>2. CASE r = Process(d) BY <1>4, <1>5, <2>2
  <2>3. QED BY <1>1, <2>1, <2>2
<1>6. GarbledOnlyBehindCut' BY <1>1, <1>5 DEF GarbledOnlyBehindCut, CutBefore
<1>7. TypeOK' BY <1>1, <1>2, <1>3 DEF IInv, TypeOK, Datagram
<1>a. ReadAsWritten'
  <2>1. ASSUME Process(d).readable
        PROVE  Process(d).batch = ReadArgs(Wire(submitted[Process(d).number].spans)).batch
    BY <1>2, <2>1 DEF Process, Datagram
  <2>2. QED BY <1>1, <2>1 DEF IInv, ReadAsWritten
<1>8. BufferIsCut' /\ Datagrams' BY <1>1 DEF IInv, BufferIsCut, Datagrams, Datagram, CutBefore
<1>9. CutsUnwritable' BY <1>1 DEF IInv, CutsUnwritable, Wire, Spans, Finished, TracerProcess
<1>10. QED BY <1>6, <1>7, <1>8, <1>9, <1>a DEF IInv

LEMMA StepInv == IInv /\ [Next]_vars => IInv'
<1> SUFFICES ASSUME IInv, [Next]_vars PROVE IInv' OBVIOUS
<1> USE DEF TypeOK, BufferIsCut, Datagrams, Datagram, GarbledOnlyBehindCut, CutBefore, ReadAsWritten, CutsUnwritable
<1>1. CASE SetProcess BY <1>1 DEF IInv, SetProcess
<1>2. ASSUME NEW batch \in Batch, Submit(batch) PROVE IInv' BY <1>2, SubmitKeeps
<1>3. ASSUME NEW d \in network, Deliver(d) PROVE IInv' BY <1>3, DeliverKeeps
<1>4. ASSUME NEW d \in network, Lose(d) PROVE IInv' BY <1>4 DEF IInv, Lose
<1>5. CASE UNCHANGED vars BY <1>5 DEF IInv, vars
<1>6. QED BY <1>1, <1>2, <1>3, <1>4, <1>5 DEF Next

THEOREM Invariance == Spec => []IInv
BY InitInv, StepInv, PTL DEF Spec

-----------------------------------------------------------------------------
(* The properties. *)

\* Delivery keeps its types: a datagram is never empty, and what is received was submitted.
THEOREM TypeCorrect == Spec => []TypeOK
BY Invariance, PTL DEF IInv

\* The spans of a failed submission are never sent with those of a later one.
THEOREM FailedStaysUnsent == Spec => []FailedNeverSent
<1>1. IInv => FailedNeverSent
  <2> SUFFICES ASSUME IInv, NEW d \in network, NEW i \in DOMAIN d, d[i].whole
               PROVE  submitted[d[i].number].result = "ok"
    BY DEF FailedNeverSent
  <2>1. Datagram(d) BY DEF IInv, Datagrams
  <2>2. QED BY <2>1 DEF Datagram
<1>2. QED BY <1>1, Invariance, PTL

\* A batch is garbled only behind a message that was cut short.
THEOREM Garbled == Spec => []GarbledOnlyBehindCut
BY Invariance, PTL DEF IInv

-----------------------------------------------------------------------------
(* The ids, through fields that are signed. *)

\* Division and remainder with a positive divisor.
LEMMA DivMod ==
  ASSUME NEW m \in Nat \ {0}, NEW n \in Nat
  PROVE  n % m \in 0 .. m - 1 /\ n \div m \in Nat /\ (n \div m) * m + (n % m) = n
<1>1. n % m \in 0 .. m - 1 OBVIOUS
<1>2. n \div m \in Int /\ n = m * (n \div m) + (n % m) OBVIOUS
<1>3. n \div m >= 0 OBVIOUS
<1>4. QED BY <1>1, <1>2, <1>3

LEMMA SmallMod == ASSUME NEW m \in Nat \ {0}, NEW n \in 0 .. m - 1 PROVE n % m = n /\ (n - m) % m = n
<1>1. n % m = n OBVIOUS
<1>2. (n - m) % m = n BY SMTT(30)
<1>3. QED BY <1>1, <1>2

LEMMA SmallDiv == ASSUME NEW m \in Nat \ {0}, NEW n \in 0 .. m * m - 1 PROVE n \div m \in 0 .. m - 1
BY SMTT(30)

LEMMA Unsigneds == MaxUnsignedId \in Nat \ {0} /\ Half \in Nat /\ MaxUnsignedId = Half + Half
BY ThriftAssumption DEF MaxUnsignedId

\* Every id of 64 bits fits the i64 that is made of it, and can be told from it.
THEOREM IdSurvives == \A id \in Id : IdToInt(id) \in I64 /\ Unsigned(IdToInt(id)) = id
<1> SUFFICES ASSUME NEW id \in Id PROVE IdToInt(id) \in I64 /\ Unsigned(IdToInt(id)) = id OBVIOUS
<1>1. id \in 0 .. MaxUnsignedId - 1 BY DEF Id
<1>2. id % MaxUnsignedId = id /\ (id - MaxUnsignedId) % MaxUnsignedId = id BY <1>1, Unsigneds, SmallMod
<1>3. IdToInt(id) \in I64 BY <1>1, Unsigneds DEF IdToInt, I64
<1>4. QED BY <1>2, <1>3 DEF IdToInt, Unsigned

\* ... and so can every id of 128 bits from its two fields.
THEOREM TraceSurvives ==
  \A trace \in Trace :
    /\ IdToHigh(trace) \in Id /\ IdToLow(trace) \in Id
    /\ Unsigned(IdToInt(IdToHigh(trace))) * MaxUnsignedId + Unsigned(IdToInt(IdToLow(trace))) = trace
<1> SUFFICES ASSUME NEW trace \in Trace
             PROVE  /\ IdToHigh(trace) \in Id /\ IdToLow(trace) \in Id
                    /\ Unsigned(IdToInt(IdToHigh(trace))) * MaxUnsignedId + Unsigned(IdToInt(IdToLow(trace))) = trace
  OBVIOUS
<1> DEFINE m == MaxUnsignedId
<1>1. m \in Nat \ {0} /\ trace \in 0 .. m * m - 1 BY Unsigneds DEF Trace
<1>2. trace \in Nat BY <1>1
<1> HIDE DEF m
<1>3. trace \div m \in 0 .. m - 1 BY <1>1, SmallDiv
<1>4. trace % m \in 0 .. m - 1 /\ (trace \div m) * m + (trace % m) = trace BY <1>1, <1>2, DivMod
<1>5. (trace \div m) % m = trace \div m BY <1>1, <1>3, SmallMod
<1>6. IdToHigh(trace) = trace \div m /\ IdToLow(trace) = trace % m BY <1>5 DEF IdToHigh, IdToLow, m
<1>7. IdToHigh(trace) \in Id /\ IdToLow(trace) \in Id BY <1>3, <1>4, <1>6 DEF Id, m
<1>8. QED BY <1>4, <1>6, <1>7, IdSurvives DEF m

-----------------------------------------------------------------------------
(* What is read of a structure is what was written. *)

\* A field is there with its type, or was None.
LEMMA GetStruct ==
  ASSUME NEW fields, NEW i \in DOMAIN fields
  PROVE  Get(Struct(fields), i, fields[i].type) = fields[i].is
BY DEF Get, Struct

LEMMA TagRead ==
  ASSUME NEW tag, NEW read, read = ReadTag(WriteTag(tag))
  PROVE  /\ read.key = tag.key /\ read.vType = tag.vType /\ read.vStr = tag.vStr
         /\ read.vDouble = tag.vDouble /\ read.vBool = tag.vBool /\ read.vLong = tag.vLong
<1> DEFINE fields ==
  <<Field("STRING", tag.key), Field("I32", tag.vType), Field("STRING", tag.vStr), Field("DOUBLE", tag.vDouble),
    Field("BOOL", tag.vBool), Field("I64", tag.vLong), Field("STRING", tag.vBinary)>>
<1>1. WriteTag(tag) = Struct(fields) BY DEF WriteTag
<1>2. {1, 2, 3, 4, 5, 6} \subseteq DOMAIN fields OBVIOUS
<1>3. /\ fields[1].type = "STRING" /\ fields[1].is = tag.key
      /\ fields[2].type = "I32" /\ fields[2].is = tag.vType
      /\ fields[3].type = "STRING" /\ fields[3].is = tag.vStr
      /\ fields[4].type = "DOUBLE" /\ fields[4].is = tag.vDouble
      /\ fields[5].type = "BOOL" /\ fields[5].is = tag.vBool
      /\ fields[6].type = "I64" /\ fields[6].is = tag.vLong
  BY DEF Field
<1> HIDE DEF fields
<1>4. /\ Get(WriteTag(tag), 1, "STRING") = tag.key /\ Get(WriteTag(tag), 2, "I32") = tag.vType
      /\ Get(WriteTag(tag), 3, "STRING") = tag.vStr /\ Get(WriteTag(tag), 4, "DOUBLE") = tag.vDouble
      /\ Get(WriteTag(tag), 5, "BOOL") = tag.vBool /\ Get(WriteTag(tag), 6, "I64") = tag.vLong
  BY <1>1, <1>2, <1>3, GetStruct
<1>5. QED BY <1>4 DEF ReadTag

LEMMA LogRead ==
  ASSUME NEW log
  PROVE  ReadLog(WriteLog(log)).fields = ListOf(ReadTag, ListOf(WriteTag, log.fields))
<1> DEFINE fields == <<Field("I64", log.timestamp), Field("LIST", ListOf(WriteTag, log.fields))>>
<1>1. WriteLog(log) = Struct(fields) BY DEF WriteLog
<1>2. 2 \in DOMAIN fields OBVIOUS
<1>3. fields[2].type = "LIST" /\ fields[2].is = ListOf(WriteTag, log.fields) BY DEF Field
<1> HIDE DEF fields
<1>4. Get(WriteLog(log), 2, "LIST") = ListOf(WriteTag, log.fields) BY <1>1, <1>2, <1>3, GetStruct
<1>5. QED BY <1>4 DEF ReadLog

LEMMA SpanRefRead ==
  ASSUME NEW ref, NEW read, read = ReadSpanRef(WriteSpanRef(ref))
  PROVE  /\ read.refType = ref.refType /\ read.spanId = ref.spanId
         /\ read.traceIdLow = ref.traceIdLow /\ read.traceIdHigh = ref.traceIdHigh
<1> DEFINE fields ==
  <<Field("I32", ref.refType), Field("I64", ref.traceIdLow), Field("I64", ref.traceIdHigh), Field("I64", ref.spanId)>>
<1>1. WriteSpanRef(ref) = Struct(fields) BY DEF WriteSpanRef
<1>2. {1, 2, 3, 4} \subseteq DOMAIN fields OBVIOUS
<1>3. /\ fields[1].type = "I32" /\ fields[1].is = ref.refType
      /\ fields[2].type = "I64" /\ fields[2].is = ref.traceIdLow
      /\ fields[3].type = "I64" /\ fields[3].is = ref.traceIdHigh
      /\ fields[4].type = "I64" /\ fields[4].is = ref.spanId
  BY DEF Field
<1> HIDE DEF fields
<1>4. /\ Get(WriteSpanRef(ref), 1, "I32") = ref.refType /\ Get(WriteSpanRef(ref), 2, "I64") = ref.traceIdLow
      /\ Get(WriteSpanRef(ref), 3, "I64") = ref.traceIdHigh /\ Get(WriteSpanRef(ref), 4, "I64") = ref.spanId
  BY <1>1, <1>2, <1>3, GetStruct
<1>5. QED BY <1>4 DEF ReadSpanRef

LEMMA SpanRead ==
  ASSUME NEW span, NEW read, read = ReadSpan(WriteSpan(span))
  PROVE  /\ read.traceIdLow = span.traceIdLow /\ read.traceIdHigh = span.traceIdHigh
         /\ read.spanId = span.spanId /\ read.parentSpanId = span.parentSpanId
         /\ read.operationName = span.operationName /\ read.flags = span.flags
         /\ read.references = ListOf(ReadSpanRef, ListOf(WriteSpanRef, span.references))
         /\ read.tags = ListOf(ReadTag, ListOf(WriteTag, span.tags))
         /\ read.logs = ListOf(ReadLog, ListOf(WriteLog, span.logs))
<1> DEFINE fields ==
  <<Field("I64", span.traceIdLow), Field("I64", span.traceIdHigh), Field("I64", span.spanId),
    Field("I64", span.parentSpanId), Field("STRING", span.operationName),
    Field("LIST", ListOf(WriteSpanRef, span.references)), Field("I32", span.flags), Field("I64", span.startTime),
    Field("I64", span.duration), Field("LIST", ListOf(WriteTag, span.tags)), Field("LIST", ListOf(WriteLog, span.logs))>>
<1>1. WriteSpan(span) = Struct(fields) BY DEF WriteSpan
<1>2. {1, 2, 3, 4, 5, 6, 7, 10, 11} \subseteq DOMAIN fields OBVIOUS
<1>3. /\ fields[1] = Field("I64", span.traceIdLow) /\ fields[2] = Field("I64", span.traceIdHigh)
      /\ fields[3] = Field("I64", span.spanId) /\ fields[4] = Field("I64", span.parentSpanId)
      /\ fields[5] = Field("STRING", span.operationName) /\ fields[7] = Field("I32", span.flags)
      /\ fields[6] = Field("LIST", ListOf(WriteSpanRef, span.references))
      /\ fields[10] = Field("LIST", ListOf(WriteTag, span.tags))
      /\ fields[11] = Field("LIST", ListOf(WriteLog, span.logs))
  OBVIOUS
<1> HIDE DEF fields
<1>4. \A type, value : Field(type, value).type = type /\ Field(type, value).is = value BY DEF Field
<1>5. \A i \in DOMAIN fields : Get(WriteSpan(span), i, fields[i].type) = fields[i].is BY <1>1, GetStruct
<1>6. /\ Get(WriteSpan(span), 1, "I64") = span.traceIdLow /\ Get(WriteSpan(span), 2, "I64") = span.traceIdHigh
      /\ Get(WriteSpan(span), 3, "I64") = span.spanId /\ Get(WriteSpan(span), 4, "I64") = span.parentSpanId
      /\ Get(WriteSpan(span), 5, "STRING") = span.operationName /\ Get(WriteSpan(span), 7, "I32") = span.flags
  BY <1>2, <1>3, <1>4, <1>5
<1>7. /\ Get(WriteSpan(span), 6, "LIST") = ListOf(WriteSpanRef, span.references)
      /\ Get(WriteSpan(span), 10, "LIST") = ListOf(WriteTag, span.tags)
      /\ Get(WriteSpan(span), 11, "LIST") = ListOf(WriteLog, span.logs)
  BY <1>2, <1>3, <1>4, <1>5
<1>8. QED BY <1>6, <1>7 DEF ReadSpan

-----------------------------------------------------------------------------
(* What is understood of it is what was recorded. *)

Made(tags) == MakeTags(tags, MaxTagLength, MaxTracebackLength)

\* The fields of a tag that its type calls for.
LEMMA TagMade ==
  ASSUME NEW tag, tag.value.type \in {"bool", "int", "float", "traceback", "other"},
         NEW made, made = MakeTag(tag.key, tag.value, MaxTagLength, MaxTracebackLength)
  PROVE  ContentRead(made) = Content(tag)
<1> USE DEF ContentRead, Content, MakeTag, IsInt, NewTag, TagType, Some, The
<1>1. CASE tag.value.type = "bool" BY <1>1 DEF MakeBoolTag
<1>2. CASE tag.value.type = "int" BY <1>2 DEF MakeLongTag
<1>3. CASE tag.value.type = "float" BY <1>3 DEF MakeDoubleTag
<1>4. CASE tag.value.type = "traceback" BY <1>4 DEF MakeTracebackTag
<1>5. CASE tag.value.type = "other" BY <1>5 DEF MakeStringTag
<1>6. QED BY <1>1, <1>2, <1>3, <1>4, <1>5, Zenon

LEMMA TagsDecoded ==
  ASSUME NEW tags, TagsGiven(tags)
  PROVE  ContentsRead(ListOf(ReadTag, ListOf(WriteTag, Some(Made(tags))))) = Contents(tags)
<1>1. DOMAIN Made(tags) = DOMAIN tags
      /\ \A i \in DOMAIN tags : Made(tags)[i] = MakeTag(tags[i].key, tags[i].value, MaxTagLength, MaxTracebackLength)
  BY DEF Made, MakeTags
<1>2. PICK made : made = Made(tags) OBVIOUS
<1>3. PICK read : read = The(ListOf(ReadTag, ListOf(WriteTag, Some(made)))) OBVIOUS
<1>4. DOMAIN read = DOMAIN made /\ \A i \in DOMAIN made : read[i] = ReadTag(WriteTag(made[i]))
  <2>1. ListOf(WriteTag, Some(made)) = Some([i \in DOMAIN made |-> WriteTag(made[i])]) BY DEF ListOf, Some, The, None
  <2>2. QED BY <1>3, <2>1 DEF ListOf, Some, The, None
<1>5. ASSUME NEW i \in DOMAIN tags PROVE ContentRead(read[i]) = Content(tags[i])
  <2>1. ContentRead(made[i]) = Content(tags[i]) BY <1>1, <1>2, TagMade DEF TagsGiven
  <2>2. /\ read[i].key = made[i].key /\ read[i].vType = made[i].vType /\ read[i].vStr = made[i].vStr
        /\ read[i].vDouble = made[i].vDouble /\ read[i].vBool = made[i].vBool /\ read[i].vLong = made[i].vLong
    BY <1>1, <1>2, <1>4, TagRead
  <2>3. ContentRead(read[i]) = ContentRead(made[i]) BY <2>2 DEF ContentRead
  <2>4. QED BY <2>1, <2>3
<1>6. ContentsRead(ListOf(ReadTag, ListOf(WriteTag, Some(made)))) = [i \in DOMAIN read |-> ContentRead(read[i])]
  BY <1>3 DEF ContentsRead
<1>7. QED BY <1>1, <1>2, <1>4, <1>5, <1>6 DEF Contents

LEMMA LogsDecoded ==
  ASSUME NEW logs, \A i \in DOMAIN logs : TagsGiven(logs[i].fields),
         NEW made, made = [i \in DOMAIN logs |-> MakeLog(logs[i], MaxTagLength, MaxTracebackLength)],
         NEW read, read = The(ListOf(ReadLog, ListOf(WriteLog, Some(made))))
  PROVE  [i \in DOMAIN read |-> ContentsRead(read[i].fields)] = [i \in DOMAIN logs |-> Contents(logs[i].fields)]
<1>1. DOMAIN made = DOMAIN logs /\ \A i \in DOMAIN logs : made[i].fields = Some(Made(logs[i].fields))
  BY DEF MakeLog, Made
<1>2. DOMAIN read = DOMAIN made /\ \A i \in DOMAIN made : read[i] = ReadLog(WriteLog(made[i]))
  <2>1. ListOf(WriteLog, Some(made)) = Some([i \in DOMAIN made |-> WriteLog(made[i])]) BY DEF ListOf, Some, The, None
  <2>2. QED BY <2>1 DEF ListOf, Some, The, None
<1>3. ASSUME NEW i \in DOMAIN logs PROVE ContentsRead(read[i].fields) = Contents(logs[i].fields)
  <2>1. read[i].fields = ListOf(ReadTag, ListOf(WriteTag, made[i].fields)) BY <1>1, <1>2, LogRead
  <2>2. TagsGiven(logs[i].fields) OBVIOUS
  <2>3. ContentsRead(ListOf(ReadTag, ListOf(WriteTag, Some(Made(logs[i].fields))))) = Contents(logs[i].fields)
    BY <2>2, TagsDecoded
  <2>4. QED BY <1>1, <2>1, <2>3
<1>4. QED BY <1>1, <1>2, <1>3

LEMMA ReferenceDecoded ==
  ASSUME NEW ref, ref.traceId \in Trace, ref.spanId \in Id, ref.type \in {"CHILD_OF", "FOLLOWS_FROM"}
  PROVE  ReferenceRead(ReadSpanRef(WriteSpanRef(MakeReference(ref)))) = <<ref.traceId, ref.spanId, ref.type>>
<1>1. PICK read : read = ReadSpanRef(WriteSpanRef(MakeReference(ref))) OBVIOUS
<1>2. /\ read.refType = Some(MakeRefType(ref.type)) /\ read.spanId = Some(IdToInt(ref.spanId))
      /\ read.traceIdLow = Some(IdToInt(IdToLow(ref.traceId))) /\ read.traceIdHigh = Some(IdToInt(IdToHigh(ref.traceId)))
  BY <1>1, SpanRefRead DEF MakeReference
<1>3. TraceId(read) = ref.traceId BY <1>2, TraceSurvives DEF TraceId, Some, The
<1>4. Unsigned(The(read.spanId)) = ref.spanId BY <1>2, IdSurvives DEF Some, The
<1>5. (IF The(read.refType) = SpanRefType.FOLLOWS_FROM THEN "FOLLOWS_FROM" ELSE "CHILD_OF") = ref.type
  BY <1>2 DEF MakeRefType, SpanRefType, Some, The
<1>6. QED BY <1>1, <1>3, <1>4, <1>5 DEF ReferenceRead

LEMMA ReferencesDecoded ==
  ASSUME NEW refs,
         \A i \in DOMAIN refs : refs[i].traceId \in Trace /\ refs[i].spanId \in Id /\ refs[i].type \in {"CHILD_OF", "FOLLOWS_FROM"},
         NEW read, read = ListOf(ReadSpanRef, ListOf(WriteSpanRef, MakeReferences(refs)))
  PROVE  (IF read = None THEN <<>> ELSE [i \in DOMAIN The(read) |-> ReferenceRead(The(read)[i])])
           = [i \in DOMAIN refs |-> <<refs[i].traceId, refs[i].spanId, refs[i].type>>]
<1>1. CASE refs = <<>>
  <2>1. read = None BY <1>1 DEF MakeReferences, ListOf
  <2>2. [i \in DOMAIN refs |-> <<refs[i].traceId, refs[i].spanId, refs[i].type>>] = <<>> BY <1>1
  <2>3. QED BY <2>1, <2>2
<1>2. CASE refs # <<>>
  <2>1. PICK made : made = [i \in DOMAIN refs |-> MakeReference(refs[i])] OBVIOUS
  <2>2. MakeReferences(refs) = Some(made) BY <1>2, <2>1 DEF MakeReferences
  <2>3. ListOf(WriteSpanRef, Some(made)) = Some([i \in DOMAIN made |-> WriteSpanRef(made[i])])
    BY DEF ListOf, Some, The, None
  <2>4. read # None /\ The(read) = [i \in DOMAIN made |-> ReadSpanRef(WriteSpanRef(made[i]))]
    BY <2>2, <2>3 DEF ListOf, Some, The, None
  <2>5. \A i \in DOMAIN refs : ReferenceRead(The(read)[i]) = <<refs[i].traceId, refs[i].spanId, refs[i].type>>
    BY <2>1, <2>4, ReferenceDecoded
  <2>6. QED BY <2>1, <2>4, <2>5
<1>3. QED BY <1>1, <1>2

LEMMA SpanDecoded ==
  ASSUME NEW span, SpanGiven(span), InRange(span)
  PROVE  Understood(ReadSpan(WriteSpan(MakeJaegerSpan(Finished(span))))) = Recorded(span)
<1>1. PICK done : done = Finished(span) OBVIOUS
<1>2. PICK made : made = MakeJaegerSpan(done) OBVIOUS
<1>3. PICK read : read = ReadSpan(WriteSpan(made)) OBVIOUS
<1>4. /\ done.traceId = span.traceId /\ done.spanId = span.spanId /\ done.parentId = span.parentId
      /\ done.operationName = span.operationName /\ done.references = span.references /\ done.flags = span.flags
      /\ done.tags = Made(span.tags)
      /\ done.logs = [i \in DOMAIN span.logs |-> MakeLog(span.logs[i], MaxTagLength, MaxTracebackLength)]
  BY <1>1 DEF Finished, SpanGiven, Made
<1>5. /\ read.traceIdLow = Some(IdToInt(IdToLow(span.traceId))) /\ read.traceIdHigh = Some(IdToInt(IdToHigh(span.traceId)))
      /\ read.spanId = Some(IdToInt(span.spanId)) /\ read.parentSpanId = Some(ParentSpanId(done))
      /\ read.operationName = Some(span.operationName) /\ read.flags = Some(span.flags)
      /\ read.references = ListOf(ReadSpanRef, ListOf(WriteSpanRef, MakeReferences(span.references)))
      /\ read.tags = ListOf(ReadTag, ListOf(WriteTag, Some(Made(span.tags))))
      /\ read.logs = ListOf(ReadLog, ListOf(WriteLog, Some(done.logs)))
  BY <1>2, <1>3, <1>4, SpanRead DEF MakeJaegerSpan
<1>6. TraceId(read) = span.traceId BY <1>5, TraceSurvives DEF TraceId, InRange, Some, The
<1>7. Unsigned(The(read.spanId)) = span.spanId BY <1>5, IdSurvives DEF InRange, Some, The
<1>8. Unsigned(The(read.parentSpanId)) = IF span.parentId = None THEN 0 ELSE The(span.parentId)
  <2>1. CASE span.parentId = None
    <3>1. The(read.parentSpanId) = 0 BY <1>4, <1>5, <2>1 DEF ParentSpanId, Some, The
    <3>2. 0 % MaxUnsignedId = 0 BY Unsigneds, SmallMod
    <3>3. QED BY <2>1, <3>1, <3>2 DEF Unsigned
  <2>2. CASE span.parentId # None
    <3>1. The(read.parentSpanId) = IdToInt(The(span.parentId)) BY <1>4, <1>5, <2>2 DEF ParentSpanId, Some, The
    <3>2. The(span.parentId) \in Id BY <2>2 DEF InRange
    <3>3. QED BY <2>2, <3>1, <3>2, IdSurvives
  <2>3. QED BY <2>1, <2>2
<1>9. (IF read.references = None THEN <<>> ELSE [i \in DOMAIN The(read.references) |-> ReferenceRead(The(read.references)[i])])
        = [i \in DOMAIN span.references |->
             <<span.references[i].traceId, span.references[i].spanId, span.references[i].type>>]
  <2>1. \A i \in DOMAIN span.references :
          /\ span.references[i].traceId \in Trace /\ span.references[i].spanId \in Id
          /\ span.references[i].type \in {"CHILD_OF", "FOLLOWS_FROM"}
    BY DEF InRange, SpanGiven
  <2>2. QED BY <1>5, <2>1, ReferencesDecoded
<1>10. ContentsRead(read.tags) = Contents(span.tags) BY <1>5, TagsDecoded DEF SpanGiven
<1>11. [i \in DOMAIN The(read.logs) |-> ContentsRead(The(read.logs)[i].fields)]
         = [i \in DOMAIN span.logs |-> Contents(span.logs[i].fields)]
  <2>1. \A i \in DOMAIN span.logs : TagsGiven(span.logs[i].fields) BY DEF SpanGiven
  <2>2. The(read.logs) = The(ListOf(ReadLog, ListOf(WriteLog, Some(done.logs)))) BY <1>5
  <2>3. QED BY <1>4, <2>1, <2>2, LogsDecoded
<1>12. <<The(read.operationName), The(read.flags)>> = <<span.operationName, span.flags>> BY <1>5 DEF Some, The
<1>13. Understood(read) = Recorded(span)
  BY <1>6, <1>7, <1>8, <1>9, <1>10, <1>11, <1>12 DEF Understood, Recorded
<1>14. QED BY <1>1, <1>2, <1>3, <1>13

\* The fields of the structures around the spans.
LEMMA BatchWritten ==
  ASSUME NEW batch, NEW made, made = MakeJaegerBatch(Spans(batch), TracerProcess)
  PROVE  /\ Get(Wire(batch), 1, "STRUCT") = Some(WriteBatch(made))
         /\ Get(WriteBatch(made), 1, "STRUCT") = Some(WriteProcess(TracerProcess))
         /\ Get(WriteBatch(made), 2, "LIST") = ListOf(WriteSpan, made.spans)
         /\ Get(WriteProcess(TracerProcess), 2, "LIST") = ListOf(WriteTag, Some(Made(ProcessTags)))
         /\ made.spans = Some([i \in DOMAIN batch |-> MakeJaegerSpan(Finished(batch[i]))])
<1>2. /\ made.process = Some(TracerProcess) /\ TracerProcess.tags = Some(Made(ProcessTags))
      /\ made.spans = Some([i \in DOMAIN batch |-> MakeJaegerSpan(Finished(batch[i]))])
  BY DEF MakeJaegerBatch, TracerProcess, MakeProcess, Made, Spans
<1>3. Get(Wire(batch), 1, "STRUCT") = Some(WriteBatch(made))
  <2> DEFINE fields == <<Field("STRUCT", OneOf(WriteBatch, Some(made)))>>
  <2>1. Wire(batch) = Struct(fields) BY DEF Wire, WriteArgs
  <2>2. 1 \in DOMAIN fields /\ fields[1] = Field("STRUCT", OneOf(WriteBatch, Some(made))) OBVIOUS
  <2> HIDE DEF fields
  <2>3. Get(Wire(batch), 1, "STRUCT") = OneOf(WriteBatch, Some(made)) BY <2>1, <2>2, GetStruct DEF Field
  <2>4. OneOf(WriteBatch, Some(made)) = Some(WriteBatch(made)) BY DEF OneOf, Some, The, None
  <2>5. QED BY <2>3, <2>4
<1>4. /\ Get(WriteBatch(made), 1, "STRUCT") = Some(WriteProcess(TracerProcess))
      /\ Get(WriteBatch(made), 2, "LIST") = ListOf(WriteSpan, made.spans)
  <2> DEFINE fields == <<Field("STRUCT", OneOf(WriteProcess, made.process)), Field("LIST", ListOf(WriteSpan, made.spans))>>
  <2>1. WriteBatch(made) = Struct(fields) BY DEF WriteBatch
  <2>2. /\ {1, 2} \subseteq DOMAIN fields
        /\ fields[1] = Field("STRUCT", OneOf(WriteProcess, made.process))
        /\ fields[2] = Field("LIST", ListOf(WriteSpan, made.spans))
    OBVIOUS
  <2> HIDE DEF fields
  <2>3. /\ Get(WriteBatch(made), 1, "STRUCT") = OneOf(WriteProcess, made.process)
        /\ Get(WriteBatch(made), 2, "LIST") = ListOf(WriteSpan, made.spans)
    BY <2>1, <2>2, GetStruct DEF Field
  <2>4. OneOf(WriteProcess, made.process) = Some(WriteProcess(TracerProcess)) BY <1>2 DEF OneOf, Some, The, None
  <2>5. QED BY <2>3, <2>4
<1>5. Get(WriteProcess(TracerProcess), 2, "LIST") = ListOf(WriteTag, Some(Made(ProcessTags)))
  <2> DEFINE fields == <<Field("STRING", TracerProcess.serviceName), Field("LIST", ListOf(WriteTag, TracerProcess.tags))>>
  <2>1. WriteProcess(TracerProcess) = Struct(fields) BY DEF WriteProcess
  <2>2. 2 \in DOMAIN fields /\ fields[2] = Field("LIST", ListOf(WriteTag, TracerProcess.tags)) OBVIOUS
  <2> HIDE DEF fields
  <2>3. Get(WriteProcess(TracerProcess), 2, "LIST") = ListOf(WriteTag, TracerProcess.tags)
    BY <2>1, <2>2, GetStruct DEF Field
  <2>4. QED BY <1>2, <2>3
<1>6. QED BY <1>2, <1>3, <1>4, <1>5

\* What the agent gets of a batch.
LEMMA BatchRead ==
  ASSUME NEW batch, NEW read, read = ReadArgs(Wire(batch)).batch
  PROVE  /\ The(The(read).process).tags = ListOf(ReadTag, ListOf(WriteTag, Some(Made(ProcessTags))))
         /\ The(The(read).spans) = [i \in DOMAIN batch |-> ReadSpan(WriteSpan(MakeJaegerSpan(Finished(batch[i]))))]
<1>1. PICK made : made = MakeJaegerBatch(Spans(batch), TracerProcess) OBVIOUS
<1>2. /\ Get(Wire(batch), 1, "STRUCT") = Some(WriteBatch(made))
      /\ Get(WriteBatch(made), 1, "STRUCT") = Some(WriteProcess(TracerProcess))
      /\ Get(WriteBatch(made), 2, "LIST") = ListOf(WriteSpan, made.spans)
      /\ Get(WriteProcess(TracerProcess), 2, "LIST") = ListOf(WriteTag, Some(Made(ProcessTags)))
      /\ made.spans = Some([i \in DOMAIN batch |-> MakeJaegerSpan(Finished(batch[i]))])
  BY <1>1, BatchWritten
<1>3. read = Some(ReadBatch(WriteBatch(made))) BY <1>2 DEF ReadArgs, OneOf, Some, The, None
<1>6. The(read).process = Some(ReadProcess(WriteProcess(TracerProcess)))
  BY <1>2, <1>3 DEF ReadBatch, OneOf, Some, The, None
<1>7. The(read).spans = ListOf(ReadSpan, ListOf(WriteSpan, made.spans)) BY <1>2, <1>3 DEF ReadBatch, Some, The
<1>8. The(The(read).process).tags = ListOf(ReadTag, ListOf(WriteTag, Some(Made(ProcessTags))))
  BY <1>2, <1>6 DEF ReadProcess, Some, The
<1>9. PICK wires : wires = [i \in DOMAIN batch |-> WriteSpan(MakeJaegerSpan(Finished(batch[i])))] OBVIOUS
<1>a. ListOf(WriteSpan, made.spans) = Some(wires) BY <1>2, <1>9 DEF ListOf, Some, The, None
<1>b. ListOf(ReadSpan, Some(wires)) = Some([i \in DOMAIN wires |-> ReadSpan(wires[i])]) BY DEF ListOf, Some, The, None
<1>c. The(The(read).spans) = [i \in DOMAIN wires |-> ReadSpan(wires[i])] BY <1>7, <1>a, <1>b DEF Some, The
<1>10. The(The(read).spans) = [i \in DOMAIN batch |-> ReadSpan(WriteSpan(MakeJaegerSpan(Finished(batch[i]))))]
  BY <1>9, <1>c
<1>11. QED BY <1>8, <1>10

\* Whatever batch is read from one message is understood as it was recorded.
THEOREM Decoded == Spec => []DecodedAsRecorded
<1>1. IInv => DecodedAsRecorded
  <2> SUFFICES ASSUME IInv, NEW r \in received, r.readable,
                      NEW spans, spans = submitted[r.number].spans, NEW read, read = The(The(r.batch).spans)
               PROVE  /\ ContentsRead(The(The(r.batch).process).tags) = Contents(ProcessTags)
                      /\ DOMAIN read = DOMAIN spans
                      /\ \A i \in DOMAIN spans : InRange(spans[i]) => Understood(read[i]) = Recorded(spans[i])
    BY DEF DecodedAsRecorded
  <2>1. r.batch = ReadArgs(Wire(spans)).batch BY DEF IInv, ReadAsWritten
  <2>2. spans \in Batch
    <3>1. submitted[r.number] \in SubmissionType BY DEF IInv, TypeOK
    <3>2. QED BY <3>1 DEF SubmissionType
  <2>3. /\ The(The(r.batch).process).tags = ListOf(ReadTag, ListOf(WriteTag, Some(Made(ProcessTags))))
        /\ read = [i \in DOMAIN spans |-> ReadSpan(WriteSpan(MakeJaegerSpan(Finished(spans[i]))))]
    BY <2>1, BatchRead
  <2>4. ContentsRead(The(The(r.batch).process).tags) = Contents(ProcessTags)
    BY <2>3, TagsDecoded, DeliveryAssumption
  <2>5. \A i \in DOMAIN spans : SpanGiven(spans[i]) BY <2>2, DeliveryAssumption
  <2>6. \A i \in DOMAIN spans : InRange(spans[i]) => Understood(read[i]) = Recorded(spans[i])
    BY <2>3, <2>5, SpanDecoded
  <2>7. QED BY <2>3, <2>4, <2>6
<1>2. QED BY <1>1, Invariance, PTL

-----------------------------------------------------------------------------
(* What can be written. *)

\* A field that is set holds an integer of its width.
Fits(field) ==
  /\ field.type = "I64" /\ field.is # None => The(field.is) \in I64
  /\ field.type = "I32" /\ field.is # None => The(field.is) \in -HalfI32 .. HalfI32 - 1

LEMMA StructFits ==
  ASSUME NEW fields, \A i \in DOMAIN fields : Fits(fields[i])
  PROVE  IntegersFit(Struct(fields))
BY DEF Fits, IntegersFit, Struct, I64

LEMMA TagFits ==
  ASSUME NEW tag, tag.value.type \in {"bool", "int", "float", "traceback", "other"},
         tag.value.type = "int" => tag.value.is \in I64
  PROVE  IntegersFit(WriteTag(MakeTag(tag.key, tag.value, MaxTagLength, MaxTracebackLength)))
<1>1. PICK made : made = MakeTag(tag.key, tag.value, MaxTagLength, MaxTracebackLength) OBVIOUS
<1>2. /\ made.vType \in {<<0>>, <<1>>, <<2>>, <<3>>}
      /\ made.vLong = None \/ The(made.vLong) \in I64
  <2> USE DEF MakeTag, IsInt, NewTag, TagType, Some, The, None
  <2>1. CASE tag.value.type = "bool" BY <1>1, <2>1 DEF MakeBoolTag
  <2>2. CASE tag.value.type = "int" BY <1>1, <2>2 DEF MakeLongTag
  <2>3. CASE tag.value.type = "float" BY <1>1, <2>3 DEF MakeDoubleTag
  <2>4. CASE tag.value.type = "traceback" BY <1>1, <2>4 DEF MakeTracebackTag
  <2>5. CASE tag.value.type = "other" BY <1>1, <2>5 DEF MakeStringTag
  <2>6. QED BY <2>1, <2>2, <2>3, <2>4, <2>5
<1> DEFINE fields ==
  <<Field("STRING", made.key), Field("I32", made.vType), Field("STRING", made.vStr), Field("DOUBLE", made.vDouble),
    Field("BOOL", made.vBool), Field("I64", made.vLong), Field("STRING", made.vBinary)>>
<1>3. WriteTag(made) = Struct(fields) BY DEF WriteTag
<1>4. The(made.vType) \in -HalfI32 .. HalfI32 - 1 BY <1>2, ThriftAssumption DEF The
<1>5. ASSUME NEW i \in DOMAIN fields PROVE Fits(fields[i])
  <2>1. i \in 1 .. 7 OBVIOUS
  <2>2. fields[2] = Field("I32", made.vType) /\ fields[6] = Field("I64", made.vLong)
        /\ (i \notin {2, 6} => fields[i].type \notin {"I32", "I64"})
    BY <2>1 DEF Field
  <2> HIDE DEF fields
  <2>3. QED BY <1>2, <1>4, <2>1, <2>2 DEF Fits, Field
<1> HIDE DEF fields
<1>6. QED BY <1>1, <1>3, <1>5, StructFits

LEMMA TagListFits ==
  ASSUME NEW tags, TagsGiven(tags), TagsFit(tags)
  PROVE  ListFits(IntegersFit, ListOf(WriteTag, Some(Made(tags))))
<1>1. PICK made : made = Made(tags) OBVIOUS
<1>2. DOMAIN made = DOMAIN tags
      /\ \A i \in DOMAIN tags : made[i] = MakeTag(tags[i].key, tags[i].value, MaxTagLength, MaxTracebackLength)
  BY <1>1 DEF Made, MakeTags
<1>3. \A i \in DOMAIN made : IntegersFit(WriteTag(made[i])) BY <1>2, TagFits DEF TagsGiven, TagsFit
<1>4. PICK wires : wires = [i \in DOMAIN made |-> WriteTag(made[i])] OBVIOUS
<1>5. ListOf(WriteTag, Some(Made(tags))) = Some(wires) BY <1>1, <1>4 DEF ListOf, Some, The, None
<1>6. \A i \in DOMAIN wires : IntegersFit(wires[i]) BY <1>3, <1>4
<1>7. QED BY <1>5, <1>6 DEF ListFits, Some, The, None

LEMMA LogListFits ==
  ASSUME NEW logs,
         \A i \in DOMAIN logs :
           TagsGiven(logs[i].fields) /\ TagsFit(logs[i].fields) /\ TimestampMicros(logs[i].time) \in I64,
         NEW made, made = [i \in DOMAIN logs |-> MakeLog(logs[i], MaxTagLength, MaxTracebackLength)]
  PROVE  ListFits(LogFits, ListOf(WriteLog, Some(made)))
<1>1. ASSUME NEW i \in DOMAIN logs PROVE LogFits(WriteLog(made[i]))
  <2>1. made[i].timestamp = Some(TimestampMicros(logs[i].time)) /\ made[i].fields = Some(Made(logs[i].fields))
    BY DEF MakeLog, Made
  <2> DEFINE fields == <<Field("I64", made[i].timestamp), Field("LIST", ListOf(WriteTag, made[i].fields))>>
  <2>2. WriteLog(made[i]) = Struct(fields) BY DEF WriteLog
  <2>3. /\ DOMAIN fields = {1, 2}
        /\ fields[1].type = "I64" /\ fields[1].is = made[i].timestamp
        /\ fields[2].type = "LIST" /\ fields[2].is = ListOf(WriteTag, made[i].fields)
    BY DEF Field
  <2> HIDE DEF fields
  <2>4. TimestampMicros(logs[i].time) \in I64 OBVIOUS
  <2>5. \A j \in DOMAIN fields : Fits(fields[j]) BY <2>1, <2>3, <2>4 DEF Fits, Some, The
  <2>6. IntegersFit(WriteLog(made[i])) BY <2>2, <2>5, StructFits
  <2>7. Get(WriteLog(made[i]), 2, "LIST") = ListOf(WriteTag, Some(Made(logs[i].fields))) BY <2>1, <2>2, <2>3, GetStruct
  <2>8. TagsGiven(logs[i].fields) /\ TagsFit(logs[i].fields) OBVIOUS
  <2>9. ListFits(IntegersFit, ListOf(WriteTag, Some(Made(logs[i].fields)))) BY <2>8, TagListFits
  <2>10. QED BY <2>6, <2>7, <2>9 DEF LogFits
<1>2. PICK wires : wires = [i \in DOMAIN made |-> WriteLog(made[i])] OBVIOUS
<1>3. ListOf(WriteLog, Some(made)) = Some(wires) BY <1>2 DEF ListOf, Some, The, None
<1>4. \A i \in DOMAIN wires : LogFits(wires[i]) BY <1>1, <1>2
<1>5. QED BY <1>3, <1>4 DEF ListFits, Some, The, None

LEMMA ReferenceListFits ==
  ASSUME NEW refs, \A i \in DOMAIN refs : refs[i].traceId \in Trace /\ refs[i].spanId \in Id
  PROVE  ListFits(IntegersFit, ListOf(WriteSpanRef, MakeReferences(refs)))
<1>1. ASSUME NEW i \in DOMAIN refs, NEW ref, ref = MakeReference(refs[i]) PROVE IntegersFit(WriteSpanRef(ref))
  <2> DEFINE fields ==
    <<Field("I32", ref.refType), Field("I64", ref.traceIdLow), Field("I64", ref.traceIdHigh), Field("I64", ref.spanId)>>
  <2>1. WriteSpanRef(ref) = Struct(fields) BY DEF WriteSpanRef
  <2>2. refs[i].traceId \in Trace /\ refs[i].spanId \in Id OBVIOUS
  <2>3. /\ The(ref.traceIdLow) \in I64 /\ The(ref.traceIdHigh) \in I64 /\ The(ref.spanId) \in I64
    BY <1>1, <2>2, IdSurvives, TraceSurvives DEF MakeReference, Some, The
  <2>4. The(ref.refType) \in {0, 1} BY <1>1 DEF MakeReference, MakeRefType, SpanRefType, Some, The
  <2>5. The(ref.refType) \in -HalfI32 .. HalfI32 - 1 BY <2>4, ThriftAssumption
  <2>6. /\ DOMAIN fields = {1, 2, 3, 4}
        /\ fields[1] = Field("I32", ref.refType) /\ fields[2] = Field("I64", ref.traceIdLow)
        /\ fields[3] = Field("I64", ref.traceIdHigh) /\ fields[4] = Field("I64", ref.spanId)
    OBVIOUS
  <2> HIDE DEF fields
  <2>7. \A j \in DOMAIN fields : Fits(fields[j]) BY <2>3, <2>5, <2>6 DEF Fits, Field
  <2>8. QED BY <2>1, <2>7, StructFits
<1>2. CASE refs = <<>> BY <1>2 DEF MakeReferences, ListOf, ListFits
<1>3. CASE refs # <<>>
  <2>1. PICK made : made = [i \in DOMAIN refs |-> MakeReference(refs[i])] OBVIOUS
  <2>2. MakeReferences(refs) = Some(made) BY <1>3, <2>1 DEF MakeReferences
  <2>3. PICK wires : wires = [i \in DOMAIN made |-> WriteSpanRef(made[i])] OBVIOUS
  <2>4. ListOf(WriteSpanRef, MakeReferences(refs)) = Some(wires) BY <2>2, <2>3 DEF ListOf, Some, The, None
  <2>5. \A i \in DOMAIN wires : IntegersFit(wires[i]) BY <1>1, <2>1, <2>3
  <2>6. QED BY <2>4, <2>5 DEF ListFits, Some, The, None
<1>4. QED BY <1>2, <1>3

\* What a span must be to be written.
CanWrite(span) ==
  /\ InRange(span) /\ TagsFit(span.tags) /\ TimesFit(span) /\ span.flags \in 0 .. HalfI32 - 1
  /\ \A j \in DOMAIN span.logs : TagsFit(span.logs[j].fields) /\ TimestampMicros(span.logs[j].time) \in I64

LEMMA SpanIsWritable ==
  ASSUME NEW span, SpanGiven(span), CanWrite(span)
  PROVE  SpanFits(WriteSpan(MakeJaegerSpan(Finished(span))))
<1>1. PICK done : done = Finished(span) OBVIOUS
<1>2. PICK made : made = MakeJaegerSpan(done) OBVIOUS
<1>3. /\ done.traceId = span.traceId /\ done.spanId = span.spanId /\ done.parentId = span.parentId
      /\ done.references = span.references /\ done.flags = span.flags
      /\ done.startTime = span.startTime /\ done.endTime = span.endTime
      /\ done.tags = Made(span.tags)
      /\ done.logs = [i \in DOMAIN span.logs |-> MakeLog(span.logs[i], MaxTagLength, MaxTracebackLength)]
  BY <1>1 DEF Finished, SpanGiven, Made
<1>4. /\ made.traceIdLow = Some(IdToInt(IdToLow(span.traceId))) /\ made.traceIdHigh = Some(IdToInt(IdToHigh(span.traceId)))
      /\ made.spanId = Some(IdToInt(span.spanId)) /\ made.parentSpanId = Some(ParentSpanId(done))
      /\ made.flags = Some(span.flags) /\ made.startTime = Some(TimestampMicros(span.startTime))
      /\ made.duration = Some(TimestampMicros(span.endTime - span.startTime))
      /\ made.references = MakeReferences(span.references)
      /\ made.tags = Some(Made(span.tags)) /\ made.logs = Some(done.logs)
  BY <1>2, <1>3 DEF MakeJaegerSpan
<1>5. /\ The(made.traceIdLow) \in I64 /\ The(made.traceIdHigh) \in I64 /\ The(made.spanId) \in I64
  BY <1>4, IdSurvives, TraceSurvives DEF CanWrite, InRange, Some, The
<1>6. The(made.parentSpanId) \in I64
  <2>1. CASE span.parentId = None BY <1>3, <1>4, <2>1, ThriftAssumption DEF ParentSpanId, Some, The, I64
  <2>2. CASE span.parentId # None BY <1>3, <1>4, <2>2, IdSurvives DEF ParentSpanId, CanWrite, InRange, Some, The
  <2>3. QED BY <2>1, <2>2
<1>7. The(made.startTime) \in I64 /\ The(made.duration) \in I64 BY <1>4 DEF CanWrite, TimesFit, Some, The
<1>8. The(made.flags) \in -HalfI32 .. HalfI32 - 1
  <2>1. span.flags \in 0 .. HalfI32 - 1 BY DEF CanWrite
  <2>2. QED BY <1>4, <2>1, ThriftAssumption DEF Some, The
<1> DEFINE fields ==
  <<Field("I64", made.traceIdLow), Field("I64", made.traceIdHigh), Field("I64", made.spanId),
    Field("I64", made.parentSpanId), Field("STRING", made.operationName),
    Field("LIST", ListOf(WriteSpanRef, made.references)), Field("I32", made.flags), Field("I64", made.startTime),
    Field("I64", made.duration), Field("LIST", ListOf(WriteTag, made.tags)), Field("LIST", ListOf(WriteLog, made.logs))>>
<1>9. WriteSpan(made) = Struct(fields) BY DEF WriteSpan
<1>10. /\ DOMAIN fields = 1 .. 11
       /\ fields[1] = Field("I64", made.traceIdLow) /\ fields[2] = Field("I64", made.traceIdHigh)
       /\ fields[3] = Field("I64", made.spanId) /\ fields[4] = Field("I64", made.parentSpanId)
       /\ fields[5] = Field("STRING", made.operationName) /\ fields[7] = Field("I32", made.flags)
       /\ fields[6] = Field("LIST", ListOf(WriteSpanRef, made.references))
       /\ fields[8] = Field("I64", made.startTime) /\ fields[9] = Field("I64", made.duration)
       /\ fields[10] = Field("LIST", ListOf(WriteTag, made.tags)) /\ fields[11] = Field("LIST", ListOf(WriteLog, made.logs))
  OBVIOUS
<1> HIDE DEF fields
<1>11. \A type, value : Field(type, value).type = type /\ Field(type, value).is = value BY DEF Field
<1>12. ASSUME NEW i \in DOMAIN fields PROVE Fits(fields[i])
  <2>1. i \in {1, 2, 3, 4, 5, 6, 7, 8, 9, 10, 11} BY <1>10
  <2>2. CASE i \in {1, 2, 3, 4} BY <1>5, <1>6, <1>10, <1>11, <2>2 DEF Fits
  <2>3. CASE i \in {5, 6, 10, 11} BY <1>10, <1>11, <2>3 DEF Fits
  <2>4. CASE i = 7 BY <1>8, <1>10, <1>11, <2>4 DEF Fits
  <2>5. CASE i \in {8, 9} BY <1>7, <1>10, <1>11, <2>5 DEF Fits
  <2>6. QED BY <2>1, <2>2, <2>3, <2>4, <2>5
<1>13. IntegersFit(WriteSpan(made)) BY <1>9, <1>12, StructFits
<1>14. \A i \in DOMAIN fields : Get(WriteSpan(made), i, fields[i].type) = fields[i].is BY <1>9, GetStruct
<1>15. /\ Get(WriteSpan(made), 6, "LIST") = ListOf(WriteSpanRef, made.references)
       /\ Get(WriteSpan(made), 10, "LIST") = ListOf(WriteTag, made.tags)
       /\ Get(WriteSpan(made), 11, "LIST") = ListOf(WriteLog, made.logs)
  BY <1>10, <1>11, <1>14
<1>16. ListFits(IntegersFit, Get(WriteSpan(made), 6, "LIST"))
  <2>1. \A i \in DOMAIN span.references : span.references[i].traceId \in Trace /\ span.references[i].spanId \in Id
    BY DEF CanWrite, InRange
  <2>2. QED BY <1>4, <1>15, <2>1, ReferenceListFits
<1>17. ListFits(IntegersFit, Get(WriteSpan(made), 10, "LIST")) BY <1>4, <1>15, TagListFits DEF CanWrite, SpanGiven
<1>18. ListFits(LogFits, Get(WriteSpan(made), 11, "LIST"))
  <2>1. \A i \in DOMAIN span.logs :
          /\ TagsGiven(span.logs[i].fields) /\ TagsFit(span.logs[i].fields)
          /\ TimestampMicros(span.logs[i].time) \in I64
    BY DEF CanWrite, SpanGiven
  <2>2. QED BY <1>3, <1>4, <1>15, <2>1, LogListFits
<1>19. QED BY <1>1, <1>2, <1>13, <1>16, <1>17, <1>18 DEF SpanFits

LEMMA BatchIsWritable ==
  ASSUME NEW batch \in Batch, TagsFit(ProcessTags), \A i \in DOMAIN batch : CanWrite(batch[i])
  PROVE  Writable(Wire(batch))
<1>1. PICK made : made = MakeJaegerBatch(Spans(batch), TracerProcess) OBVIOUS
<1>2. /\ Get(Wire(batch), 1, "STRUCT") = Some(WriteBatch(made))
      /\ Get(WriteBatch(made), 1, "STRUCT") = Some(WriteProcess(TracerProcess))
      /\ Get(WriteBatch(made), 2, "LIST") = ListOf(WriteSpan, made.spans)
      /\ Get(WriteProcess(TracerProcess), 2, "LIST") = ListOf(WriteTag, Some(Made(ProcessTags)))
      /\ made.spans = Some([i \in DOMAIN batch |-> MakeJaegerSpan(Finished(batch[i]))])
  BY <1>1, BatchWritten
<1>3. PICK wires : wires = [i \in DOMAIN batch |-> WriteSpan(MakeJaegerSpan(Finished(batch[i])))] OBVIOUS
<1>4. ListOf(WriteSpan, made.spans) = Some(wires) BY <1>2, <1>3 DEF ListOf, Some, The, None
<1>5. \A i \in DOMAIN wires : SpanFits(wires[i]) BY <1>3, SpanIsWritable, DeliveryAssumption
<1>6. ListFits(SpanFits, Get(WriteBatch(made), 2, "LIST")) BY <1>2, <1>4, <1>5 DEF ListFits, Some, The, None
<1>7. ListFits(IntegersFit, Get(The(Get(WriteBatch(made), 1, "STRUCT")), 2, "LIST"))
  <2>1. ListFits(IntegersFit, ListOf(WriteTag, Some(Made(ProcessTags)))) BY TagListFits, DeliveryAssumption
  <2>2. Get(The(Get(WriteBatch(made), 1, "STRUCT")), 2, "LIST") = ListOf(WriteTag, Some(Made(ProcessTags)))
    BY <1>2 DEF Some, The
  <2>3. QED BY <2>1, <2>2
<1>8. BatchFits(WriteBatch(made)) BY <1>6, <1>7 DEF BatchFits
<1>9. QED BY <1>2, <1>8 DEF Writable, Some, The

\* Only what is out of the range of its field keeps a batch from being written.
THEOREM CutRange == Spec => []CutOnlyOutOfRange
<1>1. IInv => CutOnlyOutOfRange
  <2> SUFFICES ASSUME IInv, NEW n \in DOMAIN submitted, submitted[n].result = "cut", TagsFit(ProcessTags),
                      NEW spans, spans = submitted[n].spans
               PROVE  \E i \in DOMAIN spans :
                        \/ ~InRange(spans[i]) \/ ~TagsFit(spans[i].tags) \/ ~TimesFit(spans[i])
                        \/ spans[i].flags \notin 0 .. HalfI32 - 1
                        \/ \E j \in DOMAIN spans[i].logs :
                             ~TagsFit(spans[i].logs[j].fields) \/ TimestampMicros(spans[i].logs[j].time) \notin I64
    BY DEF CutOnlyOutOfRange
  <2>1. ~Writable(Wire(spans)) BY DEF IInv, CutsUnwritable
  <2>2. spans \in Batch
    <3>1. submitted[n] \in SubmissionType BY DEF IInv, TypeOK
    <3>2. QED BY <3>1 DEF SubmissionType
  <2>3. \E i \in DOMAIN spans : ~CanWrite(spans[i]) BY <2>1, <2>2, BatchIsWritable
  <2>4. QED BY <2>3 DEF CanWrite
<1>2. QED BY <1>1, Invariance, PTL
=============================================================================
