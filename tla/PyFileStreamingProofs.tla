-------------------------- MODULE PyFileStreamingProofs --------------------------
(***************************************************************************)
(* Proofs about the Python client streaming a file (PyFileStreaming), for  *)
(* every length of the file, every size of a frame and wherever close()    *)
(* falls.                                                                  *)
(*                                                                         *)
(* The invariant says, for each position of the generator, how its locals  *)
(* and data_index relate to the bytes on the wire.  data_index is to be    *)
(* relied on while it is Genuine: once close() has been called, a value    *)
(* below the end can only be one that the generator stored over the mark.  *)
(***************************************************************************)
EXTENDS PyFileStreaming, PyRecognizerProofs

Genuine == ~closeCalled \/ dataIndex < AudioLen

\* A request that next() is to return, or returned, and that is not on the wire.
Pending == consumerPc = "send" \/ queued # <<>>

\* The generator is between two chunks.
Between == consumerPc \in {"next", "end"} \/ (consumerPc = "sending" /\ queued = <<>>)

\* The bytes on the wire lie below p; all the bytes below p are on the wire.
Below(p)   == \A k \in 1 .. Len(sent) : \A s \in Bytes(sent[k]) : s < p
Covered(p) == \A s \in 0 .. p - 1 : \E k \in 1 .. Len(sent) : s \in Bytes(sent[k])

\* Where m chunks end.
Pos(m) == IF m * FrameSize >= AudioLen THEN AudioLen ELSE m * FrameSize

\* The generator's locals.
LocalInv ==
    /\ consumerPc = "store" => data # Config /\ data[2] = genEnd
    /\ consumerPc = "end" => dataIndex # AudioLen
    /\ ~closeCalled => dataIndex <= AudioLen
    /\ consumerPc = "config" /\ Genuine => dataIndex = 0

\* What is on the wire lies before what is to come.
OrderInv ==
    /\ AudioInOrder
    /\ Below(AudioLen) /\ Below(dataIndex)
    /\ consumerPc \in {"slice", "store"} => Below(genEnd)
    /\ consumerPc = "store" \/ (Pending /\ data # Config) => Below(data[1])
    /\ Pending => \A s \in Bytes(data) : s < dataIndex

\* What is on the wire reaches up to what is to come, unless a close() before
\* the slice made the generator skip a chunk.
GapInv ==
    "slice" \notin closedAt =>
        /\ NoGap
        /\ Between /\ Genuine => Covered(dataIndex)
        /\ consumerPc = "slice" =>
             /\ ~closeCalled \/ genEnd < AudioLen => dataIndex <= genEnd
             /\ dataIndex <= genEnd => Covered(dataIndex)
        /\ consumerPc = "store" =>
             /\ ~closeCalled \/ genEnd < AudioLen => data[1] <= genEnd
             /\ data[1] <= genEnd => Covered(data[1])
        /\ Pending /\ data # Config =>
             /\ Genuine => dataIndex = data[2] /\ data[1] <= data[2]
             /\ data[1] <= data[2] => Covered(data[1])
        /\ Pending /\ data = Config /\ Genuine => dataIndex = 0
        /\ (consumerPc = "eos" \/ half # "open") /\ ~closeCalled => Covered(AudioLen)

\* How many chunks are out, by data_index.  The configuration is one request
\* more.
CountInv ==
    /\ Between /\ Genuine => dataIndex = Pos(Len(sent) - 1)
    /\ consumerPc \in {"end", "slice", "store"} \/ (Pending /\ data # Config) =>
         Pos(Len(sent) - 1) < AudioLen
    /\ consumerPc \in {"slice", "store"} /\ (~closeCalled \/ genEnd < AudioLen) =>
         genEnd = Pos(Len(sent))
    /\ Pending /\ Genuine => dataIndex = Pos(Len(sent))
    /\ (consumerPc = "eos" \/ half # "open") /\ ~closeCalled =>
         Len(sent) > 0 /\ Pos(Len(sent) - 1) = AudioLen
    /\ Len(sent) > 0 => Len(sent) = 1 \/ Pos(Len(sent) - 2) < AudioLen

\* A close() that does not fall between two assignments of the generator.
LateInv ==
    /\ ~closeCalled => late = 0 /\ closedAt = {}
    /\ closeCalled /\ closedAt \cap {"slice", "store"} = {} =>
         /\ dataIndex >= AudioLen
         /\ consumerPc \in {"slice", "store"} => genEnd = AudioLen
         /\ late <= 1
         /\ late = 1 => consumerPc \in {"sending", "next", "eos", "done"}

IInv ==
    /\ TypeOK /\ FlightInv /\ AnswerInv
    /\ LocalInv /\ OrderInv /\ GapInv /\ CountInv /\ LateInv

-----------------------------------------------------------------------------
\* A step is close(), one of the generator's, or leaves the source alone.
LEMMA StepKinds ==
    ASSUME [Next]_vars, LocalInv
    PROVE  /\ Closes \/ Generator \/ (PlainStep /\ UNCHANGED sourceVars)
           /\ Closes => RecognizerStep
           /\ Generator => GeneratorStep
<1>1. Closes => RecognizerStep
    BY DEF Closes, RecognizerStep
<1>2. Generator => GeneratorStep
    BY DEF Generator, GeneratorStep, GeneratorTests, GeneratorEnds, GeneratorSlices,
        GeneratorStores, consumer, Config, LocalInv
<1>3. Closes \/ Generator \/ (PlainStep /\ UNCHANGED sourceVars)
    BY DEF Next, MainThread, ConsumerThread, Around, PlainStep, Outside, vars
<1>4. QED
    BY <1>1, <1>2, <1>3

\* The type invariant: the generator slices within the file.
LEMMA TypeStep ==
    ASSUME IInv, [Next]_vars
    PROVE  TypeOK'
<1> USE PyFileStreamingAssumption DEF IInv
<1>1. /\ RecognizerTypeOK(Request, GeneratorPc)
      /\ Config \in Request
      /\ dataIndex \in 0 .. AudioLen + 1 /\ genEnd \in 0 .. AudioLen
      /\ closedAt \subseteq RecognizerPc \cup GeneratorPc
      /\ consumerPc \in RecognizerPc \cup GeneratorPc
    BY DEF TypeOK, Request, RecognizerTypeOK
<1>2. CASE Closes
    <2>1. RecognizerTypeOK(Request, GeneratorPc)'
        BY <1>1, <1>2, StepKinds, RecognizerTypes
    <2>2. QED
        BY <1>1, <1>2, <2>1 DEF Closes, TypeOK
<1>3. CASE Generator
    <2>1. /\ consumerPc' \in RecognizerPc \cup GeneratorPc
          /\ data' \in Request
          /\ dataIndex' \in 0 .. AudioLen + 1 /\ genEnd' \in 0 .. AudioLen
          /\ closedAt' = closedAt
        <3>1. data \in Request
            BY <1>1 DEF RecognizerTypeOK
        <3>2. CASE GeneratorTests
            BY <1>1, <1>3, <3>1, <3>2 DEF Generator, GeneratorTests, RecognizerPc, GeneratorPc
        <3>3. CASE GeneratorEnds
            BY <1>1, <1>3, <3>1, <3>3 DEF Generator, GeneratorEnds, GeneratorPc, consumer
        <3>4. CASE GeneratorSlices
            BY <1>1, <1>3, <3>4 DEF Generator, GeneratorSlices, GeneratorPc, consumer, Request
        <3>5. CASE GeneratorStores
            BY <1>1, <1>3, <3>1, <3>5 DEF Generator, GeneratorStores, RecognizerPc, consumer
        <3>6. QED
            BY <1>3, <3>2, <3>3, <3>4, <3>5 DEF Generator
    <2>2. RecognizerTypeOK(Request, GeneratorPc)'
        BY <1>1, <1>3, <2>1, StepKinds, RecognizerTypes
    <2>3. QED
        BY <1>1, <2>1, <2>2 DEF TypeOK
<1>4. CASE PlainStep /\ UNCHANGED sourceVars
    <2>1. RecognizerTypeOK(Request, GeneratorPc)'
        BY <1>1, <1>4, RecognizerTypes DEF RecognizerStep
    <2>2. QED
        BY <1>1, <1>4, <2>1 DEF TypeOK, sourceVars
<1>5. QED
    BY <1>2, <1>3, <1>4, StepKinds

\* The facts about types that the lemmas below need.
LEMMA Types ==
    ASSUME TypeOK
    PROVE  /\ CallTypeOK(Request)
           /\ Len(sent) \in Nat
           /\ \A k \in 1 .. Len(sent) : sent[k] \in Request
           /\ data \in Request
           /\ data # Config => data[1] \in 0 .. AudioLen + 1 /\ data[2] \in 0 .. AudioLen
           /\ dataIndex \in 0 .. AudioLen + 1 /\ genEnd \in 0 .. AudioLen
           /\ late \in Nat
<1>1. CallTypeOK(Request) /\ data \in Request /\ late \in Nat
    BY DEF TypeOK, RecognizerTypeOK
<1>2. Len(sent) \in Nat /\ \A k \in 1 .. Len(sent) : sent[k] \in Request
    BY <1>1, LenProperties, ElementOfSeq DEF CallTypeOK
<1>3. data # Config => data[1] \in 0 .. AudioLen + 1 /\ data[2] \in 0 .. AudioLen
    BY <1>1 DEF Request
<1>4. QED
    BY <1>1, <1>2, <1>3 DEF TypeOK

\* The generator's locals.
LEMMA LocalStep ==
    ASSUME IInv, [Next]_vars
    PROVE  LocalInv'
<1> USE PyFileStreamingAssumption DEF IInv
<1>1. dataIndex \in 0 .. AudioLen + 1 /\ genEnd \in 0 .. AudioLen /\ CallTypeOK(Request)
    BY Types
<1>2. CASE Closes
    BY <1>1, <1>2 DEF Closes, CallsClose, LocalInv, Genuine
<1>3. CASE Generator
    BY <1>1, <1>3 DEF Generator, GeneratorTests, GeneratorEnds, GeneratorSlices,
        GeneratorStores, consumer, LocalInv, Genuine, Config
<1>4. CASE PlainStep /\ UNCHANGED sourceVars
    <2>1. Flushes \/ Starts \/ Sends \/ IsSent \/ GivesUp \/ EndsAudio \/ Quiet
        BY <1>1, <1>4, RequestSteps
    <2>2. QED
        BY <1>1, <1>4, <2>1 DEF Flushes, Starts, Sends, IsSent, GivesUp, EndsAudio, Quiet,
            consumer, LocalInv, Genuine, sourceVars
<1>5. QED
    BY <1>2, <1>3, <1>4, StepKinds

\* A close() between two assignments of the generator lets one chunk through.
LEMMA LateStep ==
    ASSUME IInv, [Next]_vars
    PROVE  LateInv'
<1> USE PyFileStreamingAssumption DEF IInv
<1>1. /\ dataIndex \in 0 .. AudioLen + 1 /\ genEnd \in 0 .. AudioLen /\ late \in Nat
      /\ CallTypeOK(Request)
    BY Types
<1>2. CASE Closes
    <2>1. /\ dataIndex' = AudioLen + 1 /\ genEnd' = genEnd /\ late' = late /\ closeCalled'
          /\ closedAt' = closedAt \cup {consumerPc} /\ consumerPc' = consumerPc
        BY <1>2 DEF Closes, CallsClose
    <2>2. QED
        BY <1>1, <2>1 DEF LateInv
<1>3. CASE Generator
    <2>1. UNCHANGED <<closeCalled, closedAt, late>>
        BY <1>3 DEF Generator
    <2>2. QED
        BY <1>1, <1>3, <2>1 DEF Generator, GeneratorTests, GeneratorEnds, GeneratorSlices,
            GeneratorStores, consumer, LateInv
<1>4. CASE PlainStep /\ UNCHANGED sourceVars
    <2>1. Flushes \/ Starts \/ Sends \/ IsSent \/ GivesUp \/ EndsAudio \/ Quiet
        BY <1>1, <1>4, RequestSteps
    <2>2. QED
        BY <1>1, <1>4, <2>1 DEF Flushes, Starts, Sends, IsSent, GivesUp, EndsAudio, Quiet,
            consumer, LateInv, sourceVars
<1>5. QED
    BY <1>2, <1>3, <1>4, StepKinds

\* What lies below a byte lies below those after it.
LEMMA BelowMore ==
    ASSUME TypeOK, NEW p \in Int, NEW q \in Int, p <= q, Below(p)
    PROVE  Below(q)
<1>1. ASSUME NEW k \in 1 .. Len(sent), NEW s \in Bytes(sent[k])
      PROVE  s < q
    <2>1. s \in Int
        BY <1>1, Types DEF Bytes, Request
    <2>2. s < p
        BY <1>1 DEF Below
    <2>3. QED
        BY <2>1, <2>2
<1>2. QED
    BY <1>1 DEF Below

\* A chunk goes onto the wire behind the others.
LEMMA FlushOrder ==
    ASSUME IInv, Flushes, UNCHANGED sourceVars
    PROVE  OrderInv'
<1> USE PyFileStreamingAssumption DEF IInv
<1>1. /\ Len(sent) \in Nat /\ Len(sent') = Len(sent) + 1
      /\ \A k \in 1 .. Len(sent) : sent'[k] = sent[k]
      /\ sent'[Len(sent) + 1] = data
      /\ UNCHANGED <<data, dataIndex, consumerPc>> /\ Pending /\ queued' = <<>>
      /\ consumerPc = "sending"
    BY Types DEF Flushes, Pending, sourceVars
<1>2. /\ dataIndex \in 0 .. AudioLen + 1
      /\ data # Config => data[1] \in 0 .. AudioLen + 1 /\ data[2] \in 0 .. AudioLen
    BY Types
<1>3. \A s \in Bytes(data) : s < AudioLen /\ s < dataIndex /\ data # Config /\ s >= data[1]
    BY <1>1, <1>2 DEF OrderInv, Bytes
<1>4. Below(AudioLen)' /\ Below(dataIndex)'
    <2>1. ASSUME NEW k \in 1 .. Len(sent'), NEW s \in Bytes(sent'[k])
          PROVE  s < AudioLen /\ s < dataIndex
        <3>1. CASE k = Len(sent) + 1
            BY <1>1, <1>3, <2>1, <3>1
        <3>2. CASE k \in 1 .. Len(sent)
            BY <1>1, <2>1, <3>2 DEF OrderInv, Below
        <3>3. QED
            BY <1>1, <3>1, <3>2
    <2>2. QED
        BY <1>1, <2>1 DEF Below
<1>5. AudioInOrder'
    <2>1. ASSUME NEW j \in 1 .. Len(sent'), NEW k \in 1 .. Len(sent'), j < k,
                 NEW s \in Bytes(sent'[j]), NEW t \in Bytes(sent'[k])
          PROVE  s < t
        <3>1. j \in 1 .. Len(sent) /\ sent'[j] = sent[j]
            BY <1>1, <2>1
        <3>2. CASE k = Len(sent) + 1
            <4>1. t \in Bytes(data)
                BY <1>1, <2>1, <3>2
            <4>2. data # Config /\ t >= data[1] /\ t \in Int /\ data[1] \in Int
                BY <1>2, <1>3, <4>1 DEF Bytes
            <4>3. s < data[1]
                BY <1>1, <2>1, <3>1, <4>2 DEF OrderInv, Below
            <4>4. s \in Int
                BY <1>1, <2>1, <3>1, Types DEF Bytes, Request
            <4>5. QED
                BY <4>2, <4>3, <4>4
        <3>3. CASE k \in 1 .. Len(sent)
            BY <1>1, <2>1, <3>1, <3>3 DEF OrderInv, AudioInOrder
        <3>4. QED
            BY <1>1, <3>2, <3>3
    <2>2. QED
        BY <2>1 DEF AudioInOrder
<1>6. QED
    BY <1>1, <1>4, <1>5 DEF OrderInv, Pending

\* Every step keeps what is on the wire before what is to come.
LEMMA OrderStep ==
    ASSUME IInv, [Next]_vars
    PROVE  OrderInv'
<1> USE PyFileStreamingAssumption DEF IInv
<1>1. /\ dataIndex \in 0 .. AudioLen + 1 /\ genEnd \in 0 .. AudioLen
      /\ data # Config => data[1] \in 0 .. AudioLen + 1 /\ data[2] \in 0 .. AudioLen
      /\ CallTypeOK(Request)
      /\ \A k \in 1 .. Len(sent) : \A s \in Bytes(sent[k]) : s \in Int
      /\ \A s \in Bytes(data) : s \in Int /\ s < data[2]
    BY Types DEF Bytes, Request
<1>2. CASE Closes
    <2>1. /\ dataIndex' = AudioLen + 1 /\ UNCHANGED <<sent, queued, data, genEnd, consumerPc>>
        BY <1>2 DEF Closes, CallsClose, callVars
    <2>2. Below(AudioLen + 1)
        BY BelowMore DEF OrderInv
    <2>3. Pending => \A s \in Bytes(data) : s < AudioLen + 1
        BY <1>1 DEF OrderInv, Bytes
    <2>4. QED
        BY <2>1, <2>2, <2>3 DEF OrderInv, Below, Pending, AudioInOrder
<1>3. CASE Generator
    <2>1. UNCHANGED <<sent, queued>> /\ queued = <<>>
        BY <1>3, StepKinds DEF Generator, callVars, FlightInv, GeneratorStep
    <2>2. AudioInOrder' /\ Below(AudioLen)'
        BY <2>1 DEF OrderInv, AudioInOrder, Below
    <2>3. CASE GeneratorTests
        BY <2>1, <2>2, <2>3 DEF GeneratorTests, OrderInv, Below, Pending
    <2>4. CASE GeneratorEnds
        <3>1. UNCHANGED dataIndex /\ consumerPc' = "slice" /\ (genEnd' >= dataIndex \/ genEnd' = AudioLen)
            BY <1>1, <2>4 DEF GeneratorEnds, consumer
        <3>2. genEnd' \in 0 .. AudioLen
            BY <1>1, <2>4 DEF GeneratorEnds
        <3>3. Below(genEnd')
            <4>1. AudioLen \in Int /\ dataIndex \in Int /\ genEnd' \in Int
                BY <1>1, <3>2
            <4>2. QED
                BY <3>1, <4>1, BelowMore DEF OrderInv
        <3>4. QED
            BY <2>1, <2>2, <3>1, <3>3 DEF OrderInv, Below, Pending
    <2>5. CASE GeneratorSlices
        BY <2>1, <2>2, <2>5 DEF GeneratorSlices, consumer, OrderInv, Below, Pending
    <2>6. CASE GeneratorStores
        <3>1. /\ dataIndex' = genEnd /\ consumerPc = "store" /\ consumerPc' = "send"
              /\ data' = data /\ data # Config /\ data[2] = genEnd
            BY <2>6 DEF GeneratorStores, consumer, LocalInv
        <3>2. \A s \in Bytes(data) : s < genEnd
            BY <1>1, <3>1 DEF Bytes
        <3>3. QED
            BY <2>1, <2>2, <3>1, <3>2 DEF OrderInv, Below, Pending
    <2>7. QED
        BY <1>3, <2>3, <2>4, <2>5, <2>6 DEF Generator
<1>4. CASE PlainStep /\ UNCHANGED sourceVars
    <2>1. Flushes \/ Starts \/ Sends \/ IsSent \/ GivesUp \/ EndsAudio \/ Quiet
        BY <1>1, <1>4, RequestSteps
    <2>2. CASE Flushes
        BY <1>4, <2>2, FlushOrder
    <2>3. CASE Starts \/ Sends \/ IsSent \/ GivesUp \/ EndsAudio \/ Quiet
        <3>1. UNCHANGED <<sent, dataIndex, genEnd>>
            BY <1>4, <2>3 DEF Starts, Sends, IsSent, GivesUp, EndsAudio, Quiet, sourceVars
        <3>2. /\ consumerPc' \in {"slice", "store"} => consumerPc' = consumerPc /\ data' = data
              /\ Pending' => (Pending /\ data' = data) \/ data' = Config
            BY <2>3 DEF Starts, Sends, IsSent, GivesUp, EndsAudio, Quiet, consumer, Pending, FlightInv
        <3>3. Pending' => \A s \in Bytes(data') : s < dataIndex
            BY <3>2 DEF OrderInv, Bytes
        <3>4. QED
            BY <3>1, <3>2, <3>3 DEF OrderInv, Below, AudioInOrder
    <2>4. QED
        BY <2>1, <2>2, <2>3
<1>5. QED
    BY <1>2, <1>3, <1>4, StepKinds

\* A chunk that goes onto the wire where the bytes there end fills no gap and
\* leaves none.
LEMMA FlushGap ==
    ASSUME IInv, Flushes, UNCHANGED sourceVars
    PROVE  GapInv'
<1> USE PyFileStreamingAssumption DEF IInv
<1>1. /\ Len(sent) \in Nat /\ Len(sent') = Len(sent) + 1
      /\ \A k \in 1 .. Len(sent) : sent'[k] = sent[k]
      /\ sent'[Len(sent) + 1] = data
      /\ UNCHANGED <<data, dataIndex, consumerPc, closeCalled, closedAt, half>>
      /\ Pending /\ queued' = <<>> /\ consumerPc = "sending" /\ half = "open"
    BY Types DEF Flushes, Pending, sourceVars, FlightInv
<1>2. /\ dataIndex \in 0 .. AudioLen + 1
      /\ data # Config => data[1] \in 0 .. AudioLen + 1 /\ data[2] \in 0 .. AudioLen
    BY Types
<1> SUFFICES ASSUME "slice" \notin closedAt
             PROVE  NoGap' /\ (Genuine => Covered(dataIndex)')
    BY <1>1 DEF GapInv, Pending, Between, Genuine
<1>3. ASSUME data # Config, data[1] <= data[2], NEW s \in 0 .. data[2] - 1
      PROVE  \E k \in 1 .. Len(sent) + 1 : s \in Bytes(sent'[k])
    <2>1. CASE s < data[1]
        <3>1. Covered(data[1])
            BY <1>1, <1>3 DEF GapInv
        <3>2. s \in 0 .. data[1] - 1
            BY <1>2, <1>3, <2>1
        <3>3. PICK k \in 1 .. Len(sent) : s \in Bytes(sent[k])
            BY <3>1, <3>2 DEF Covered
        <3>4. QED
            BY <1>1, <3>3
    <2>2. CASE s >= data[1]
        <3>1. s \in Bytes(data)
            BY <1>2, <1>3, <2>2 DEF Bytes
        <3>2. QED
            BY <1>1, <3>1
    <2>3. QED
        BY <1>2, <1>3, <2>1, <2>2
<1>4. NoGap'
    <2>1. ASSUME NEW k \in 1 .. Len(sent'), NEW t \in Bytes(sent'[k]), NEW s \in 0 .. t
          PROVE  \E j \in 1 .. k : s \in Bytes(sent'[j])
        <3>1. CASE k = Len(sent) + 1
            <4>1. t \in Bytes(data)
                BY <1>1, <2>1, <3>1
            <4>2. data # Config /\ data[1] <= t /\ t < data[2] /\ t \in Int
                BY <1>2, <4>1 DEF Bytes
            <4>3. data[1] <= data[2] /\ s \in 0 .. data[2] - 1
                BY <1>2, <2>1, <4>2
            <4>4. QED
                BY <1>3, <3>1, <4>2, <4>3
        <3>2. CASE k \in 1 .. Len(sent)
            <4>1. t \in Bytes(sent[k])
                BY <1>1, <2>1, <3>2
            <4>2. PICK j \in 1 .. k : s \in Bytes(sent[j])
                BY <1>1, <2>1, <3>2, <4>1 DEF GapInv, NoGap
            <4>3. j \in 1 .. Len(sent)
                BY <1>1, <3>2, <4>2
            <4>4. QED
                BY <1>1, <4>2, <4>3
        <3>3. QED
            BY <1>1, <2>1, <3>1, <3>2
    <2>2. QED
        BY <1>1, <2>1 DEF NoGap
<1>5. ASSUME Genuine
      PROVE  Covered(dataIndex)'
    <2>1. CASE data = Config
        <3>1. dataIndex' = 0
            BY <1>1, <1>5, <2>1 DEF GapInv
        <3>2. QED
            BY <3>1 DEF Covered
    <2>2. CASE data # Config
        <3>1. dataIndex' = data[2] /\ data[1] <= data[2]
            BY <1>1, <1>5, <2>2 DEF GapInv
        <3>2. QED
            BY <1>1, <1>3, <2>2, <3>1 DEF Covered
    <2>3. QED
        BY <2>1, <2>2
<1>6. QED
    BY <1>4, <1>5

\* Every step keeps what is on the wire up to what is to come.
LEMMA GapStep ==
    ASSUME IInv, [Next]_vars
    PROVE  GapInv'
<1> USE PyFileStreamingAssumption DEF IInv
<1>1. /\ dataIndex \in 0 .. AudioLen + 1 /\ genEnd \in 0 .. AudioLen
      /\ data # Config => data[1] \in 0 .. AudioLen + 1 /\ data[2] \in 0 .. AudioLen
      /\ CallTypeOK(Request)
    BY Types
<1>2. CASE Closes
    <2>1. /\ dataIndex' = AudioLen + 1 /\ closeCalled' /\ closedAt' = closedAt \cup {consumerPc}
          /\ UNCHANGED <<sent, queued, half, data, genEnd, consumerPc>>
        BY <1>2 DEF Closes, CallsClose, callVars
    <2>2. ~Genuine'
        BY <1>1, <2>1 DEF Genuine
    <2>3. "slice" \notin closedAt' => "slice" \notin closedAt /\ consumerPc # "slice"
        BY <2>1
    <2>4. QED
        BY <2>1, <2>2, <2>3 DEF GapInv, NoGap, Covered, Pending
<1>3. CASE Generator
    <2>1. /\ UNCHANGED <<sent, queued, half, closeCalled, closedAt>>
          /\ queued = <<>> /\ half = "open"
        BY <1>3, StepKinds DEF Generator, callVars, FlightInv, GeneratorStep
    <2>2. "slice" \notin closedAt => NoGap'
        BY <2>1 DEF GapInv, NoGap
    <2>3. CASE GeneratorTests
        <3>1. /\ consumerPc = "next" /\ UNCHANGED <<data, dataIndex, genEnd>>
              /\ consumerPc' = "end" \/ (consumerPc' = "eos" /\ dataIndex >= AudioLen)
            BY <1>1, <2>3 DEF GeneratorTests
        <3>2. ~closeCalled /\ dataIndex >= AudioLen => dataIndex = AudioLen
            BY <1>1 DEF LocalInv
        <3>3. QED
            BY <2>1, <2>2, <3>1, <3>2 DEF GapInv, Covered, Pending, Between, Genuine
    <2>4. CASE GeneratorEnds
        <3>1. /\ consumerPc = "end" /\ consumerPc' = "slice" /\ UNCHANGED <<data, dataIndex>>
              /\ genEnd' = AudioLen \/ (genEnd' = dataIndex + FrameSize /\ genEnd' < AudioLen)
            BY <1>1, <2>4 DEF GeneratorEnds, consumer
        <3>2. ~closeCalled \/ genEnd' < AudioLen => dataIndex <= genEnd'
            BY <1>1, <3>1 DEF LocalInv
        <3>3. dataIndex <= genEnd' => Genuine
            BY <1>1, <3>1 DEF LocalInv, Genuine
        <3>4. QED
            BY <2>1, <2>2, <3>1, <3>2, <3>3 DEF GapInv, Covered, Pending, Between
    <2>5. CASE GeneratorSlices
        BY <2>1, <2>2, <2>5 DEF GeneratorSlices, consumer, GapInv, Covered, Pending, Between
    <2>6. CASE GeneratorStores
        <3>1. /\ consumerPc = "store" /\ consumerPc' = "send" /\ UNCHANGED <<data, genEnd>>
              /\ dataIndex' = genEnd /\ data # Config /\ data[2] = genEnd
            BY <2>6 DEF GeneratorStores, consumer, LocalInv
        <3>2. QED
            BY <2>1, <2>2, <3>1 DEF GapInv, Covered, Pending, Between, Genuine
    <2>7. QED
        BY <1>3, <2>3, <2>4, <2>5, <2>6 DEF Generator
<1>4. CASE PlainStep /\ UNCHANGED sourceVars
    <2>1. Flushes \/ Starts \/ Sends \/ IsSent \/ GivesUp \/ EndsAudio \/ Quiet
        BY <1>1, <1>4, RequestSteps
    <2>2. CASE Flushes
        BY <1>4, <2>2, FlushGap
    <2>3. CASE Starts \/ Sends \/ IsSent \/ GivesUp \/ EndsAudio \/ Quiet
        <3>1. UNCHANGED <<sent, dataIndex, genEnd, closeCalled, closedAt>>
            BY <1>4, <2>3 DEF Starts, Sends, IsSent, GivesUp, EndsAudio, Quiet, sourceVars
        <3>2. /\ consumerPc' \in {"slice", "store"} => consumerPc' = consumerPc /\ data' = data
              /\ Between' => Between
              /\ Pending' => (Pending /\ data' = data) \/ (data' = Config /\ consumerPc = "config")
              /\ consumerPc' = "eos" \/ half' # "open" => consumerPc = "eos" \/ half # "open"
            BY <2>3 DEF Starts, Sends, IsSent, GivesUp, EndsAudio, Quiet, consumer, Pending,
                Between, FlightInv
        <3>3. Pending' /\ data' = Config /\ Genuine => "slice" \in closedAt \/ dataIndex = 0
            BY <3>2 DEF GapInv, LocalInv
        <3>4. "slice" \notin closedAt => NoGap'
            BY <3>1 DEF GapInv, NoGap
        <3>5. QED
            BY <3>1, <3>2, <3>3, <3>4 DEF GapInv, Covered, Genuine
    <2>4. QED
        BY <2>1, <2>2, <2>3
<1>5. QED
    BY <1>2, <1>3, <1>4, StepKinds

-----------------------------------------------------------------------------
Chunks == (AudioLen + FrameSize - 1) \div FrameSize

\* The ends of the chunks are those that the generator computes, and the last
\* of Chunks chunks ends the file.
LEMMA PosStep ==
    ASSUME NEW m \in Nat
    PROVE  /\ Pos(m) \in 0 .. AudioLen /\ Pos(0) = 0
           /\ Pos(m) < AudioLen =>
                Pos(m + 1) = IF Pos(m) + FrameSize >= AudioLen
                             THEN AudioLen ELSE Pos(m) + FrameSize
           /\ Pos(m) < AudioLen <=> m < Chunks
           /\ Chunks \in Nat
<1> USE PyFileStreamingAssumption
<1>1. m * FrameSize \in Nat /\ 0 * FrameSize = 0 /\ (m + 1) * FrameSize = m * FrameSize + FrameSize
    OBVIOUS
<1>2. Pos(m) < AudioLen <=> m * FrameSize < AudioLen
    BY <1>1 DEF Pos
<1>3. /\ Chunks \in Nat
      /\ Chunks * FrameSize <= AudioLen + FrameSize - 1
      /\ AudioLen + FrameSize - 1 < (Chunks + 1) * FrameSize
    <2> DEFINE n == AudioLen + FrameSize - 1
    <2>1. n \in Nat
        OBVIOUS
    <2>2. n = FrameSize * (n \div FrameSize) + (n % FrameSize) /\ n % FrameSize \in 0 .. FrameSize - 1
        BY <2>1
    <2>3. n \div FrameSize \in Nat
        BY <2>1
    <2>4. QED
        BY <2>1, <2>2, <2>3 DEF Chunks
<1>4. ASSUME m < Chunks PROVE m * FrameSize < AudioLen
    <2>1. (m + 1) * FrameSize <= Chunks * FrameSize
        BY <1>3, <1>4
    <2>2. QED
        BY <1>1, <1>3, <2>1
<1>5. ASSUME m >= Chunks PROVE m * FrameSize >= AudioLen
    <2>1. (m + 1) * FrameSize >= (Chunks + 1) * FrameSize
        BY <1>3, <1>5
    <2>2. QED
        BY <1>1, <1>3, <2>1
<1>6. Pos(m) < AudioLen <=> m < Chunks
    BY <1>1, <1>2, <1>3, <1>4, <1>5
<1>7. QED
    BY <1>1, <1>2, <1>3, <1>6 DEF Pos

\* data_index counts the chunks.
LEMMA CountStep ==
    ASSUME IInv, [Next]_vars
    PROVE  CountInv'
<1> USE PyFileStreamingAssumption DEF IInv
<1>1. /\ dataIndex \in 0 .. AudioLen + 1 /\ genEnd \in 0 .. AudioLen
      /\ Len(sent) \in Nat /\ CallTypeOK(Request) /\ Pos(0) = 0
    BY Types, PosStep
<1>2. CASE Closes
    <2>1. /\ dataIndex' = AudioLen + 1 /\ closeCalled'
          /\ UNCHANGED <<sent, queued, half, data, genEnd, consumerPc>>
        BY <1>2 DEF Closes, CallsClose, callVars
    <2>2. ~Genuine'
        BY <1>1, <2>1 DEF Genuine
    <2>3. QED
        BY <2>1, <2>2 DEF CountInv, Pending, Pos
<1>3. CASE Generator
    <2>1. /\ UNCHANGED <<sent, queued, half, closeCalled, closedAt>>
          /\ queued = <<>> /\ half = "open" /\ Len(sent) > 0
        BY <1>3, StepKinds DEF Generator, callVars, FlightInv, GeneratorStep
    <2>2. \A m : Pos(m)' = Pos(m)
        BY DEF Pos
    <2>3. CASE GeneratorTests
        <3>1. /\ consumerPc = "next" /\ UNCHANGED <<data, dataIndex, genEnd>>
              /\ \/ consumerPc' = "end" /\ dataIndex < AudioLen
                 \/ consumerPc' = "eos" /\ dataIndex >= AudioLen
            BY <1>1, <2>3 DEF GeneratorTests
        <3>2. ~closeCalled /\ dataIndex >= AudioLen => dataIndex = AudioLen
            BY <1>1 DEF LocalInv
        <3>3. QED
            BY <2>1, <2>2, <3>1, <3>2 DEF CountInv, Pending, Between, Genuine
    <2>4. CASE GeneratorEnds
        <3>1. /\ consumerPc = "end" /\ consumerPc' = "slice" /\ UNCHANGED <<data, dataIndex>>
              /\ genEnd' = IF dataIndex + FrameSize >= AudioLen
                           THEN AudioLen ELSE dataIndex + FrameSize
            BY <2>4 DEF GeneratorEnds, consumer
        <3>2. ASSUME ~closeCalled \/ genEnd' < AudioLen
              PROVE  genEnd' = Pos(Len(sent))
            <4>1. Genuine
                BY <1>1, <3>1, <3>2 DEF Genuine
            <4>2. dataIndex = Pos(Len(sent) - 1) /\ Pos(Len(sent) - 1) < AudioLen
                BY <3>1, <4>1 DEF CountInv, Between
            <4>3. Len(sent) - 1 \in Nat /\ (Len(sent) - 1) + 1 = Len(sent)
                BY <1>1, <2>1
            <4>4. QED
                BY <3>1, <4>2, <4>3, PosStep
        <3>3. QED
            BY <2>1, <2>2, <3>1, <3>2 DEF CountInv, Pending, Between
    <2>5. CASE GeneratorSlices
        BY <2>1, <2>2, <2>5 DEF GeneratorSlices, consumer, CountInv, Pending, Between
    <2>6. CASE GeneratorStores
        BY <2>1, <2>2, <2>6 DEF GeneratorStores, consumer, CountInv, Pending, Between, Genuine
    <2>7. QED
        BY <1>3, <2>3, <2>4, <2>5, <2>6 DEF Generator
<1>4. CASE PlainStep /\ UNCHANGED sourceVars
    <2>1. Flushes \/ Starts \/ Sends \/ IsSent \/ GivesUp \/ EndsAudio \/ Quiet
        BY <1>1, <1>4, RequestSteps
    <2>2. UNCHANGED <<dataIndex, genEnd>> /\ \A m : Pos(m)' = Pos(m)
        BY <1>4 DEF sourceVars, Pos
    <2>3. CASE Flushes
        <3>1. /\ Len(sent') = Len(sent) + 1
              /\ UNCHANGED <<data, consumerPc, closeCalled, half>>
              /\ Pending /\ queued' = <<>> /\ consumerPc = "sending" /\ half = "open"
              /\ data = Config <=> Len(sent) = 0
            BY <2>3 DEF Flushes, Pending, FlightInv
        <3>2. Len(sent') - 1 = Len(sent) /\ Len(sent') - 2 = Len(sent) - 1
            BY <1>1, <3>1
        <3>3. QED
            BY <1>1, <2>2, <3>1, <3>2 DEF CountInv, Pending, Between, Genuine
    <2>4. CASE Starts \/ Sends \/ IsSent \/ GivesUp \/ EndsAudio \/ Quiet
        <3>1. UNCHANGED <<sent, closeCalled>>
            BY <2>4 DEF Starts, Sends, IsSent, GivesUp, EndsAudio, Quiet
        <3>2. /\ consumerPc' \in {"end", "slice", "store"} => consumerPc' = consumerPc
              /\ Between' => Between
              /\ Pending' => \/ Pending /\ data' = data
                             \/ data' = Config /\ consumerPc = "config" /\ Len(sent) = 0
              /\ consumerPc' = "eos" \/ half' # "open" => consumerPc = "eos" \/ half # "open"
            BY <2>4 DEF Starts, Sends, IsSent, GivesUp, EndsAudio, Quiet, consumer, Pending,
                Between, FlightInv
        <3>3. QED
            BY <1>1, <2>2, <3>1, <3>2 DEF CountInv, LocalInv, Genuine
    <2>5. QED
        BY <2>1, <2>3, <2>4
<1>5. QED
    BY <1>2, <1>3, <1>4, StepKinds

-----------------------------------------------------------------------------
\* IInv holds throughout every behaviour.
THEOREM Invariance == Spec => []IInv
<1> USE PyFileStreamingAssumption
<1>1. Init => IInv
    <2> SUFFICES ASSUME Init PROVE IInv
        OBVIOUS
    <2>1. RecognizerTypeOK(Request, GeneratorPc) /\ FlightInv /\ AnswerInv
        <3>1. Config \in Request
            BY DEF Request
        <3>2. QED
            BY <3>1, RecognizerStart DEF Init
    <2>2. /\ consumerPc = "config" /\ queued = <<>> /\ half = "open" /\ sent = <<>>
          /\ dataIndex = 0 /\ genEnd = 0 /\ closedAt = {} /\ ~closeCalled /\ late = 0
        BY DEF Init, RecognizerInit, CallInit
    <2>3. Len(sent) = 0
        BY <2>2, EmptySeq
    <2>4. TypeOK
        BY <2>1, <2>2 DEF TypeOK
    <2>5. LocalInv /\ LateInv
        BY <2>2 DEF LocalInv, LateInv
    <2>6. OrderInv /\ GapInv /\ CountInv
        BY <2>2, <2>3 DEF OrderInv, AudioInOrder, Below, GapInv, NoGap, CountInv,
            Pending, Between
    <2>7. QED
        BY <2>1, <2>4, <2>5, <2>6 DEF IInv
<1>2. IInv /\ [Next]_vars => IInv'
    <2> SUFFICES ASSUME IInv, [Next]_vars PROVE IInv'
        OBVIOUS
    <2>1. RecognizerTypeOK(Request, GeneratorPc) /\ CallTypeOK(Request)
        BY Types DEF IInv, TypeOK
    <2>2. RecognizerStep \/ GeneratorStep
        BY StepKinds DEF IInv, RecognizerStep
    <2>3. FlightInv'
        BY <2>1, <2>2, FlightStep DEF IInv
    <2>4. AnswerInv'
        BY <2>1, <2>2, AnswerStep DEF IInv
    <2>5. TypeOK' /\ LocalInv' /\ OrderInv' /\ GapInv' /\ CountInv' /\ LateInv'
        BY TypeStep, LocalStep, OrderStep, GapStep, CountStep, LateStep
    <2>6. QED
        BY <2>3, <2>4, <2>5 DEF IInv
<1>3. QED
    BY <1>1, <1>2, PTL DEF Spec

-----------------------------------------------------------------------------
(***************************************************************************)
(* The properties of PyFileStreaming.                                      *)
(***************************************************************************)

\* The generator hands gRPC nothing but slices within the file, and data_index
\* and end_sample stay where close() and the generator may put them.
THEOREM TypeCorrect == Spec => []TypeOK
BY Invariance, PTL DEF IInv

\* The RequestIterator gives the configuration first and never again.
THEOREM ConfigGoesFirst == Spec => []ConfigFirst
<1>1. IInv => ConfigFirst
    BY DEF IInv, FlightInv
<1>2. QED
    BY <1>1, Invariance, PTL

\* Wherever the assignment of close() falls between those of the generator, no
\* byte of the file goes out twice or before one that precedes it.
THEOREM InOrder == Spec => []AudioInOrder
<1>1. IInv => AudioInOrder
    BY DEF IInv, OrderInv
<1>2. QED
    BY <1>1, Invariance, PTL

\* The one position of close() that leaves a gap behind it is the one between
\* the generator's computation of end_sample and its slice.
THEOREM GapConfined == Spec => []NoGap
<1>1. IInv => NoGap
    BY DEF IInv, GapInv, NoGap
<1>2. QED
    BY <1>1, Invariance, PTL

\* Without a close(), a half-closed call carries every byte of the file and no
\* other.
THEOREM NothingCutOff == Spec => []WholeFile
<1>1. IInv => WholeFile
    <2> SUFFICES ASSUME IInv, half # "open", ~closeCalled
                 PROVE  UNION {Bytes(sent[k]) : k \in 1 .. Len(sent)} = 0 .. AudioLen - 1
        BY DEF WholeFile
    <2>1. "slice" \notin closedAt
        BY DEF IInv, LateInv
    <2>2. Covered(AudioLen) /\ Below(AudioLen)
        BY <2>1 DEF IInv, GapInv, OrderInv
    <2>3. \A k \in 1 .. Len(sent) : \A s \in Bytes(sent[k]) : s \in Nat
        BY PyFileStreamingAssumption, Types DEF IInv, Bytes, Request
    <2>4. ASSUME NEW k \in 1 .. Len(sent), NEW s \in Bytes(sent[k])
          PROVE  s \in 0 .. AudioLen - 1
        <3>1. s \in Nat /\ s < AudioLen
            BY <2>2, <2>3 DEF Below
        <3>2. QED
            BY <3>1, PyFileStreamingAssumption
    <2>5. \A s \in 0 .. AudioLen - 1 : s \in UNION {Bytes(sent[k]) : k \in 1 .. Len(sent)}
        BY <2>2 DEF Covered
    <2>6. QED
        BY <2>4, <2>5
<1>2. QED
    BY <1>1, Invariance, PTL

\* At most one chunk follows a close() that does not fall between the
\* computation of end_sample and the assignment of data_index.
THEOREM AtMostOneLate == Spec => []CloseTakesEffect
<1>1. IInv => CloseTakesEffect
    BY DEF IInv, LateInv, CloseTakesEffect
<1>2. QED
    BY <1>1, Invariance, PTL

\* recognize returns the results of every response that arrived, each once and
\* in order.
THEOREM AnswersWhole == Spec => []ResultsComplete
<1>1. IInv => ResultsComplete
    BY AnswerComplete DEF IInv, TypeOK
<1>2. QED
    BY <1>1, Invariance, PTL

-----------------------------------------------------------------------------
(***************************************************************************)
(* The refinement: what the caller and the service see of recognize.       *)
(***************************************************************************)

\* There is a request left for each one that goes onto the wire.
LEMMA RequestLeft ==
    ASSUME IInv, queued # <<>>
    PROVE  Len(sent) < 1 + Chunks
<1>1. /\ Len(sent) \in Nat /\ Chunks \in Nat
      /\ data = Config <=> Len(sent) = 0
    BY Types, PosStep DEF IInv, FlightInv
<1>2. CASE data # Config
    <2>1. Pos(Len(sent) - 1) < AudioLen
        BY <1>2 DEF IInv, CountInv, Pending
    <2>2. Len(sent) - 1 \in Nat
        BY <1>1, <1>2
    <2>3. QED
        BY <1>1, <2>1, <2>2, PosStep
<1>3. QED
    BY <1>1, <1>2

\* The half-close comes after the last chunk or after a stop response.
LEMMA HalfCloseReason ==
    ASSUME IInv, half # "open"
    PROVE  Len(sent) = 1 + Chunks \/ StopRead
<1> DEFINE n == Len(sent)
<1>1. n \in Nat /\ Chunks \in Nat
    BY Types, PosStep DEF IInv
<1>2. CASE closeCalled
    BY <1>2 DEF IInv, AnswerInv
<1>3. CASE ~closeCalled
    <2>1. /\ n > 0 /\ Pos(n - 1) = AudioLen
          /\ n = 1 \/ Pos(n - 2) < AudioLen
        BY <1>3 DEF IInv, CountInv
    <2> HIDE DEF n
    <2>2. n - 1 >= Chunks
        <3>1. n - 1 \in Nat
            BY <1>1, <2>1
        <3>2. ~(Pos(n - 1) < AudioLen)
            BY <2>1, PyFileStreamingAssumption
        <3>3. QED
            BY <1>1, <3>1, <3>2, PosStep
    <2>3. CASE n # 1
        <3>1. n - 2 \in Nat
            BY <1>1, <2>1, <2>3
        <3>2. n - 2 < Chunks
            BY <2>1, <2>3, <3>1, PosStep
        <3>3. n = 1 + Chunks
            BY <1>1, <2>2, <3>2
        <3>4. QED
            BY <3>3 DEF n
    <2>4. CASE n = 1
        <3>1. n = 1 + Chunks
            BY <1>1, <2>2, <2>4
        <3>2. QED
            BY <3>1 DEF n
    <2>5. QED
        BY <2>3, <2>4
<1>4. QED
    BY <1>2, <1>3

\* Every step of the client and of its environment is one of the session, or
\* is not seen.
LEMMA SessionStep ==
    ASSUME IInv, [Next]_vars
    PROVE  [Session!SessionNext]_(Session!sessionVars)
<1> USE DEF Session!sessionVars, Session!SessionNext
<1>1. Unseen \/ Delivers \/ HalfCloses \/ Arrives \/ Looks \/ Ends \/ Answers
    <2>1. RecognizerStep \/ GeneratorStep
        BY StepKinds DEF IInv, RecognizerStep
    <2>2. RecognizerTypeOK(Request, GeneratorPc)
        BY DEF IInv, TypeOK
    <2>3. QED
        BY <2>1, <2>2, VisibleStep DEF IInv
<1>2. CASE Unseen
    BY <1>2 DEF Unseen, CallOver
<1>3. CASE Delivers
    <2>1. Len(sent) < 1 + Chunks
        BY <1>3, RequestLeft DEF Delivers
    <2>2. Session!Deliver
        BY <1>3, <2>1 DEF Delivers, Session!Deliver, Chunks, CallOver
    <2>3. QED
        BY <2>2
<1>4. CASE HalfCloses
    <2>1. Len(sent) = 1 + Chunks \/ Session!AskedToStop
        BY <1>4, HalfCloseReason DEF HalfCloses, StopRead, Session!AskedToStop
    <2>2. Session!HalfClose
        BY <1>4, <2>1 DEF HalfCloses, Session!HalfClose, Chunks, CallOver
    <2>3. QED
        BY <2>2
<1>5. CASE Arrives
    <2>1. PICK kind \in ResponseKind : inbound' = Append(inbound, kind)
        BY <1>5 DEF Arrives
    <2>2. Session!Arrive(kind)
        BY <1>5, <2>1 DEF Arrives, Session!Arrive, CallOver
    <2>3. QED
        BY <2>2
<1>6. CASE Looks
    <2>1. Session!Look
        BY <1>6 DEF Looks, Session!Look, CallOver
    <2>2. QED
        BY <2>1
<1>7. CASE Ends
    <2>1. Session!End
        BY <1>7 DEF Ends, Session!End
    <2>2. QED
        BY <2>1
<1>8. CASE Answers
    <2>1. Session!Answer
        BY <1>8 DEF Answers, Session!Answer, Session!Kept, Kept, ResponsesOver, CallOver
    <2>2. QED
        BY <2>1
<1>9. QED
    BY <1>1, <1>2, <1>3, <1>4, <1>5, <1>6, <1>7, <1>8

\* Threads, data_index and gRPC included, recognize over a file does what
\* StreamingSession allows and no more, wherever close() falls.
THEOREM Implementation == Spec => ImplementsSession
<1>1. Init => Session!SessionInit
    BY EmptySeq DEF Init, RecognizerInit, CallInit, Session!SessionInit, CallOver, Answer
<1>2. QED
    BY <1>1, SessionStep, Invariance, PTL
    DEF Spec, ImplementsSession, Session!SessionSpec
===============================================================================
