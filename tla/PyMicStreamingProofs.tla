-------------------------- MODULE PyMicStreamingProofs --------------------------
(***************************************************************************)
(* Proofs about the Python client streaming from a microphone              *)
(* (PyMicStreaming), for every number of recorded chunks and however the   *)
(* three threads interleave.                                               *)
(*                                                                         *)
(* The chunks are recorded as 1, 2, ..., recorded.  While the generator    *)
(* listens to the queue, these numbers are split in three: those on the    *)
(* wire end at Tip, those that the generator has in hand, or gave to gRPC, *)
(* at Taken, and the others wait in the queue.                             *)
(***************************************************************************)
EXTENDS PyMicStreaming, PyRecognizerProofs

\* The chunks a, a + 1, ..., b.
Run(a, b) == [n \in 1 .. b - a + 1 |-> a + n - 1]

Waiting == IF exitPc = "signalled" THEN Len(buff) - 1 ELSE Len(buff)
Taken   == recorded - Waiting
Tip     == IF Len(sent) <= 1 THEN 0 ELSE Last(sent[Len(sent)])

Listening == consumerPc \notin {"eos", "done"}

\* The queue holds the chunks after Taken, and None behind them once __exit__
\* has put it there.
BuffInv ==
    Listening =>
        /\ Waiting \in 0 .. recorded
        /\ \A k \in 1 .. Waiting : buff[k] = Taken + k
        /\ exitPc = "signalled" => buff[Len(buff)] = None

\* The generator, or gRPC, has the chunks between Tip and Taken.
HandInv ==
    Listening =>
        /\ consumerPc = "config" => Taken = 0
        /\ consumerPc \in {"next", "get"} \/ (consumerPc = "sending" /\ queued = <<>>) =>
             Taken = Tip
        /\ consumerPc = "drain" => Tip < Taken /\ gathered = Run(Tip + 1, Taken)
        /\ consumerPc = "send" \/ queued # <<>> =>
             \/ data = Config /\ Taken = 0
             \/ Tip < Taken /\ data = Run(Tip + 1, Taken)

\* The requests on the wire hold the chunks up to Tip, at least one each.
WireInv ==
    /\ ChunksInOrder
    /\ Tip \in 0 .. recorded
    /\ Len(sent) <= 1 + Tip
    /\ \A c \in 1 .. Tip : \E k \in 1 .. Len(sent) : c \in Elems(sent[k])

\* Why the generator ended, why the flag is set, and how far __exit__ may be.
EndInv ==
    /\ ~Listening => closed \/ CallOver
    /\ closed => StopRead \/ CallOver
    /\ closeCalled => closed
    /\ exitPc # "open" => Returned

\* The generator looks at the flag before it takes another chunk.
LateInv ==
    /\ late <= 1
    /\ ~closeCalled => late = 0
    /\ late = 1 => consumerPc \in {"sending", "next", "eos", "done"}

IInv ==
    /\ TypeOK /\ FlightInv /\ AnswerInv
    /\ BuffInv /\ HandInv /\ WireInv /\ EndInv /\ LateInv

-----------------------------------------------------------------------------
\* Runs of chunks: their elements, and how a generator builds them.
LEMMA RunProperties ==
    ASSUME NEW a \in Nat, NEW b \in Nat, a <= b + 1
    PROVE  /\ Run(a, b) \in Seq(Nat)
           /\ Len(Run(a, b)) = b - a + 1
           /\ \A n \in 1 .. b - a + 1 : Run(a, b)[n] = a + n - 1
           /\ Run(a, b) = <<>> <=> a = b + 1
<1>1. b - a + 1 \in Nat
    OBVIOUS
<1>2. Run(a, b) \in [1 .. b - a + 1 -> Nat]
    BY <1>1 DEF Run
<1>3. Run(a, b) \in Seq(Nat) /\ Len(Run(a, b)) = b - a + 1
    BY <1>1, <1>2
<1>4. \A n \in 1 .. b - a + 1 : Run(a, b)[n] = a + n - 1
    BY DEF Run
<1>5. Run(a, b) = <<>> <=> a = b + 1
    BY <1>3, EmptySeq
<1>6. QED
    BY <1>3, <1>4, <1>5

\* A run of one chunk.
LEMMA RunOne ==
    ASSUME NEW a \in Nat
    PROVE  <<a>> = Run(a, a)
<1>1. /\ Run(a, a) \in Seq(Nat) /\ Len(Run(a, a)) = 1
      /\ Run(a, a)[1] = a
    <2>1. Run(a, a) \in Seq(Nat) /\ Len(Run(a, a)) = 1
        <3>1. a <= a + 1 /\ a - a + 1 = 1
            OBVIOUS
        <3>2. Run(a, a) \in Seq(Nat) /\ Len(Run(a, a)) = a - a + 1
            BY <3>1, RunProperties
        <3>3. QED
            BY <3>1, <3>2
    <2>2. Run(a, a)[1] = a
        BY DEF Run
    <2>3. QED
        BY <2>1, <2>2
<1>2. <<a>> \in Seq(Nat) /\ Len(<<a>>) = 1 /\ <<a>>[1] = a
    OBVIOUS
<1>3. \A n \in 1 .. Len(<<a>>) : <<a>>[n] = Run(a, a)[n]
    BY <1>1, <1>2
<1>4. QED
    BY <1>1, <1>2, <1>3, SeqEqual

\* A run that goes on for one chunk.
LEMMA RunMore ==
    ASSUME NEW a \in Nat, NEW b \in Nat, a <= b + 1
    PROVE  Append(Run(a, b), b + 1) = Run(a, b + 1)
<1> DEFINE s == Append(Run(a, b), b + 1)
<1>1. /\ Run(a, b) \in Seq(Nat) /\ Len(Run(a, b)) = b - a + 1
      /\ \A n \in 1 .. b - a + 1 : Run(a, b)[n] = a + n - 1
    BY RunProperties
<1>2. /\ s \in Seq(Nat) /\ Len(s) = b - a + 2
      /\ \A n \in 1 .. b - a + 1 : s[n] = a + n - 1
      /\ s[b - a + 2] = b + 1
    <2>1. /\ s \in Seq(Nat) /\ Len(s) = Len(Run(a, b)) + 1
          /\ \A n \in 1 .. Len(Run(a, b)) : s[n] = Run(a, b)[n]
          /\ s[Len(Run(a, b)) + 1] = b + 1
        BY <1>1, AppendProperties
    <2>2. Len(Run(a, b)) + 1 = b - a + 2
        BY <1>1
    <2>3. QED
        BY <1>1, <2>1, <2>2
<1>3. /\ Run(a, b + 1) \in Seq(Nat) /\ Len(Run(a, b + 1)) = b - a + 2
      /\ \A n \in 1 .. b - a + 2 : Run(a, b + 1)[n] = a + n - 1
    <2>1. b + 1 \in Nat /\ a <= (b + 1) + 1 /\ (b + 1) - a + 1 = b - a + 2
        OBVIOUS
    <2>2. QED
        BY <2>1, RunProperties
<1> HIDE DEF s
<1>4. \A n \in 1 .. Len(s) : s[n] = Run(a, b + 1)[n]
    BY <1>2, <1>3
<1>5. s = Run(a, b + 1)
    BY <1>2, <1>3, <1>4, SeqEqual
<1>6. QED
    BY <1>5 DEF s

\* A run that is not too long is a request.
LEMMA RunIsRequest ==
    ASSUME NEW a \in Chunk, NEW b \in Nat, b - a + 1 \in 0 .. MaxChunks + 1
    PROVE  Run(a, b) \in Request
BY DEF Run, Request

\* So is the empty one that stands for the configuration.
LEMMA ConfigIsRequest == Config \in Request
<1>1. Run(1, 0) = <<>>
    BY RunProperties
<1>2. Run(1, 0) \in Request
    BY PyMicStreamingAssumption, RunIsRequest DEF Chunk
<1>3. QED
    BY <1>1, <1>2 DEF Config

-----------------------------------------------------------------------------
\* The facts about types that the lemmas below need.
LEMMA Types ==
    ASSUME TypeOK
    PROVE  /\ CallTypeOK(Request)
           /\ Len(sent) \in Nat /\ Len(buff) \in Nat /\ recorded \in Nat
           /\ buff \in Seq(Chunk \cup {None})
           /\ late \in Nat
<1>1. CallTypeOK(Request) /\ buff \in Seq(Chunk \cup {None}) /\ late \in Nat /\ recorded \in Nat
    BY PyMicStreamingAssumption DEF TypeOK, RecognizerTypeOK
<1>2. Len(sent) \in Nat /\ Len(buff) \in Nat
    BY <1>1, LenProperties DEF CallTypeOK
<1>3. QED
    BY <1>1, <1>2

\* The split of the chunks.
LEMMA Split ==
    ASSUME TypeOK, BuffInv, Listening
    PROVE  /\ Waiting \in Nat /\ Taken \in 0 .. recorded /\ Taken \in Nat
           /\ Taken = recorded - Waiting /\ recorded \in 0 .. MaxChunks + 1
<1>1. recorded \in 0 .. MaxChunks + 1 /\ Waiting \in 0 .. recorded
    BY DEF TypeOK, BuffInv
<1>2. Waiting \in Nat /\ recorded \in Nat
    BY <1>1, Types
<1> HIDE DEF Waiting
<1>3. QED
    BY <1>1, <1>2 DEF Taken

\* Around the generator: the steps of the recording and of __exit__.
Device == FillBuffer \/ ExitStops \/ ExitCloses \/ ExitSignals

\* What the generator finds at the head of the queue: the next chunk, or None
\* when __exit__ has put it there.
LEMMA QueueHead ==
    ASSUME TypeOK, BuffInv, Listening, buff # <<>>
    PROVE  /\ Tail(buff) \in Seq(Chunk \cup {None})
           /\ Len(Tail(buff)) = Len(buff) - 1
           /\ \A k \in 1 .. Len(buff) - 1 : Tail(buff)[k] = buff[k + 1]
           /\ Head(buff) # None => Waiting > 0 /\ Head(buff) = Taken + 1
           /\ Head(buff) = None => exitPc = "signalled"
<1>1. /\ Tail(buff) \in Seq(Chunk \cup {None})
      /\ Len(Tail(buff)) = Len(buff) - 1
      /\ \A k \in 1 .. Len(Tail(buff)) : Tail(buff)[k] = buff[k + 1]
    BY Types, HeadTailProperties
<1>2. Head(buff) = buff[1] /\ Len(buff) \in Nat /\ Len(buff) # 0
    BY Types, EmptySeq
<1>3. Waiting > 0 => buff[1] = Taken + 1
    BY <1>2, Split DEF BuffInv
<1>4. ~(Waiting > 0) => exitPc = "signalled" /\ buff[1] = None
    <2>1. ASSUME ~(Waiting > 0)
          PROVE  exitPc = "signalled" /\ Len(buff) = 1
        <3>1. Waiting = 0
            BY <2>1, Split
        <3>2. QED
            BY <1>2, <3>1 DEF Waiting
    <2>2. QED
        BY <2>1 DEF BuffInv
<1>5. Taken + 1 # None
    BY Split DEF None
<1>6. QED
    BY <1>1, <1>2, <1>3, <1>4, <1>5

\* A step is close(), one of the generator's, of the recording or of __exit__,
\* or leaves the source alone.
LEMMA StepKinds ==
    ASSUME [Next]_vars, IInv
    PROVE  /\ Closes \/ Generator \/ Device \/ (PlainStep /\ UNCHANGED sourceVars)
           /\ Closes => RecognizerStep
           /\ Device => PlainStep /\ UNCHANGED <<callVars, recognizerVars>>
           /\ Generator => GeneratorStep
<1> USE DEF IInv
<1>1. Closes => RecognizerStep
    BY DEF Closes, RecognizerStep
<1>2. Device => PlainStep /\ UNCHANGED <<callVars, recognizerVars>>
    BY DEF Device, FillBuffer, ExitStops, ExitCloses, ExitSignals, PlainStep
<1>3. Generator => GeneratorStep
    <2>1. ASSUME consumerPc = "drain"
          PROVE  gathered # Config
        <3>1. Listening
            BY <2>1 DEF Listening
        <3>2. gathered = Run(Tip + 1, Taken) /\ Tip < Taken /\ Tip \in Nat /\ Taken \in Nat
            BY <2>1, <3>1, Split, Types DEF HandInv, WireInv
        <3>3. QED
            BY <3>2, RunProperties DEF Config
    <2>2. QED
        BY <2>1 DEF Generator, GeneratorStep, GeneratorTests, GeneratorGets, GeneratorDrains,
            GeneratorYields, consumer
<1>4. Closes \/ Generator \/ Device \/ (PlainStep /\ UNCHANGED sourceVars)
    BY DEF Next, MainThread, ConsumerThread, Device, Around, PlainStep, Outside, vars
<1>5. QED
    BY <1>1, <1>2, <1>3, <1>4

\* The generator takes the chunk at the head of the queue into its hand.
Takes ==
    /\ consumerPc \in {"get", "drain"} /\ consumerPc' = "drain"
    /\ buff # <<>> /\ Head(buff) # None /\ buff' = Tail(buff)
    /\ gathered' = IF consumerPc = "get" THEN <<Head(buff)>> ELSE Append(gathered, Head(buff))
    /\ UNCHANGED <<callVars, data, recorded, closed, exitPc, mainPc, closeCalled, late>>

\* It finds None there.
TakesNone ==
    /\ consumerPc \in {"get", "drain"} /\ consumerPc' = "eos"
    /\ buff # <<>> /\ Head(buff) = None /\ buff' = Tail(buff)
    /\ UNCHANGED <<callVars, data, gathered, recorded, closed, exitPc, mainPc, closeCalled, late>>

\* What a step of the generator is.
LEMMA GeneratorKinds ==
    ASSUME Generator
    PROVE  \/ Takes \/ TakesNone
           \/ /\ GeneratorTests \/ GeneratorYields
              /\ UNCHANGED <<callVars, buff, recorded, closed, exitPc, mainPc, closeCalled, late>>
<1>1. CASE GeneratorTests \/ GeneratorYields
    BY <1>1 DEF Generator, GeneratorTests, GeneratorYields
<1>2. CASE GeneratorGets \/ GeneratorDrains
    BY <1>2 DEF Generator, GeneratorGets, GeneratorDrains, Takes, TakesNone, consumer
<1>3. QED
    BY <1>1, <1>2 DEF Generator

\* The chunk taken is the one behind those taken before.
LEMMA TakesNext ==
    ASSUME IInv, Takes
    PROVE  /\ Taken' = Taken + 1 /\ Tip' = Tip /\ Tip < Taken + 1
           /\ gathered' = Run(Tip + 1, Taken + 1) /\ gathered' \in Request
           /\ BuffInv'
<1> USE DEF IInv
<1>1. Listening /\ UNCHANGED <<sent, queued, recorded, exitPc>>
    BY DEF Takes, Listening, callVars
<1>2. /\ buff' \in Seq(Chunk \cup {None})
      /\ Len(buff') = Len(buff) - 1 /\ Len(buff) \in Nat
      /\ \A k \in 1 .. Len(buff) - 1 : buff'[k] = buff[k + 1]
      /\ Waiting > 0 /\ Head(buff) = Taken + 1
    BY <1>1, QueueHead, Types DEF Takes
<1>3. /\ Waiting \in Nat /\ Taken \in Nat /\ Taken = recorded - Waiting
      /\ recorded \in 0 .. MaxChunks + 1 /\ recorded \in Nat /\ Tip \in Nat
    BY <1>1, Split, Types DEF WireInv
<1>4. Waiting' = Waiting - 1
    BY <1>1, <1>2 DEF Waiting
<1>5. Taken' = Taken + 1
    BY <1>1, <1>3, <1>4 DEF Taken
<1>6. Tip' = Tip
    BY <1>1 DEF Tip
<1>7. gathered' = Run(Tip + 1, Taken + 1) /\ Tip <= Taken
    <2>1. CASE consumerPc = "get"
        <3>1. Taken = Tip
            BY <1>1, <2>1 DEF HandInv
        <3>2. gathered' = <<Taken + 1>>
            BY <1>2, <2>1 DEF Takes
        <3>3. Taken + 1 \in Nat
            BY <1>3
        <3>4. QED
            BY <1>3, <3>1, <3>2, <3>3, RunOne
    <2>2. CASE consumerPc = "drain"
        <3>1. Tip < Taken /\ gathered = Run(Tip + 1, Taken)
            BY <1>1, <2>2 DEF HandInv
        <3>2. gathered' = Append(gathered, Taken + 1)
            BY <1>2, <2>2 DEF Takes
        <3>3. Tip + 1 \in Nat /\ Tip + 1 <= Taken + 1
            BY <1>3, <3>1
        <3>4. Append(Run(Tip + 1, Taken), Taken + 1) = Run(Tip + 1, Taken + 1)
            BY <1>3, <3>3, RunMore
        <3>5. QED
            BY <1>3, <3>1, <3>2, <3>4
    <2>3. QED
        BY <2>1, <2>2 DEF Takes
<1>8. gathered' \in Request
    <2>1. /\ Tip + 1 \in Chunk /\ Taken + 1 \in Nat
          /\ (Taken + 1) - (Tip + 1) + 1 \in 0 .. MaxChunks + 1
        BY <1>2, <1>3, <1>7, PyMicStreamingAssumption DEF Chunk
    <2>2. QED
        BY <1>7, <2>1, RunIsRequest
<1>9. BuffInv'
    <2>1. Waiting' \in 0 .. recorded'
        BY <1>1, <1>2, <1>3, <1>4
    <2>2. ASSUME NEW k \in 1 .. Waiting - 1
          PROVE  buff'[k] = Taken + 1 + k
        <3>1. k + 1 \in 1 .. Waiting /\ k \in 1 .. Len(buff) - 1
            BY <1>2, <1>3, <2>2 DEF Waiting
        <3>2. buff'[k] = buff[k + 1] /\ buff[k + 1] = Taken + (k + 1)
            BY <1>1, <1>2, <3>1 DEF BuffInv
        <3>3. QED
            BY <1>3, <3>2
    <2>3. ASSUME exitPc = "signalled"
          PROVE  buff'[Len(buff')] = None
        <3>1. Len(buff) - 1 \in 1 .. Len(buff) - 1
            BY <1>2, <2>3 DEF Waiting
        <3>2. buff'[Len(buff')] = buff[(Len(buff) - 1) + 1]
            BY <1>2, <3>1
        <3>3. QED
            BY <1>1, <1>2, <2>3, <3>2 DEF BuffInv
    <2>4. QED
        BY <1>1, <1>4, <1>5, <2>1, <2>2, <2>3 DEF BuffInv
<1>10. QED
    BY <1>3, <1>5, <1>6, <1>7, <1>8, <1>9

\* No other step takes a chunk out of the queue.
LEMMA QueueStable ==
    ASSUME IInv, Listening, Device \/ UNCHANGED <<buff, recorded, exitPc>>
    PROVE  /\ Taken' = Taken /\ recorded' \in Nat /\ recorded' >= recorded
           /\ BuffInv'
<1> USE DEF IInv
<1>1. /\ Waiting \in Nat /\ Taken \in Nat /\ Taken = recorded - Waiting /\ Waiting <= recorded
      /\ recorded \in 0 .. MaxChunks + 1 /\ recorded \in Nat /\ Len(buff) \in Nat
      /\ buff \in Seq(Chunk \cup {None})
    BY Split, Types DEF BuffInv
<1>2. CASE FillBuffer
    <2>1. /\ exitPc = "open" /\ exitPc' = "open"
          /\ recorded' = recorded + 1 /\ buff' = Append(buff, recorded + 1)
          /\ recorded <= MaxChunks
        BY <1>1, <1>2, PyMicStreamingAssumption DEF FillBuffer
    <2>2. recorded + 1 \in Chunk \cup {None}
        BY <1>1, <2>1, PyMicStreamingAssumption DEF Chunk
    <2>3. /\ Len(buff') = Len(buff) + 1
          /\ \A k \in 1 .. Len(buff) : buff'[k] = buff[k]
          /\ buff'[Len(buff) + 1] = recorded + 1
        BY <1>1, <2>1, <2>2, AppendProperties
    <2>4. Waiting = Len(buff) /\ Waiting' = Len(buff) + 1
        BY <2>1, <2>3 DEF Waiting
    <2>5. Taken' = Taken
        BY <1>1, <2>1, <2>4 DEF Taken
    <2>6. ASSUME NEW k \in 1 .. Len(buff) + 1
          PROVE  buff'[k] = Taken + k
        <3>1. CASE k \in 1 .. Len(buff)
            BY <2>3, <2>4, <3>1 DEF BuffInv
        <3>2. CASE k = Len(buff) + 1
            BY <1>1, <2>3, <2>4, <3>2
        <3>3. QED
            BY <1>1, <2>6, <3>1, <3>2
    <2>7. Waiting' \in 0 .. recorded'
        BY <1>1, <2>1, <2>4
    <2>8. BuffInv'
        BY <2>1, <2>4, <2>5, <2>6, <2>7 DEF BuffInv
    <2>9. QED
        BY <1>1, <2>1, <2>5, <2>8
<1>3. CASE ExitSignals
    <2>1. /\ exitPc = "closed" /\ exitPc' = "signalled"
          /\ recorded' = recorded /\ buff' = Append(buff, None)
        BY <1>3 DEF ExitSignals
    <2>2. /\ Len(buff') = Len(buff) + 1
          /\ \A k \in 1 .. Len(buff) : buff'[k] = buff[k]
          /\ buff'[Len(buff) + 1] = None
        BY <1>1, <2>1, AppendProperties
    <2>3. Waiting = Len(buff) /\ Waiting' = Len(buff)
        BY <1>1, <2>1, <2>2 DEF Waiting
    <2>4. Taken' = Taken
        BY <1>1, <2>1, <2>3 DEF Taken
    <2>5. BuffInv'
        BY <1>1, <2>1, <2>2, <2>3, <2>4 DEF BuffInv
    <2>6. QED
        BY <1>1, <2>1, <2>4, <2>5
<1>4. CASE ExitStops \/ ExitCloses \/ UNCHANGED <<buff, recorded, exitPc>>
    <2>1. /\ UNCHANGED <<buff, recorded>>
          /\ exitPc' = exitPc \/ (exitPc # "signalled" /\ exitPc' # "signalled")
        BY <1>4 DEF ExitStops, ExitCloses
    <2>2. Waiting' = Waiting
        BY <2>1 DEF Waiting
    <2>3. Taken' = Taken
        BY <2>1, <2>2 DEF Taken
    <2>4. BuffInv'
        BY <2>1, <2>2, <2>3 DEF BuffInv
    <2>5. QED
        BY <1>1, <2>1, <2>3, <2>4
<1>5. QED
    BY <1>2, <1>3, <1>4 DEF Device

\* A generator that ended does not come back.
LEMMA StopsForGood ==
    ASSUME IInv, [Next]_vars, Listening'
    PROVE  Listening
<1>1. CASE Generator
    BY <1>1, StepKinds DEF GeneratorStep, Listening
<1>2. CASE Closes \/ Device
    BY <1>2, StepKinds DEF Closes, CallsClose, Listening, recognizerVars
<1>3. CASE PlainStep
    <2>1. Flushes \/ Starts \/ Sends \/ IsSent \/ GivesUp \/ EndsAudio \/ Quiet
        BY <1>3, RequestSteps, Types DEF IInv
    <2>2. QED
        BY <2>1 DEF Flushes, Starts, Sends, IsSent, GivesUp, EndsAudio, Quiet, consumer, Listening
<1>4. QED
    BY <1>1, <1>2, <1>3, StepKinds

\* The steps, by what they do to the queue.
LEMMA QueueStep ==
    ASSUME IInv, [Next]_vars, Listening'
    PROVE  /\ BuffInv'
           /\ Listening
           /\ Takes \/ (~Takes /\ Taken' = Taken /\ recorded' \in Nat /\ recorded' >= recorded)
<1>1. Listening
    BY StopsForGood
<1>2. CASE Takes
    BY <1>1, <1>2, TakesNext
<1>3. CASE ~Takes
    <2>1. ~TakesNone
        BY DEF TakesNone, Listening
    <2>2. Device \/ UNCHANGED <<buff, recorded, exitPc>>
        BY <1>3, <2>1, StepKinds, GeneratorKinds DEF Closes, sourceVars
    <2>3. QED
        BY <1>1, <1>3, <2>2, QueueStable
<1>4. QED
    BY <1>2, <1>3

-----------------------------------------------------------------------------
\* The type invariant: what the generator gathers is a run of chunks.
LEMMA TypeStep ==
    ASSUME IInv, [Next]_vars
    PROVE  TypeOK'
<1> USE PyMicStreamingAssumption DEF IInv
<1>1. /\ RecognizerTypeOK(Request, GeneratorPc)
      /\ buff \in Seq(Chunk \cup {None}) /\ closed \in BOOLEAN
      /\ recorded \in 0 .. MaxChunks + 1 /\ gathered \in Request
      /\ exitPc \in {"open", "stopped", "closed", "signalled"}
    BY DEF TypeOK
<1>2. Config \in Request
    BY ConfigIsRequest
<1>3. CASE PlainStep /\ UNCHANGED sourceVars
    <2>1. RecognizerTypeOK(Request, GeneratorPc)'
        BY <1>1, <1>2, <1>3, RecognizerTypes DEF RecognizerStep
    <2>2. QED
        BY <1>1, <1>3, <2>1 DEF TypeOK, sourceVars
<1>4. CASE Closes
    <2>1. RecognizerTypeOK(Request, GeneratorPc)'
        BY <1>1, <1>2, <1>4, StepKinds, RecognizerTypes
    <2>2. QED
        BY <1>1, <1>4, <2>1 DEF Closes, TypeOK
<1>5. CASE Device
    <2>1. RecognizerTypeOK(Request, GeneratorPc)'
        BY <1>1, <1>2, <1>5, StepKinds, RecognizerTypes DEF RecognizerStep
    <2>2. CASE FillBuffer
        <3>1. recorded + 1 \in Chunk /\ buff' = Append(buff, recorded + 1) /\ recorded' = recorded + 1
            BY <1>1, <2>2 DEF FillBuffer, Chunk
        <3>2. buff' \in Seq(Chunk \cup {None})
            BY <1>1, <3>1, AppendProperties
        <3>3. recorded' \in 0 .. MaxChunks + 1
            BY <3>1 DEF Chunk
        <3>4. QED
            BY <1>1, <2>1, <2>2, <3>2, <3>3 DEF FillBuffer, TypeOK
    <2>3. CASE ExitSignals
        <3>1. buff' \in Seq(Chunk \cup {None})
            BY <1>1, <2>3, AppendProperties DEF ExitSignals
        <3>2. QED
            BY <1>1, <2>1, <2>3, <3>1 DEF ExitSignals, TypeOK
    <2>4. CASE ExitStops \/ ExitCloses
        BY <1>1, <2>1, <2>4 DEF ExitStops, ExitCloses, TypeOK
    <2>5. QED
        BY <1>5, <2>2, <2>3, <2>4 DEF Device
<1>6. CASE Generator
    <2>1. /\ consumerPc' \in RecognizerPc \cup GeneratorPc
          /\ data' \in Request /\ gathered' \in Request
          /\ buff' \in Seq(Chunk \cup {None})
          /\ UNCHANGED <<closed, recorded, exitPc>>
        <3>1. data \in Request /\ UNCHANGED <<closed, recorded, exitPc>>
            BY <1>1, <1>6 DEF RecognizerTypeOK, Generator
        <3>2. CASE Takes \/ TakesNone
            <4>1. /\ Listening /\ buff # <<>> /\ buff' = Tail(buff) /\ data' = data
                  /\ consumerPc' \in {"drain", "eos"}
                BY <3>2 DEF Takes, TakesNone, Listening
            <4>2. buff' \in Seq(Chunk \cup {None})
                BY <4>1, QueueHead
            <4>3. gathered' \in Request
                BY <1>1, <3>2, TakesNext DEF TakesNone
            <4>4. QED
                BY <3>1, <4>1, <4>2, <4>3 DEF RecognizerPc, GeneratorPc
        <3>3. CASE GeneratorTests
            BY <1>1, <3>1, <3>3 DEF GeneratorTests, RecognizerPc, GeneratorPc
        <3>4. CASE GeneratorYields
            BY <1>1, <1>2, <3>1, <3>4 DEF GeneratorYields, consumer, RecognizerPc, Config
        <3>5. QED
            BY <1>6, <3>2, <3>3, <3>4, GeneratorKinds
    <2>2. RecognizerTypeOK(Request, GeneratorPc)'
        BY <1>1, <1>2, <1>6, <2>1, StepKinds, RecognizerTypes
    <2>3. QED
        BY <1>1, <2>1, <2>2 DEF TypeOK
<1>7. QED
    BY <1>3, <1>4, <1>5, <1>6, StepKinds

\* A request goes onto the wire behind the others, and begins where they end.
LEMMA FlushWire ==
    ASSUME IInv, Flushes, recorded' = recorded
    PROVE  WireInv' /\ Tip' = Taken
<1> USE DEF IInv
<1>1. /\ Len(sent) \in Nat /\ Len(sent') = Len(sent) + 1
      /\ \A k \in 1 .. Len(sent) : sent'[k] = sent[k]
      /\ sent'[Len(sent) + 1] = data
      /\ queued # <<>> /\ Listening
    BY Types DEF Flushes, Listening
<1>2. /\ Taken \in Nat /\ Taken \in 0 .. recorded /\ recorded \in Nat
      /\ Tip \in Nat /\ Len(sent) <= 1 + Tip
    BY <1>1, Split, Types DEF WireInv
<1>3. CASE data = Config /\ Taken = 0
    <2>1. Len(sent) = 0 /\ Len(sent') = 1
        BY <1>1, <1>3 DEF FlightInv
    <2>2. Tip' = 0
        BY <2>1 DEF Tip
    <2>3. QED
        BY <1>2, <1>3, <2>1, <2>2 DEF WireInv, ChunksInOrder
<1>4. CASE Tip < Taken /\ data = Run(Tip + 1, Taken)
    <2>1. /\ Len(data) = Taken - Tip /\ data # <<>>
          /\ \A n \in 1 .. Taken - Tip : data[n] = Tip + n
        <3>1. Tip + 1 \in Nat /\ Tip + 1 <= Taken + 1 /\ Tip + 1 # Taken + 1
            BY <1>2, <1>4
        <3>2. Len(data) = Taken - (Tip + 1) + 1 /\ data # <<>>
            BY <1>2, <1>4, <3>1, RunProperties
        <3>3. \A n \in 1 .. Taken - Tip : data[n] = Tip + n
            BY <1>2, <1>4 DEF Run
        <3>4. QED
            BY <1>2, <3>2, <3>3
    <2>2. Len(sent) > 0
        BY <1>1, <2>1 DEF FlightInv, Config
    <2>3. Last(data) = Taken
        BY <1>2, <1>4, <2>1 DEF Last
    <2>4. Tip' = Taken
        <3>1. Tip' = Last(data)
            BY <1>1, <2>2 DEF Tip
        <3>2. QED
            BY <2>3, <3>1
    <2>5. ASSUME NEW k \in 2 .. Len(sent) + 1
          PROVE  /\ sent'[k] # <<>>
                 /\ \A n \in 2 .. Len(sent'[k]) : sent'[k][n] = sent'[k][n - 1] + 1
                 /\ sent'[k][1] = IF k = 2 THEN 1 ELSE Last(sent'[k - 1]) + 1
        <3>1. CASE k \in 2 .. Len(sent)
            <4>1. sent'[k] = sent[k] /\ sent'[k - 1] = sent[k - 1]
                BY <1>1, <3>1
            <4>2. QED
                BY <3>1, <4>1 DEF WireInv, ChunksInOrder
        <3>2. CASE k = Len(sent) + 1
            <4>1. sent'[k] = data /\ sent'[k - 1] = sent[Len(sent)]
                BY <1>1, <2>2, <3>2
            <4>2. \A n \in 2 .. Len(data) : data[n] = data[n - 1] + 1
                BY <1>2, <2>1
            <4>3. data[1] = Tip + 1
                BY <1>2, <1>4, <2>1
            <4>4. Tip = IF k = 2 THEN 0 ELSE Last(sent'[k - 1])
                BY <1>1, <2>2, <3>2, <4>1 DEF Tip
            <4>5. QED
                BY <2>1, <4>1, <4>2, <4>3, <4>4
        <3>3. QED
            BY <1>1, <2>5, <3>1, <3>2
    <2>6. ASSUME NEW c \in 1 .. Taken
          PROVE  \E k \in 1 .. Len(sent) + 1 : c \in Elems(sent'[k])
        <3>1. CASE c \in 1 .. Tip
            <4>1. PICK k \in 1 .. Len(sent) : c \in Elems(sent[k])
                BY <3>1 DEF WireInv
            <4>2. QED
                BY <1>1, <4>1
        <3>2. CASE c > Tip
            <4>1. c - Tip \in 1 .. Len(data) /\ data[c - Tip] = c
                BY <1>2, <2>1, <2>6, <3>2
            <4>2. c \in Elems(data)
                BY <4>1 DEF Elems
            <4>3. QED
                BY <1>1, <4>2
        <3>3. QED
            BY <1>2, <2>6, <3>1, <3>2
    <2>7. QED
        BY <1>1, <1>2, <1>4, <2>4, <2>5, <2>6 DEF WireInv, ChunksInOrder
<1>5. QED
    BY <1>1, <1>3, <1>4 DEF HandInv

\* The wire changes when a request goes out, and only then.
LEMMA WireStep ==
    ASSUME IInv, [Next]_vars
    PROVE  WireInv'
<1> USE DEF IInv
<1>1. CASE Flushes /\ UNCHANGED sourceVars
    BY <1>1, FlushWire DEF sourceVars
<1>2. CASE sent' = sent
    <2>1. recorded' \in Nat /\ recorded' >= recorded
        <3>1. CASE FillBuffer
            BY <3>1, Types DEF FillBuffer
        <3>2. CASE ~FillBuffer
            <4>1. recorded' = recorded
                BY <3>2, StepKinds DEF Closes, Generator, Device, ExitStops, ExitCloses,
                    ExitSignals, sourceVars
            <4>2. QED
                BY <4>1, Types
        <3>3. QED
            BY <3>1, <3>2
    <2>2. Tip' = Tip /\ recorded \in Nat
        BY <1>2, Types DEF Tip
    <2>3. Tip \in 0 .. recorded'
        BY <2>1, <2>2 DEF WireInv
    <2>4. QED
        BY <1>2, <2>2, <2>3 DEF WireInv, ChunksInOrder
<1>3. sent' = sent \/ (Flushes /\ UNCHANGED sourceVars)
    <2>1. CASE PlainStep /\ UNCHANGED sourceVars
        <3>1. Flushes \/ Starts \/ Sends \/ IsSent \/ GivesUp \/ EndsAudio \/ Quiet
            BY <2>1, RequestSteps, Types
        <3>2. QED
            BY <2>1, <3>1 DEF Starts, Sends, IsSent, GivesUp, EndsAudio, Quiet
    <2>2. CASE Closes \/ Generator \/ Device
        BY <2>2, StepKinds DEF Closes, CallsClose, Generator, callVars
    <2>3. QED
        BY <2>1, <2>2, StepKinds
<1>4. QED
    BY <1>1, <1>2, <1>3

\* The generator's hand and the request in flight carry on where the wire ends.
LEMMA HandStep ==
    ASSUME IInv, [Next]_vars
    PROVE  HandInv'
<1> USE DEF IInv
<1> SUFFICES ASSUME Listening'
             PROVE  HandInv'
    BY DEF HandInv
<1>1. /\ Listening
      /\ Takes \/ (~Takes /\ Taken' = Taken)
    BY QueueStep
<1>2. CASE Takes
    <2>1. /\ Tip' < Taken' /\ gathered' = Run(Tip' + 1, Taken')
        BY <1>2, TakesNext
    <2>2. consumerPc' = "drain" /\ queued' = <<>>
        BY <1>2 DEF Takes, FlightInv, callVars
    <2>3. QED
        BY <2>1, <2>2 DEF HandInv
<1>3. CASE ~Takes /\ Generator
    <2>1. /\ GeneratorTests \/ GeneratorYields
          /\ UNCHANGED <<callVars, buff, recorded>>
          /\ Taken' = Taken /\ queued = <<>>
        BY <1>1, <1>3, GeneratorKinds, StepKinds DEF TakesNone, Listening, GeneratorStep, FlightInv
    <2>2. Tip' = Tip /\ queued' = queued
        BY <2>1 DEF Tip, callVars
    <2>3. QED
        BY <1>1, <2>1, <2>2 DEF HandInv, GeneratorTests, GeneratorYields, consumer, Listening
<1>4. CASE Closes \/ Device
    <2>1. UNCHANGED <<sent, queued, consumerPc, data, gathered>> /\ Taken' = Taken
        BY <1>1, <1>4, StepKinds DEF Takes, Closes, CallsClose, Device, FillBuffer, ExitStops,
            ExitCloses, ExitSignals, callVars, recognizerVars
    <2>2. Tip' = Tip
        BY <2>1 DEF Tip
    <2>3. QED
        BY <1>1, <2>1, <2>2 DEF HandInv
<1>5. CASE PlainStep /\ UNCHANGED sourceVars
    <2>1. Flushes \/ Starts \/ Sends \/ IsSent \/ GivesUp \/ EndsAudio \/ Quiet
        BY <1>5, RequestSteps, Types
    <2>2. gathered' = gathered /\ Taken' = Taken
        BY <1>5 DEF sourceVars, Taken, Waiting
    <2>3. CASE Flushes
        <3>1. Tip' = Taken /\ consumerPc' = "sending" /\ queued' = <<>>
            BY <1>5, <2>3, FlushWire DEF Flushes, sourceVars
        <3>2. QED
            BY <2>2, <3>1 DEF HandInv
    <2>4. CASE Starts \/ Sends \/ IsSent \/ Quiet
        <3>1. sent' = sent
            BY <2>4 DEF Starts, Sends, IsSent, Quiet
        <3>2. Tip' = Tip
            BY <3>1 DEF Tip
        <3>3. QED
            BY <1>1, <2>2, <2>4, <3>2 DEF HandInv, Starts, Sends, IsSent, Quiet, consumer, FlightInv
    <2>5. ~GivesUp /\ ~EndsAudio
        BY DEF GivesUp, EndsAudio, consumer, Listening
    <2>6. QED
        BY <2>1, <2>3, <2>4, <2>5
<1>6. QED
    BY <1>1, <1>2, <1>3, <1>4, <1>5, StepKinds

\* The generator lets one request through after close().
LEMMA LateStep ==
    ASSUME IInv, [Next]_vars
    PROVE  LateInv'
<1> USE DEF IInv
<1>1. late \in Nat
    BY Types
<1>2. CASE Closes
    BY <1>2 DEF Closes, CallsClose, LateInv
<1>3. CASE Device
    BY <1>3, StepKinds DEF LateInv, recognizerVars
<1>4. CASE Generator
    <2>1. UNCHANGED <<closeCalled, late>>
        BY <1>4 DEF Generator
    <2>2. late = 1 => closed /\ consumerPc # "get" /\ consumerPc # "drain"
        BY DEF LateInv, EndInv
    <2>3. QED
        BY <1>4, <2>1, <2>2 DEF LateInv, Generator, GeneratorTests, GeneratorGets,
            GeneratorDrains, GeneratorYields, consumer
<1>5. CASE PlainStep
    <2>1. Flushes \/ Starts \/ Sends \/ IsSent \/ GivesUp \/ EndsAudio \/ Quiet
        BY <1>5, RequestSteps, Types
    <2>2. QED
        BY <1>1, <2>1 DEF Flushes, Starts, Sends, IsSent, GivesUp, EndsAudio, Quiet,
            consumer, LateInv
<1>6. QED
    BY <1>2, <1>3, <1>4, <1>5, StepKinds

\* The generator ends, and the flag is set, for a reason.
LEMMA EndStep ==
    ASSUME IInv, [Next]_vars
    PROVE  EndInv'
<1> USE DEF IInv
<1>1. /\ StopRead => StopRead'
      /\ CallOver => CallOver'
    BY StepKinds, ReadStable, Types DEF RecognizerStep
<1>2. Returned => CallOver
    BY DEF AnswerInv, ResponsesOver
<1>3. Returned => Returned'
    <2>1. CASE Generator
        BY <2>1 DEF Generator, Returned
    <2>2. CASE Device
        BY <2>2, StepKinds DEF recognizerVars, Returned
    <2>3. CASE Closes \/ PlainStep
        BY <2>3 DEF Closes, CallsClose, PlainStep, Consumer, InitialRequest, ConsumerSends,
            ConsumerSent, ConsumerEnds, Main, ReadsResult, ReadsStop, ReadsEnd,
            Outside, recognizerVars, main, Returned
    <2>4. QED
        BY <2>1, <2>2, <2>3, StepKinds
<1>4. CASE Closes
    BY <1>1, <1>3, <1>4 DEF Closes, CallsClose, main, AnswerInv, EndInv, Listening
<1>5. CASE Device
    <2>1. UNCHANGED recognizerVars
        BY <1>5, StepKinds
    <2>2. QED
        BY <1>1, <1>2, <1>3, <1>5, <2>1 DEF Device, FillBuffer, ExitStops, ExitCloses,
            ExitSignals, EndInv, Listening, recognizerVars
<1>6. CASE Generator
    <2>1. UNCHANGED <<closed, closeCalled, exitPc>>
        BY <1>6 DEF Generator
    <2>2. ~Listening' => closed \/ CallOver
        <3>1. CASE TakesNone
            <4>1. Listening /\ buff # <<>> /\ Head(buff) = None
                BY <3>1 DEF TakesNone, Listening
            <4>2. exitPc = "signalled"
                BY <4>1, QueueHead
            <4>3. QED
                BY <1>2, <4>2 DEF EndInv
        <3>2. CASE Takes \/ GeneratorTests \/ GeneratorYields
            BY <3>2 DEF Takes, GeneratorTests, GeneratorYields, consumer, Listening
        <3>3. QED
            BY <1>6, <3>1, <3>2, GeneratorKinds
    <2>3. QED
        BY <1>1, <1>3, <2>1, <2>2 DEF EndInv
<1>7. CASE PlainStep /\ UNCHANGED sourceVars
    <2>1. Flushes \/ Starts \/ Sends \/ IsSent \/ GivesUp \/ EndsAudio \/ Quiet
        BY <1>7, RequestSteps, Types
    <2>2. UNCHANGED <<closed, exitPc, closeCalled>>
        BY <1>7, <2>1 DEF Flushes, Starts, Sends, IsSent, GivesUp, EndsAudio, Quiet, sourceVars
    <2>3. ~Listening' => closed \/ CallOver
        BY <2>1 DEF Flushes, Starts, Sends, IsSent, GivesUp, EndsAudio, Quiet, consumer,
            EndInv, Listening
    <2>4. QED
        BY <1>1, <1>3, <2>2, <2>3 DEF EndInv
<1>8. QED
    BY <1>4, <1>5, <1>6, <1>7, StepKinds

-----------------------------------------------------------------------------
\* IInv holds throughout every behaviour.
THEOREM Invariance == Spec => []IInv
<1> USE PyMicStreamingAssumption
<1>1. Init => IInv
    <2> SUFFICES ASSUME Init PROVE IInv
        OBVIOUS
    <2>1. RecognizerTypeOK(Request, GeneratorPc) /\ FlightInv /\ AnswerInv
        BY ConfigIsRequest, RecognizerStart DEF Init
    <2>2. /\ consumerPc = "config" /\ queued = <<>> /\ sent = <<>>
          /\ ~closeCalled /\ late = 0
          /\ buff = <<>> /\ closed = FALSE /\ recorded = 0 /\ gathered = <<>> /\ exitPc = "open"
        BY DEF Init, RecognizerInit, CallInit
    <2>3. Len(sent) = 0 /\ Len(buff) = 0 /\ buff \in Seq(Chunk \cup {None})
        BY <2>2, EmptySeq
    <2>4. TypeOK
        <3>1. gathered \in Request
            BY <2>2, ConfigIsRequest DEF Config
        <3>2. recorded \in 0 .. MaxChunks + 1
            BY <2>2
        <3>3. closed \in BOOLEAN
            BY DEF Init
        <3>4. QED
            BY <2>1, <2>2, <2>3, <3>1, <3>2, <3>3 DEF TypeOK
    <2>5. Waiting = 0 /\ Taken = 0 /\ Tip = 0
        <3>1. Waiting = 0
            BY <2>2, <2>3 DEF Waiting
        <3>2. Taken = 0
            BY <2>2, <3>1 DEF Taken
        <3>3. Tip = 0
            BY <2>3 DEF Tip
        <3>4. QED
            BY <3>1, <3>2, <3>3
    <2>6. BuffInv /\ HandInv
        BY <2>2, <2>5 DEF BuffInv, HandInv
    <2>7. WireInv
        BY <2>2, <2>3, <2>5 DEF WireInv, ChunksInOrder
    <2>8. EndInv /\ LateInv
        BY <2>2 DEF EndInv, LateInv, Listening
    <2>9. QED
        BY <2>1, <2>4, <2>6, <2>7, <2>8 DEF IInv
<1>2. IInv /\ [Next]_vars => IInv'
    <2> SUFFICES ASSUME IInv, [Next]_vars PROVE IInv'
        OBVIOUS
    <2>1. RecognizerTypeOK(Request, GeneratorPc) /\ CallTypeOK(Request)
        BY Types DEF IInv, TypeOK
    <2>2. RecognizerStep \/ GeneratorStep
        BY StepKinds DEF RecognizerStep
    <2>3. FlightInv'
        BY <2>1, <2>2, FlightStep DEF IInv
    <2>4. AnswerInv'
        BY <2>1, <2>2, AnswerStep DEF IInv
    <2>5. BuffInv'
        <3>1. CASE Listening'
            BY <3>1, QueueStep
        <3>2. CASE ~Listening'
            BY <3>2 DEF BuffInv
        <3>3. QED
            BY <3>1, <3>2
    <2>6. TypeOK' /\ HandInv' /\ WireInv' /\ EndInv' /\ LateInv'
        BY TypeStep, HandStep, WireStep, EndStep, LateStep
    <2>7. QED
        BY <2>3, <2>4, <2>5, <2>6 DEF IInv
<1>3. QED
    BY <1>1, <1>2, PTL DEF Spec

-----------------------------------------------------------------------------
(***************************************************************************)
(* The properties of PyMicStreaming.                                       *)
(***************************************************************************)

\* The generator joins nothing but runs of consecutive chunks, and None is in
\* none of them.
THEOREM TypeCorrect == Spec => []TypeOK
BY Invariance, PTL DEF IInv

\* However the draining of the queue cuts the recording into requests, the
\* chunks go out as they were recorded, none missing and none repeated.
THEOREM InOrder == Spec => []ChunksInOrder
<1>1. IInv => ChunksInOrder
    BY DEF IInv, WireInv
<1>2. QED
    BY <1>1, Invariance, PTL

\* Until close() or the end of the call no chunk is dropped: what is neither on
\* the wire nor in the generator's hand nor gRPC's is in the queue.
THEOREM NothingDropped == Spec => []NoChunkLost
<1>1. IInv => NoChunkLost
    <2> SUFFICES ASSUME IInv, ~closed, ~CallOver, NEW c \in 1 .. recorded
                 PROVE  c \in Somewhere
        BY DEF NoChunkLost
    <2>1. Listening /\ exitPc # "signalled"
        BY DEF IInv, EndInv, AnswerInv, ResponsesOver
    <2>2. /\ Taken \in Nat /\ Tip \in Nat /\ recorded \in Nat
          /\ Waiting = Len(buff) /\ Taken = recorded - Waiting /\ Waiting \in Nat
        BY <2>1, Split, Types DEF IInv, WireInv, Waiting
    <2>3. CASE c <= Tip
        <3>1. c \in 1 .. Tip
            BY <2>2, <2>3
        <3>2. PICK k \in 1 .. Len(sent) : c \in Elems(sent[k])
            BY <3>1 DEF IInv, WireInv
        <3>3. QED
            BY <3>2 DEF Somewhere
    <2>4. CASE Tip < c /\ c <= Taken
        <3>1. ASSUME NEW s, s = Run(Tip + 1, Taken)
              PROVE  c \in Elems(s)
            <4>1. Len(Run(Tip + 1, Taken)) = Taken - (Tip + 1) + 1
                <5>1. Tip + 1 \in Nat /\ Tip + 1 <= Taken + 1
                    BY <2>2, <2>4
                <5>2. QED
                    BY <2>2, <5>1, RunProperties
            <4>2. c - Tip \in 1 .. Taken - (Tip + 1) + 1
                BY <2>2, <2>4
            <4>3. s[c - Tip] = Tip + 1 + (c - Tip) - 1
                BY <3>1, <4>2 DEF Run
            <4>4. c - Tip \in 1 .. Len(s) /\ s[c - Tip] = c
                BY <2>2, <3>1, <4>1, <4>2, <4>3
            <4>5. QED
                BY <4>4 DEF Elems
        <3>2. CASE consumerPc = "drain"
            <4>1. c \in Elems(gathered)
                BY <2>1, <3>1, <3>2 DEF IInv, HandInv
            <4>2. QED
                BY <4>1 DEF Somewhere
        <3>3. CASE consumerPc = "send" \/ queued # <<>>
            <4>1. data = Run(Tip + 1, Taken)
                BY <2>1, <2>2, <2>4, <3>3 DEF IInv, HandInv
            <4>2. c \in Elems(data)
                BY <3>1, <4>1
            <4>3. consumerPc = "send" \/ queued = <<data>>
                BY <3>3 DEF IInv, FlightInv
            <4>4. CASE consumerPc = "send"
                BY <4>2, <4>4 DEF Somewhere, InHand
            <4>5. CASE queued = <<data>>
                <5>1. c \in UNION {Elems(queued[k]) : k \in 1 .. Len(queued)}
                    BY <4>2, <4>5
                <5>2. QED
                    BY <5>1 DEF Somewhere
            <4>6. QED
                BY <4>3, <4>4, <4>5
        <3>4. CASE consumerPc \notin {"drain", "send"} /\ queued = <<>>
            <4>1. Taken = Tip \/ Taken = 0
                <5>1. consumerPc \in RecognizerPc \cup GeneratorPc
                    BY DEF IInv, TypeOK, RecognizerTypeOK
                <5>2. consumerPc # "done" /\ consumerPc # "eos"
                    BY <2>1 DEF Listening
                <5>3. QED
                    BY <2>1, <3>4, <5>1, <5>2 DEF IInv, HandInv, RecognizerPc, GeneratorPc
            <4>2. QED
                BY <2>2, <2>4, <4>1
        <3>5. QED
            BY <3>2, <3>3, <3>4
    <2>5. CASE c > Taken
        <3>1. c - Taken \in 1 .. Len(buff)
            BY <2>2, <2>5
        <3>2. buff[c - Taken] = Taken + (c - Taken)
            BY <2>1, <2>2, <3>1 DEF IInv, BuffInv
        <3>3. c \in Elems(buff)
            BY <2>2, <3>1, <3>2 DEF Elems
        <3>4. QED
            BY <3>3 DEF Somewhere
    <2>6. QED
        BY <2>2, <2>3, <2>4, <2>5
<1>2. QED
    BY <1>1, Invariance, PTL

\* At most the request that is being gathered follows the flag of close().
THEOREM AtMostOneLate == Spec => []CloseTakesEffect
<1>1. IInv => CloseTakesEffect
    BY DEF IInv, LateInv, CloseTakesEffect
<1>2. QED
    BY <1>1, Invariance, PTL

\* recognize returns the results of every response that arrived, each once and
\* in order.
THEOREM AnswersWhole == Spec => []ResultsComplete
<1>1. IInv => ResultsComplete
    BY AnswerComplete DEF IInv, TypeOK
<1>2. QED
    BY <1>1, Invariance, PTL

-----------------------------------------------------------------------------
(***************************************************************************)
(* The refinement: what the caller and the service see of recognize.       *)
(***************************************************************************)

\* The bound of the session, which stands for a recording without an end, is
\* not reached; the half-close needs a stop response.
LEMMA WireBounds ==
    ASSUME IInv
    PROVE  /\ Len(sent) < MaxChunks + 3
           /\ half # "open" /\ ~CallOver => StopRead
<1> USE DEF IInv
<1>1. /\ Len(sent) \in Nat /\ Tip \in 0 .. recorded /\ Len(sent) <= 1 + Tip
      /\ recorded \in 0 .. MaxChunks + 1
    BY Types DEF WireInv, TypeOK
<1> HIDE DEF Tip
<1>2. Len(sent) < MaxChunks + 3
    BY <1>1, PyMicStreamingAssumption
<1>3. half # "open" /\ ~CallOver => StopRead
    BY DEF FlightInv, EndInv, Listening
<1>4. QED
    BY <1>2, <1>3

\* Every step of the client and of its environment is one of the session, or
\* is not seen.
LEMMA SessionStep ==
    ASSUME IInv, [Next]_vars
    PROVE  [Session!SessionNext]_(Session!sessionVars)
<1> USE DEF Session!sessionVars, Session!SessionNext
<1>1. Unseen \/ Delivers \/ HalfCloses \/ Arrives \/ Looks \/ Ends \/ Answers
    <2>1. RecognizerStep \/ GeneratorStep
        BY StepKinds DEF RecognizerStep
    <2>2. RecognizerTypeOK(Request, GeneratorPc)
        BY DEF IInv, TypeOK
    <2>3. QED
        BY <2>1, <2>2, VisibleStep DEF IInv
<1>2. CASE Unseen
    BY <1>2 DEF Unseen, CallOver
<1>3. CASE Delivers
    <2>1. Session!Deliver
        BY <1>3, WireBounds DEF Delivers, Session!Deliver, CallOver
    <2>2. QED
        BY <2>1
<1>4. CASE HalfCloses
    <2>1. Session!AskedToStop
        BY <1>4, WireBounds DEF HalfCloses, StopRead, Session!AskedToStop
    <2>2. Session!HalfClose
        BY <1>4, <2>1 DEF HalfCloses, Session!HalfClose, CallOver
    <2>3. QED
        BY <2>2
<1>5. CASE Arrives
    <2>1. PICK kind \in ResponseKind : inbound' = Append(inbound, kind)
        BY <1>5 DEF Arrives
    <2>2. Session!Arrive(kind)
        BY <1>5, <2>1 DEF Arrives, Session!Arrive, CallOver
    <2>3. QED
        BY <2>2
<1>6. CASE Looks
    <2>1. Session!Look
        BY <1>6 DEF Looks, Session!Look, CallOver
    <2>2. QED
        BY <2>1
<1>7. CASE Ends
    <2>1. Session!End
        BY <1>7 DEF Ends, Session!End
    <2>2. QED
        BY <2>1
<1>8. CASE Answers
    <2>1. Session!Answer
        BY <1>8 DEF Answers, Session!Answer, Session!Kept, Kept, ResponsesOver, CallOver
    <2>2. QED
        BY <2>1
<1>9. QED
    BY <1>1, <1>2, <1>3, <1>4, <1>5, <1>6, <1>7, <1>8

\* Three threads, queue, flag and gRPC included, recognize over a microphone
\* does what StreamingSession allows and no more.
THEOREM Implementation == Spec => ImplementsSession
<1>1. Init => Session!SessionInit
    BY EmptySeq DEF Init, RecognizerInit, CallInit, Session!SessionInit, CallOver, Answer
<1>2. QED
    BY <1>1, SessionStep, Invariance, PTL
    DEF Spec, ImplementsSession, Session!SessionSpec
===============================================================================
