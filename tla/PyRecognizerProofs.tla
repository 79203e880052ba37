--------------------------- MODULE PyRecognizerProofs ---------------------------
(***************************************************************************)
(* What StreamingRecognizer.recognize (PyRecognizer) keeps whatever its    *)
(* audio source is: lemmas for the proofs about PyFileStreaming and        *)
(* PyMicStreaming, which say what their generators do.                     *)
(***************************************************************************)
EXTENDS PyRecognizer, SpeechCallProofs

\* A step of recognize around the generator, or of its environment, without and
\* with close().
PlainStep ==
    \/ Consumer \/ Main \/ Outside(Environment)
    \/ UNCHANGED <<callVars, recognizerVars>>

RecognizerStep == PlainStep \/ CallsClose

\* All that the lemmas ask of a step of a generator: it runs while the consumer
\* thread is in next(), and what it yields is audio.
GeneratorStep ==
    /\ consumerPc \notin {"config", "send", "sending", "eos", "done"}
    /\ consumerPc' \notin {"config", "sending", "done"}
    /\ consumerPc' = "send" => data' # Config
    /\ UNCHANGED <<callVars, mainPc, results, closeCalled, late>>

\* Which request is in gRPC's hands and which on the wire, for each position of
\* the consumer thread; the half-close is its last deed.
FlightInv ==
    /\ queued # <<>> => consumerPc = "sending" /\ queued = <<data>>
    /\ consumerPc = "sending" /\ queued = <<>> => Len(sent) > 0 /\ sent[Len(sent)] = data
    /\ consumerPc = "config" => Len(sent) = 0
    /\ consumerPc = "send" \/ queued # <<>> => (data = Config <=> Len(sent) = 0)
    /\ consumerPc \notin {"config", "send", "sending", "done"} => Len(sent) > 0
    /\ half # "open" => consumerPc = "done"
    /\ ConfigFirst

\* The results are those of the responses read so far, each once and in order;
\* close() has been called for a reason, and the loop ends with the responses.
AnswerInv ==
    /\ Returned => ResponsesOver
    /\ mainPc = "close" \/ closeCalled => StopRead
    /\ mainPc # "raised" =>
         /\ \A n \in 1 .. Len(results) :
               results[n] \in 1 .. got /\ inbound[results[n]] = "result"
         /\ \A k \in 1 .. got :
               inbound[k] = "result" => \E n \in 1 .. Len(results) : results[n] = k
         /\ \A m, n \in 1 .. Len(results) : m < n => results[m] < results[n]

-----------------------------------------------------------------------------
\* The type invariant, for a generator that builds requests.
LEMMA RecognizerTypes ==
    ASSUME NEW Request, NEW GeneratorPc, RecognizerTypeOK(Request, GeneratorPc),
           Config \in Request,
           \/ RecognizerStep
           \/ /\ GeneratorStep
              /\ consumerPc' \in RecognizerPc \cup GeneratorPc /\ data' \in Request
    PROVE  RecognizerTypeOK(Request, GeneratorPc)'
<1> USE DEF RecognizerTypeOK
<1>1. CallTypeOK(Request)'
    <2>1. CASE Outside(Environment)
        BY <2>1, EnvironmentStep DEF Outside
    <2>2. CASE ~Outside(Environment)
        <3>1. \/ StartWrite(data) \/ WriteFails \/ StartHalfClose \/ TakeResponse
              \/ UNCHANGED callVars
            BY <2>2 DEF RecognizerStep, PlainStep, GeneratorStep, Consumer, InitialRequest,
                ConsumerSends, ConsumerSent, SendingEnds, ConsumerEnds,
                Main, ReadsResult, ReadsStop, ReadsEnd, CallsClose
        <3>2. QED
            BY <3>1, ClientStepType
    <2>3. QED
        BY <2>1, <2>2
<1>2. results' \in Seq(Nat)
    <2>1. CASE ReadsResult
        <3>1. got + 1 \in Nat
            BY LenProperties DEF CallTypeOK
        <3>2. QED
            BY <2>1, <3>1, AppendProperties DEF ReadsResult
    <2>2. CASE ReadsEnd
        BY <2>2, EmptySeq DEF ReadsEnd
    <2>3. CASE UNCHANGED results
        BY <2>3
    <2>4. QED
        BY <2>1, <2>2, <2>3 DEF RecognizerStep, PlainStep, GeneratorStep, Consumer, InitialRequest,
            ConsumerSends, ConsumerSent, ConsumerEnds, Main, ReadsStop, CallsClose,
            Outside, recognizerVars
<1>3. /\ mainPc' \in MainPc /\ consumerPc' \in RecognizerPc \cup GeneratorPc
      /\ data' \in Request /\ closeCalled' \in BOOLEAN /\ late' \in Nat
    <2>1. CASE InitialRequest
        BY <2>1 DEF InitialRequest, consumer, RecognizerPc
    <2>2. CASE ConsumerSends
        BY <2>2 DEF ConsumerSends, consumer, RecognizerPc
    <2>3. CASE ConsumerSent \/ ConsumerEnds
        BY <2>3 DEF ConsumerSent, ConsumerEnds, consumer, RecognizerPc
    <2>4. CASE Main \/ CallsClose
        BY <2>4 DEF Main, ReadsResult, ReadsStop, ReadsEnd, CallsClose, main, MainPc
    <2>5. CASE UNCHANGED recognizerVars
        BY <2>5 DEF recognizerVars
    <2>6. CASE GeneratorStep /\ consumerPc' \in RecognizerPc \cup GeneratorPc /\ data' \in Request
        BY <2>6 DEF GeneratorStep
    <2>7. QED
        BY <2>1, <2>2, <2>3, <2>4, <2>5, <2>6 DEF RecognizerStep, PlainStep, Consumer, Outside
<1>4. QED
    BY <1>1, <1>2, <1>3

\* Where the request in flight is, and that the configuration goes first.
LEMMA FlightStep ==
    ASSUME NEW Request, CallTypeOK(Request), FlightInv,
           RecognizerStep \/ GeneratorStep
    PROVE  FlightInv'
<1>1. Len(sent) \in Nat
    BY LenProperties DEF CallTypeOK
<1>2. CASE InitialRequest
    BY <1>2 DEF FlightInv, ConfigFirst, InitialRequest, consumer, callVars
<1>3. CASE ConsumerSends
    <2>1. sent' = sent /\ half' = half /\ data' = data /\ consumerPc = "send"
        BY <1>3 DEF ConsumerSends, StartWrite, consumer, callVars
    <2>2. \/ consumerPc' = "sending" /\ queued' = <<data>>
          \/ consumerPc' = "done" /\ queued' = <<>>
        BY <1>3 DEF FlightInv, ConsumerSends, StartWrite, consumer, callVars
    <2>3. half = "open"
        BY <2>1 DEF FlightInv
    <2>4. QED
        BY <2>1, <2>2, <2>3 DEF FlightInv, ConfigFirst
<1>4. CASE ConsumerSent
    <2>1. sent' = sent /\ half' = half /\ data' = data /\ consumerPc = "sending"
        BY <1>4 DEF ConsumerSent, SendingEnds, WriteFails, consumer, callVars
    <2>2. /\ queued' = <<>>
          /\ \/ consumerPc' = "next" /\ queued = <<>>
             \/ consumerPc' = "done"
        BY <1>4 DEF ConsumerSent, SendingEnds, WriteFails, WriteDone, consumer, callVars
    <2>3. half = "open"
        BY <2>1 DEF FlightInv
    <2>4. QED
        BY <2>1, <2>2, <2>3 DEF FlightInv, ConfigFirst
<1>5. CASE ConsumerEnds
    <2>1. /\ sent' = sent /\ queued' = queued /\ data' = data
          /\ consumerPc = "eos" /\ consumerPc' = "done"
        BY <1>5 DEF ConsumerEnds, StartHalfClose, consumer, callVars
    <2>2. QED
        BY <2>1 DEF FlightInv, ConfigFirst
<1>6. CASE GeneratorStep
    <2>1. /\ sent' = sent /\ queued' = queued /\ half' = half
          /\ queued = <<>> /\ half = "open" /\ Len(sent) > 0
        BY <1>6 DEF FlightInv, GeneratorStep, callVars
    <2>2. QED
        BY <1>6, <2>1 DEF FlightInv, ConfigFirst, GeneratorStep
<1>7. CASE Main \/ CallsClose \/ UNCHANGED <<callVars, recognizerVars>>
    <2>1. UNCHANGED <<sent, queued, half, consumerPc, data>>
        BY <1>7 DEF Main, ReadsResult, ReadsStop, ReadsEnd, CallsClose, TakeResponse,
            callVars, upVars, recognizerVars
    <2>2. QED
        BY <2>1 DEF FlightInv, ConfigFirst
<1>8. CASE Outside(Environment)
    <2>1. UNCHANGED <<consumerPc, data>>
        BY <1>8 DEF Outside, recognizerVars
    <2>2. CASE FlushRequest
        <3>1. /\ queued # <<>> /\ queued' = <<>> /\ half' = half
              /\ consumerPc = "sending" /\ queued[1] = data
            BY <2>2 DEF FlushRequest, FlightInv
        <3>2. /\ Len(sent') = Len(sent) + 1
              /\ \A k \in 1 .. Len(sent) : sent'[k] = sent[k]
              /\ sent'[Len(sent) + 1] = data
            BY <2>2, <3>1, FlushAppends
        <3>3. ConfigFirst'
            BY <1>1, <3>1, <3>2 DEF FlightInv, ConfigFirst
        <3>4. QED
            BY <1>1, <2>1, <3>1, <3>2, <3>3 DEF FlightInv
    <2>3. CASE UNCHANGED <<queued, sent>> /\ (half = "open" => half' = "open")
        BY <2>1, <2>3 DEF FlightInv, ConfigFirst
    <2>4. QED
        BY <1>8, <2>2, <2>3 DEF Outside, Environment, FlushHalfClose, Deadline,
            ServiceReads, ServiceEnds, EndCall, ServiceResponds, upVars
<1>9. QED
    BY <1>2, <1>3, <1>4, <1>5, <1>6, <1>7, <1>8 DEF RecognizerStep, PlainStep, Consumer

\* What was read is read for good.
LEMMA ReadStable ==
    ASSUME NEW Request, CallTypeOK(Request), RecognizerStep \/ GeneratorStep
    PROVE  /\ got' >= got /\ got' \in Nat
           /\ \A k \in 1 .. got : inbound'[k] = inbound[k]
           /\ StopRead => StopRead'
           /\ CallOver => CallOver' /\ inbound' = inbound
<1>1. got \in Nat
    BY LenProperties DEF CallTypeOK
<1>2. /\ got' >= got /\ got' \in Nat
      /\ \A k \in 1 .. got : inbound'[k] = inbound[k]
      /\ CallOver => CallOver' /\ inbound' = inbound
    <2>1. CASE Outside(Environment)
        BY <1>1, <2>1, EnvironmentStep DEF Outside
    <2>2. CASE ~Outside(Environment)
        BY <1>1, <2>2 DEF RecognizerStep, PlainStep, GeneratorStep, Consumer, InitialRequest,
            ConsumerSends, ConsumerSent, SendingEnds, ConsumerEnds, Main, ReadsResult,
            ReadsStop, ReadsEnd, CallsClose, StartWrite, WriteFails, StartHalfClose,
            TakeResponse, CallOver, callVars, upVars, downVars
    <2>3. QED
        BY <2>1, <2>2
<1>3. QED
    BY <1>2, StopReadStable

\* The results and the reason of close().
LEMMA AnswerStep ==
    ASSUME NEW Request, NEW GeneratorPc, RecognizerTypeOK(Request, GeneratorPc), AnswerInv,
           RecognizerStep \/ GeneratorStep
    PROVE  AnswerInv'
<1> USE DEF RecognizerTypeOK
<1>1. /\ got \in 0 .. Len(inbound) /\ Len(inbound) \in Nat
      /\ Len(results) \in Nat /\ results \in Seq(Nat)
    BY LenProperties DEF CallTypeOK
<1>2. /\ got' >= got /\ got' \in Nat
      /\ \A k \in 1 .. got : inbound'[k] = inbound[k]
      /\ StopRead => StopRead'
      /\ CallOver => CallOver' /\ inbound' = inbound
    BY ReadStable
<1>3. CASE ReadsResult
    <2>1. /\ got' = got + 1 /\ inbound' = inbound /\ got < Len(inbound)
          /\ UNCHANGED <<mainPc, closeCalled>> /\ mainPc = "read"
          /\ results' = Append(results, got + 1)
        BY <1>3 DEF ReadsResult, TakeResponse, main
    <2>2. inbound[got + 1] = "result"
        <3>1. inbound[got + 1] \in ResponseKind
            BY <1>1, <2>1, ElementOfSeq DEF CallTypeOK
        <3>2. inbound[got + 1] \notin StopKind
            BY <1>3 DEF ReadsResult, NextResponse
        <3>3. QED
            BY <3>1, <3>2 DEF ResponseKind, StopKind
    <2>3. /\ Len(results') = Len(results) + 1
          /\ \A n \in 1 .. Len(results) : results'[n] = results[n]
          /\ results'[Len(results) + 1] = got + 1
        <3>1. got + 1 \in Nat
            BY <1>1
        <3>2. QED
            BY <1>1, <2>1, <3>1, AppendProperties
    <2>4. mainPc # "raised"
        BY <2>1
    <2>5. \A n \in 1 .. Len(results') :
               results'[n] \in 1 .. got' /\ inbound'[results'[n]] = "result"
        BY <1>1, <2>1, <2>2, <2>3, <2>4 DEF AnswerInv
    <2>6. \A k \in 1 .. got' :
               inbound'[k] = "result" => \E n \in 1 .. Len(results') : results'[n] = k
        <3>1. ASSUME NEW k \in 1 .. got', inbound'[k] = "result"
              PROVE  \E n \in 1 .. Len(results') : results'[n] = k
            <4>1. CASE k = got + 1
                BY <1>1, <2>3, <4>1
            <4>2. CASE k \in 1 .. got
                BY <1>1, <2>1, <2>3, <2>4, <3>1, <4>2 DEF AnswerInv
            <4>3. QED
                BY <1>1, <2>1, <4>1, <4>2
        <3>2. QED
            BY <3>1
    <2>7. ASSUME NEW m \in 1 .. Len(results'), NEW n \in 1 .. Len(results'), m < n
          PROVE  results'[m] < results'[n]
        <3>1. m \in 1 .. Len(results) /\ results'[m] = results[m]
            BY <1>1, <2>3, <2>7
        <3>2. results[m] \in 1 .. got
            BY <2>4, <3>1 DEF AnswerInv
        <3>3. CASE n = Len(results) + 1
            BY <1>1, <2>3, <3>1, <3>2, <3>3
        <3>4. CASE n \in 1 .. Len(results)
            BY <2>3, <2>4, <2>7, <3>1, <3>4 DEF AnswerInv
        <3>5. QED
            BY <1>1, <2>3, <3>3, <3>4
    <2>8. QED
        BY <1>2, <2>1, <2>5, <2>6, <2>7 DEF AnswerInv, Returned
<1>4. CASE ReadsStop
    <2>1. /\ got' = got + 1 /\ inbound' = inbound
          /\ mainPc = "read" /\ mainPc' = "close" /\ results' = results
          /\ inbound[got + 1] \in StopKind
        BY <1>4 DEF ReadsStop, TakeResponse, main, NextResponse
    <2>2. StopRead'
        BY <1>1, <2>1 DEF StopRead
    <2>3. inbound[got + 1] # "result"
        BY <2>1 DEF StopKind
    <2>4. QED
        BY <1>1, <2>1, <2>2, <2>3 DEF AnswerInv, Returned
<1>5. CASE ReadsEnd
    <2>1. /\ ResponsesOver /\ UNCHANGED <<got, inbound, status, closeCalled>>
          /\ mainPc = "read"
          /\ \/ mainPc' = "returned" /\ results' = results
             \/ mainPc' = "raised"
        BY <1>5 DEF ReadsEnd, callVars
    <2>2. ResponsesOver'
        BY <2>1 DEF ResponsesOver, CallOver
    <2>3. QED
        BY <1>2, <2>1, <2>2 DEF AnswerInv
\* The other steps leave results and reading alone.
<1>6. CASE /\ UNCHANGED <<got, results>>
           /\ mainPc' = mainPc /\ closeCalled' = closeCalled
    <2>1. Returned => ResponsesOver'
        BY <1>2, <1>6 DEF AnswerInv, ResponsesOver
    <2>2. mainPc # "raised" => \A n \in 1 .. Len(results) :
               inbound'[results[n]] = "result" /\ results[n] \in 1 .. got
        BY <1>2 DEF AnswerInv
    <2>3. QED
        BY <1>2, <1>6, <2>1, <2>2 DEF AnswerInv, Returned
<1>7. CASE CallsClose
    <2>1. /\ UNCHANGED <<callVars, results>> /\ mainPc = "close" /\ mainPc' = "read"
        BY <1>7 DEF CallsClose, main
    <2>2. StopRead /\ StopRead'
        BY <1>2, <2>1 DEF AnswerInv
    <2>3. QED
        BY <2>1, <2>2 DEF AnswerInv, Returned, callVars
<1>8. CASE Outside(Environment)
    <2>1. Environment /\ UNCHANGED recognizerVars
        BY <1>8 DEF Outside
    <2>2. got' = got
        BY <2>1, EnvironmentStep
    <2>3. QED
        BY <1>6, <2>1, <2>2 DEF recognizerVars
<1>9. CASE Consumer \/ GeneratorStep \/ UNCHANGED <<callVars, recognizerVars>>
    BY <1>6, <1>9 DEF Consumer, InitialRequest, ConsumerSends, ConsumerSent, SendingEnds,
        ConsumerEnds, GeneratorStep, StartWrite, WriteFails, StartHalfClose,
        callVars, downVars, recognizerVars
<1>10. QED
    BY <1>3, <1>4, <1>5, <1>7, <1>8, <1>9 DEF RecognizerStep, PlainStep, Main

-----------------------------------------------------------------------------
(***************************************************************************)
(* What the steps other than close() and those of the generator do to the  *)
(* requests.                                                               *)
(***************************************************************************)
Flushes ==
    /\ consumerPc = "sending" /\ queued = <<data>> /\ queued' = <<>>
    /\ Len(sent') = Len(sent) + 1
    /\ \A k \in 1 .. Len(sent) : sent'[k] = sent[k]
    /\ sent'[Len(sent) + 1] = data
    /\ UNCHANGED <<half, consumerPc, data, closeCalled, late>>

Starts ==
    /\ consumer("config", "send") /\ data' = Config
    /\ UNCHANGED <<queued, sent, half, closeCalled, late>>

Sends ==
    /\ consumer("send", "sending")
    /\ queued = <<>> /\ queued' = <<data>>
    /\ late' = IF closeCalled /\ data # Config THEN late + 1 ELSE late
    /\ UNCHANGED <<sent, half, data, closeCalled>>

IsSent ==
    /\ consumer("sending", "next")
    /\ queued = <<>> /\ queued' = <<>>
    /\ UNCHANGED <<sent, half, data, closeCalled, late>>

\* The call is over.
GivesUp ==
    /\ CallOver
    /\ consumerPc \in {"send", "sending"} /\ consumerPc' = "done" /\ queued' = <<>>
    /\ UNCHANGED <<sent, half, data, closeCalled, late>>

EndsAudio ==
    /\ consumer("eos", "done")
    /\ CallOver \/ half' = "closing"
    /\ half = "open"
    /\ half' = "closing" \/ half' = half
    /\ UNCHANGED <<queued, sent, data, closeCalled, late>>

Quiet ==
    /\ half' = "open" <=> half = "open"
    /\ UNCHANGED <<queued, sent, consumerPc, data, closeCalled, late>>

\* What a step of the call or of the consumer is for the requests.
LEMMA RequestSteps ==
    ASSUME NEW Request, CallTypeOK(Request), FlightInv, PlainStep
    PROVE  Flushes \/ Starts \/ Sends \/ IsSent \/ GivesUp \/ EndsAudio \/ Quiet
<1>1. CASE InitialRequest
    BY <1>1 DEF InitialRequest, Starts, callVars
<1>2. CASE ConsumerSends
    <2>1. queued = <<>> /\ half = "open"
        BY <1>2 DEF FlightInv, ConsumerSends, consumer
    <2>2. CASE consumer("send", "sending")
        BY <1>2, <2>1, <2>2 DEF ConsumerSends, StartWrite, Sends, consumer
    <2>3. CASE consumer("send", "done")
        BY <1>2, <2>1, <2>3 DEF ConsumerSends, WriteRefused, GivesUp, consumer, callVars
    <2>4. QED
        BY <1>2, <2>2, <2>3 DEF ConsumerSends
<1>3. CASE ConsumerSent
    <2>1. CASE consumer("sending", "next")
        BY <1>3, <2>1 DEF ConsumerSent, WriteDone, IsSent, consumer, callVars
    <2>2. CASE consumer("sending", "done")
        BY <1>3, <2>2 DEF ConsumerSent, SendingEnds, WriteDone, WriteFails, GivesUp,
            consumer, callVars
    <2>3. QED
        BY <1>3, <2>1, <2>2 DEF ConsumerSent
<1>4. CASE ConsumerEnds
    <2>1. half = "open"
        BY <1>4 DEF ConsumerEnds, FlightInv, consumer
    <2>2. QED
        BY <1>4, <2>1 DEF ConsumerEnds, StartHalfClose, EndsAudio, callVars
<1>5. CASE Main \/ UNCHANGED <<callVars, recognizerVars>>
    BY <1>5 DEF Main, ReadsResult, ReadsStop, ReadsEnd, TakeResponse, Quiet,
        callVars, upVars, recognizerVars
<1>6. CASE Outside(Environment)
    <2>1. UNCHANGED recognizerVars
        BY <1>6 DEF Outside
    <2>2. CASE FlushRequest
        <3>1. /\ queued # <<>> /\ queued' = <<>> /\ half' = half
              /\ consumerPc = "sending" /\ queued = <<data>>
            BY <2>2 DEF FlushRequest, FlightInv
        <3>2. /\ Len(sent') = Len(sent) + 1
              /\ \A k \in 1 .. Len(sent) : sent'[k] = sent[k]
              /\ sent'[Len(sent) + 1] = data
            BY <2>2, <3>1, FlushAppends
        <3>3. QED
            BY <2>1, <3>1, <3>2 DEF Flushes, recognizerVars
    <2>3. CASE FlushHalfClose
        BY <2>1, <2>3 DEF FlushHalfClose, Quiet, recognizerVars
    <2>4. CASE Deadline \/ ServiceReads \/ ServiceEnds
               \/ \E kind \in ResponseKind : ServiceResponds(kind)
        BY <2>1, <2>4 DEF Deadline, ServiceReads, ServiceEnds, EndCall, ServiceResponds,
            Quiet, upVars, recognizerVars
    <2>5. QED
        BY <1>6, <2>2, <2>3, <2>4 DEF Outside, Environment
<1>7. QED
    BY <1>1, <1>2, <1>3, <1>4, <1>5, <1>6 DEF PlainStep, Consumer

-----------------------------------------------------------------------------
\* All of it holds at the start.
LEMMA RecognizerStart ==
    ASSUME NEW Request, NEW GeneratorPc, RecognizerInit, Config \in Request
    PROVE  RecognizerTypeOK(Request, GeneratorPc) /\ FlightInv /\ AnswerInv
<1> USE DEF RecognizerInit, CallInit
<1>1. /\ sent \in Seq(Request) /\ inbound \in Seq(ResponseKind) /\ results \in Seq(Nat)
      /\ Len(sent) = 0 /\ Len(inbound) = 0 /\ Len(results) = 0
    BY EmptySeq
<1>2. RecognizerTypeOK(Request, GeneratorPc)
    <2>1. CallTypeOK(Request)
        BY <1>1 DEF CallTypeOK
    <2>2. mainPc \in MainPc /\ consumerPc \in RecognizerPc
        BY DEF MainPc, RecognizerPc
    <2>3. QED
        BY <1>1, <2>1, <2>2 DEF RecognizerTypeOK
<1>3. FlightInv
    BY <1>1 DEF FlightInv, ConfigFirst
<1>4. AnswerInv
    BY <1>1 DEF AnswerInv, Returned
<1>5. QED
    BY <1>2, <1>3, <1>4

\* What the caller is given when recognize returns.
LEMMA AnswerComplete ==
    ASSUME NEW Request, NEW GeneratorPc, RecognizerTypeOK(Request, GeneratorPc), AnswerInv
    PROVE  /\ ResultsComplete
           /\ mainPc # "raised" =>
                {results[n] : n \in 1 .. Len(results)} = {k \in 1 .. got : inbound[k] = "result"}
<1>1. mainPc # "raised" =>
        {results[n] : n \in 1 .. Len(results)} = {k \in 1 .. got : inbound[k] = "result"}
    BY DEF AnswerInv
<1>2. mainPc = "returned" => got = Len(inbound)
    BY DEF AnswerInv, Returned, ResponsesOver
<1>3. QED
    BY <1>1, <1>2 DEF AnswerInv, ResultsComplete

-----------------------------------------------------------------------------
(***************************************************************************)
(* What the caller and the service see of a step: the steps of             *)
(* StreamingSession, in terms of the call.                                 *)
(***************************************************************************)
Kept == [k \in {k \in 1 .. Len(inbound) : inbound[k] \in ResponseKind \ StopKind} |-> inbound[k]]

Unseen ==
    /\ UNCHANGED <<sent, inbound, got, status, Answer>>
    /\ half' = "closed" <=> half = "closed"

Delivers ==
    /\ queued # <<>> /\ ~CallOver /\ half # "closed"
    /\ Len(sent') = Len(sent) + 1
    /\ UNCHANGED <<half, inbound, got, status, Answer>>

HalfCloses ==
    /\ ~CallOver /\ half = "closing" /\ half' = "closed"
    /\ UNCHANGED <<sent, inbound, got, status, Answer>>

Arrives ==
    /\ ~CallOver
    /\ \E kind \in ResponseKind : inbound' = Append(inbound, kind)
    /\ UNCHANGED <<sent, half, got, status, Answer>>

Looks ==
    /\ got < Len(inbound) /\ got' = got + 1
    /\ UNCHANGED <<sent, half, inbound, status, Answer>>

Ends ==
    /\ ~CallOver /\ CallOver'
    /\ \E kept \in got .. Len(inbound) : inbound' = SubSeq(inbound, 1, kept)
    /\ UNCHANGED <<sent, half, got, Answer>>

Answers ==
    /\ ResponsesOver /\ Answer = <<>> /\ Answer' = <<Kept>>
    /\ UNCHANGED <<sent, half, inbound, got, status>>

\* What a step is for who sees only the two ends of the call.
LEMMA VisibleStep ==
    ASSUME NEW Request, NEW GeneratorPc, RecognizerTypeOK(Request, GeneratorPc),
           FlightInv, AnswerInv, RecognizerStep \/ GeneratorStep
    PROVE  \/ Unseen \/ Delivers \/ HalfCloses \/ Arrives \/ Looks \/ Ends \/ Answers
<1> USE DEF RecognizerTypeOK
<1>1. /\ inbound \in Seq(ResponseKind)
      /\ got \in 0 .. Len(inbound) /\ Len(inbound) \in Nat
    BY LenProperties DEF CallTypeOK
\* The answer is given once, and stands.
<1>2. ASSUME mainPc' = mainPc \/ {mainPc, mainPc'} \subseteq {"read", "close"},
             mainPc = "returned" => results' = results
      PROVE  Answer' = Answer
    <2>1. CASE mainPc = "returned"
        <3>1. mainPc' = "returned" /\ results' = results
            BY <1>2, <2>1
        <3>2. CallOver
            BY <2>1 DEF AnswerInv, Returned, ResponsesOver
        <3>3. inbound' = inbound
            BY <3>2, ReadStable
        <3>4. QED
            BY <2>1, <3>1, <3>3 DEF Answer
    <2>2. CASE mainPc # "returned"
        BY <1>2, <2>2 DEF Answer
    <2>3. QED
        BY <2>1, <2>2
<1>3. CASE ReadsResult \/ ReadsStop
    <2>1. /\ got < Len(inbound) /\ got' = got + 1
          /\ UNCHANGED <<sent, half, inbound, status>>
          /\ mainPc = "read" /\ mainPc' \in {"read", "close"}
        BY <1>3 DEF ReadsResult, ReadsStop, TakeResponse, main, upVars
    <2>2. QED
        BY <1>2, <2>1 DEF Looks
<1>4. CASE ReadsEnd
    <2>1. ResponsesOver /\ UNCHANGED <<sent, half, inbound, got, status>> /\ mainPc = "read"
        BY <1>4 DEF ReadsEnd, callVars
    <2>2. CASE mainPc' = "returned" /\ results' = results
        <3>1. \A k \in 1 .. Len(inbound) : inbound[k] \in ResponseKind
            BY <1>1, ElementOfSeq
        <3>2. {k \in 1 .. Len(inbound) : inbound[k] \in ResponseKind \ StopKind}
                 = {k \in 1 .. got : inbound[k] = "result"}
            BY <2>1, <3>1 DEF ResponsesOver, ResponseKind, StopKind
        <3>3. {results[n] : n \in 1 .. Len(results)} = {k \in 1 .. got : inbound[k] = "result"}
            BY <2>1, AnswerComplete
        <3>4. Answer' = <<Kept>>
            BY <2>1, <2>2, <3>2, <3>3 DEF Answer, Kept
        <3>5. QED
            BY <2>1, <3>4 DEF Answer, Answers
    <2>3. CASE mainPc' = "raised"
        BY <2>1, <2>3 DEF Unseen, Answer
    <2>4. QED
        BY <1>4, <2>2, <2>3 DEF ReadsEnd
<1>5. CASE Consumer \/ GeneratorStep \/ UNCHANGED <<callVars, recognizerVars>>
    <2>1. UNCHANGED <<sent, inbound, got, status, mainPc, results>>
        BY <1>5 DEF Consumer, InitialRequest, ConsumerSends, ConsumerSent, SendingEnds,
            ConsumerEnds, GeneratorStep, StartWrite, WriteFails, StartHalfClose,
            callVars, downVars, recognizerVars
    <2>2. half' = "closed" <=> half = "closed"
        BY <1>5 DEF Consumer, InitialRequest, ConsumerSends, ConsumerSent, SendingEnds,
            ConsumerEnds, GeneratorStep, StartWrite, WriteFails, StartHalfClose,
            callVars, recognizerVars
    <2>3. QED
        BY <1>2, <2>1, <2>2 DEF Unseen
<1>6. CASE CallsClose
    <2>1. UNCHANGED <<callVars, results>> /\ mainPc = "close" /\ mainPc' = "read"
        BY <1>6 DEF CallsClose, main
    <2>2. QED
        BY <1>2, <2>1 DEF Unseen, callVars
<1>7. CASE Outside(Environment)
    <2>1. Answer' = Answer
        BY <1>2, <1>7 DEF Outside, recognizerVars
    <2>2. CASE FlushRequest
        <3>1. /\ ~CallOver /\ queued # <<>> /\ UNCHANGED <<half, inbound, got, status>>
            BY <2>2 DEF FlushRequest, downVars
        <3>2. half # "closed"
            BY <3>1 DEF FlightInv
        <3>3. Len(sent') = Len(sent) + 1
            BY <2>2, FlushAppends
        <3>4. QED
            BY <2>1, <3>1, <3>2, <3>3 DEF Delivers
    <2>3. CASE FlushHalfClose
        BY <2>1, <2>3 DEF FlushHalfClose, HalfCloses, downVars
    <2>4. CASE ServiceReads
        BY <2>1, <2>4 DEF ServiceReads, Unseen, downVars
    <2>5. CASE \E kind \in ResponseKind : ServiceResponds(kind)
        BY <2>1, <2>5 DEF ServiceResponds, Arrives, upVars
    <2>6. CASE Deadline \/ ServiceEnds
        <3>1. PICK st \in FinalStatus : EndCall(st)
            BY <2>6 DEF Deadline, ServiceEnds, FinalStatus
        <3>2. QED
            BY <2>1, <3>1 DEF EndCall, Ends, CallOver, FinalStatus, upVars
    <2>7. QED
        BY <1>7, <2>2, <2>3, <2>4, <2>5, <2>6 DEF Outside, Environment
<1>8. QED
    BY <1>3, <1>4, <1>5, <1>6, <1>7 DEF RecognizerStep, PlainStep, Main
===============================================================================
