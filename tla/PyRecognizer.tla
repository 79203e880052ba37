----------------------------- MODULE PyRecognizer -----------------------------
(***************************************************************************)
(* StreamingRecognizer.recognize of the Python client                      *)
(* (service/streaming_recognizer.py), without its audio source.            *)
(*                                                                         *)
(* Two threads: the main thread iterates over the responses and calls      *)
(* audio_stream.close() when the service asks it to stop; gRPC's consumer  *)
(* thread calls next() on the RequestIterator, hands the request over,     *)
(* waits until it is out, and starts again.  RequestIterator.lock is taken *)
(* by the consumer thread only.                                            *)
(*                                                                         *)
(* PyFileStreaming and PyMicStreaming EXTEND this module with a source:    *)
(* the generator that gives the requests after the first one, in the       *)
(* consumer thread, and the effect of close(), in the main thread.  They   *)
(* say in each step what happens to the variables of the source.           *)
(***************************************************************************)
EXTENDS SpeechCall

VARIABLES
    mainPc,      \* where the main thread is in recognize
    consumerPc,  \* where gRPC's consumer thread is
    data,        \* the request that next() returns, built by the generator
    results,     \* the positions of the responses whose results were collected
    closeCalled, \* history: close() was called
    late         \* history: audio requests handed to gRPC after that

recognizerVars == <<mainPc, consumerPc, data, results, closeCalled, late>>

\* The first request: build_configuration_request.
Config == <<>>

MainPc == {"read", "close", "returned", "raised"}

\* "next" is the top of the generator's loop, "eos" its end.
RecognizerPc == {"config", "next", "send", "sending", "eos", "done"}

RecognizerTypeOK(Request, GeneratorPc) ==
    /\ CallTypeOK(Request)
    /\ mainPc \in MainPc
    /\ consumerPc \in RecognizerPc \cup GeneratorPc
    /\ data \in Request
    /\ results \in Seq(Nat)
    /\ closeCalled \in BOOLEAN
    /\ late \in Nat

RecognizerInit ==
    /\ CallInit
    /\ mainPc = "read" /\ consumerPc = "config"
    /\ data = Config
    /\ results = <<>>
    /\ closeCalled = FALSE /\ late = 0

-----------------------------------------------------------------------------
(***************************************************************************)
(* The consumer thread, around the generator.                              *)
(***************************************************************************)
consumer(from, to) == consumerPc = from /\ consumerPc' = to

\* Mutated: is_initial_request is not set to begin with.
InitialRequest_Skipped ==
    /\ consumer("config", "next")
    /\ UNCHANGED <<callVars, mainPc, data, results, closeCalled, late>>

\* The first next() returns the configuration: _initial_request.
InitialRequest ==
    /\ consumer("config", "send")
    /\ data' = Config
    /\ UNCHANGED <<callVars, mainPc, results, closeCalled, late>>

\* gRPC takes the request, or sees that the call is over and stops.
ConsumerSends ==
    /\ \/ /\ consumer("send", "sending") /\ StartWrite(data)
          /\ late' = IF closeCalled /\ data # Config THEN late + 1 ELSE late
       \/ /\ consumer("send", "done") /\ WriteRefused
          /\ UNCHANGED <<callVars, late>>
    /\ UNCHANGED <<mainPc, data, results, closeCalled>>

\* The call ended before or after the request went out.
SendingEnds == WriteFails \/ (WriteDone /\ CallOver /\ UNCHANGED callVars)

\* The request is out, or the call is over and the consumer stops.
ConsumerSent ==
    /\ \/ consumer("sending", "next") /\ WriteDone /\ ~CallOver
          /\ UNCHANGED callVars
       \/ consumer("sending", "done") /\ SendingEnds
    /\ UNCHANGED <<mainPc, data, results, closeCalled, late>>

\* StopIteration: gRPC half-closes the call, if it is not over.
ConsumerEnds ==
    /\ consumer("eos", "done")
    /\ \/ ~CallOver /\ StartHalfClose
       \/ CallOver /\ UNCHANGED callVars
    /\ UNCHANGED <<mainPc, data, results, closeCalled, late>>

\* Mutated: at the end of the stream None is handed out, without StopIteration.
Consumer_NeverStops ==
    \/ InitialRequest \/ ConsumerSends \/ ConsumerSent
    \/ /\ consumer("eos", "eos")
       /\ UNCHANGED <<callVars, mainPc, data, results, closeCalled, late>>

Consumer == InitialRequest \/ ConsumerSends \/ ConsumerSent \/ ConsumerEnds

-----------------------------------------------------------------------------
(***************************************************************************)
(* The main thread.                                                        *)
(***************************************************************************)
main(from, to) == mainPc = from /\ mainPc' = to

\* Mutated: each response replaces the results of those before it.
ReadsResult_Replaces ==
    /\ main("read", "read")
    /\ TakeResponse
    /\ NextResponse \notin StopKind
    /\ results' = <<got + 1>>
    /\ UNCHANGED <<consumerPc, data, closeCalled, late>>

\* A response with results.  What is made of them is left out.
ReadsResult ==
    /\ main("read", "read")
    /\ TakeResponse
    /\ NextResponse \notin StopKind
    /\ results' = Append(results, got + 1)
    /\ UNCHANGED <<consumerPc, data, closeCalled, late>>

\* A response with an error or a speech event.
ReadsStop ==
    /\ main("read", "close")
    /\ TakeResponse
    /\ NextResponse \in StopKind
    /\ UNCHANGED <<consumerPc, data, results, closeCalled, late>>

\* The call of audio_stream.close(), whose effect is the source's.
CallsClose ==
    /\ main("close", "read")
    /\ closeCalled' = TRUE
    /\ UNCHANGED <<callVars, consumerPc, data, results, late>>

\* Mutated: an error status does not end the loop.
ReadsEnd_OnlyOK ==
    /\ main("read", "returned")
    /\ ResponsesOver /\ status = "OK"
    /\ UNCHANGED <<callVars, consumerPc, data, results, closeCalled, late>>

\* The end of the responses: the loop ends, or raises RpcError and the results
\* collected so far go with it.
ReadsEnd ==
    /\ mainPc = "read"
    /\ ResponsesOver
    /\ IF status = "OK"
       THEN mainPc' = "returned" /\ UNCHANGED results
       ELSE mainPc' = "raised" /\ results' = <<>>
    /\ UNCHANGED <<callVars, consumerPc, data, closeCalled, late>>

Main == ReadsResult \/ ReadsStop \/ ReadsEnd

Returned == mainPc \in {"returned", "raised"}

Outside(A) == A /\ UNCHANGED recognizerVars

-----------------------------------------------------------------------------
(***************************************************************************)
(* Properties that do not depend on the source.                            *)
(***************************************************************************)

\* The configuration is the first request and is not repeated
\* (dictation_asr.proto:93-97).
ConfigFirst == \A k \in 1 .. Len(sent) : (sent[k] = Config) <=> (k = 1)

\* When recognize returns, every response with results has been collected, in
\* order, and every response of the call has been read.
ResultsComplete ==
    mainPc = "returned" =>
        /\ got = Len(inbound)
        /\ {results[n] : n \in 1 .. Len(results)} = {k \in 1 .. got : inbound[k] = "result"}
        /\ \A m, n \in 1 .. Len(results) : m < n => results[m] < results[n]

\* A stop response leads to the half-close, if only at the end of the audio,
\* unless the call ends before.
StopHalfCloses == StopRead ~> (half # "open" \/ CallOver)

\* What the caller of recognize is given: the responses kept.
Answer ==
    IF mainPc = "returned"
    THEN <<[k \in {results[n] : n \in 1 .. Len(results)} |-> inbound[k]]>>
    ELSE <<>>
===============================================================================
