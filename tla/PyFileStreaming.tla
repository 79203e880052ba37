---------------------------- MODULE PyFileStreaming ----------------------------
(***************************************************************************)
(* The Python client streaming an audio file: PyRecognizer over            *)
(* AudioStream (utils/audio_stream.py).  The generator runs in gRPC's      *)
(* consumer thread and close() in the main thread; they share              *)
(* AudioStream.data_index and no lock.                                     *)
(*                                                                         *)
(* A request is the configuration or a chunk <<lo, hi>> of audio, the      *)
(* bytes lo .. hi - 1, which are none when lo >= hi.                       *)
(***************************************************************************)
EXTENDS PyRecognizer

CONSTANTS
    AudioLen,   \* len(audio), in bytes
    FrameSize   \* frame_samples_size, which is in bytes

ASSUME PyFileStreamingAssumption ==
    /\ AudioLen \in Nat
    /\ FrameSize \in Nat \ {0}

VARIABLES
    dataIndex,   \* AudioStream.data_index, which both threads assign
    genEnd,      \* the generator's end_sample
    closedAt     \* history: where the consumer was when close() was called

sourceVars == <<dataIndex, genEnd, closedAt>>
vars == <<callVars, recognizerVars, sourceVars>>

Request     == {Config} \cup ((0 .. AudioLen + 1) \X (0 .. AudioLen))
GeneratorPc == {"end", "slice", "store"}

TypeOK ==
    /\ RecognizerTypeOK(Request, GeneratorPc)
    /\ dataIndex \in 0 .. AudioLen + 1
    /\ genEnd \in 0 .. AudioLen
    /\ closedAt \subseteq RecognizerPc \cup GeneratorPc

\* __init__, __enter__ and the start of the call.
Init ==
    /\ RecognizerInit
    /\ dataIndex = 0 /\ genEnd = 0
    /\ closedAt = {}

\* The bytes of audio of a request.
Bytes(r) == IF r = Config THEN {} ELSE r[1] .. r[2] - 1

-----------------------------------------------------------------------------
(***************************************************************************)
(* The generator, in the consumer thread.                                  *)
(***************************************************************************)

\* Mutated: the last byte is taken for the end.
GeneratorTests_OffByOne ==
    /\ consumerPc = "next"
    /\ consumerPc' = IF dataIndex < AudioLen - 1 THEN "end" ELSE "eos"
    /\ UNCHANGED <<data, dataIndex, genEnd>>

\* while self.data_index < len(self.audio), else StopIteration.
GeneratorTests ==
    /\ consumerPc = "next"
    /\ consumerPc' = IF dataIndex < AudioLen THEN "end" ELSE "eos"
    /\ UNCHANGED <<data, dataIndex, genEnd>>

\* Mutated: the end is not cut to the length.
GeneratorEnds_NotCut ==
    /\ consumer("end", "slice")
    /\ genEnd' = dataIndex + FrameSize
    /\ UNCHANGED <<data, dataIndex>>

\* end_sample = self.data_index + self.frame_samples_size, cut to the length.
GeneratorEnds ==
    /\ consumer("end", "slice")
    /\ genEnd' = IF dataIndex + FrameSize >= AudioLen
                 THEN AudioLen ELSE dataIndex + FrameSize
    /\ UNCHANGED <<data, dataIndex>>

\* data = self.audio[self.data_index: end_sample]
GeneratorSlices ==
    /\ consumer("slice", "store")
    /\ data' = <<dataIndex, genEnd>>
    /\ UNCHANGED <<dataIndex, genEnd>>

\* Mutated: the last byte of a chunk opens the next one.
GeneratorStores_Overlaps ==
    /\ consumer("store", "send")
    /\ dataIndex' = IF genEnd < AudioLen THEN genEnd - 1 ELSE genEnd
    /\ UNCHANGED <<data, genEnd>>

\* Mutated: a byte is left out between two chunks.
GeneratorStores_Skips ==
    /\ consumer("store", "send")
    /\ dataIndex' = genEnd + 1
    /\ UNCHANGED <<data, genEnd>>

\* self.data_index = end_sample, then the delay and the yield.
GeneratorStores ==
    /\ consumer("store", "send")
    /\ dataIndex' = genEnd
    /\ UNCHANGED <<data, genEnd>>

Generator ==
    /\ GeneratorTests \/ GeneratorEnds \/ GeneratorSlices \/ GeneratorStores
    /\ UNCHANGED <<callVars, mainPc, results, closeCalled, late, closedAt>>

-----------------------------------------------------------------------------
\* Mutated: close() leaves the position of the generator alone.
Closes_NoEffect ==
    /\ CallsClose
    /\ closedAt' = closedAt \cup {consumerPc}
    /\ UNCHANGED <<dataIndex, genEnd>>

\* AudioStream.close(): one assignment, in the middle of whatever the
\* generator is doing.
Closes ==
    /\ CallsClose
    /\ dataIndex' = AudioLen + 1
    /\ closedAt' = closedAt \cup {consumerPc}
    /\ UNCHANGED genEnd

MainThread     == Closes \/ (Main /\ UNCHANGED sourceVars)
ConsumerThread == Generator \/ (Consumer /\ UNCHANGED sourceVars)
Around(A)      == Outside(A) /\ UNCHANGED sourceVars

Terminated == Returned /\ consumerPc = "done"

Next ==
    \/ MainThread \/ ConsumerThread \/ Around(Environment)
    \/ Terminated /\ UNCHANGED vars

Spec == Init /\ [][Next]_vars

(***************************************************************************)
(* Fairness: both threads run; the connection moves what it was given, and *)
(* the service reads the requests and ends a half-closed call.             *)
(***************************************************************************)
ClientFairness  == WF_vars(MainThread) /\ WF_vars(ConsumerThread)
ServiceFairness ==
    /\ WF_vars(Around(FlushRequest)) /\ WF_vars(Around(FlushHalfClose))
    /\ WF_vars(Around(ServiceReads)) /\ WF_vars(Around(ServiceFinishes))

DeadlineFairness == WF_vars(Around(Deadline))

FairSpec == Spec /\ ClientFairness

-----------------------------------------------------------------------------
(***************************************************************************)
(* Safety.                                                                 *)
(***************************************************************************)

\* No byte of the file is sent twice or out of order, wherever close() falls.
AudioInOrder ==
    \A j, k \in 1 .. Len(sent) : j < k =>
        \A s \in Bytes(sent[j]), t \in Bytes(sent[k]) : s < t

\* Bytes are skipped only when close() fell between the computation of
\* end_sample and the slice: the chunk comes out empty and the generator goes
\* on behind it.  Otherwise everything before a byte that was sent was sent.
NoGap ==
    "slice" \notin closedAt =>
        \A k \in 1 .. Len(sent) : \A t \in Bytes(sent[k]) :
            \A s \in 0 .. t : \E j \in 1 .. k : s \in Bytes(sent[j])

\* The call is half-closed in the middle of the file only after close().
WholeFile ==
    half # "open" /\ ~closeCalled =>
        UNION {Bytes(sent[k]) : k \in 1 .. Len(sent)} = 0 .. AudioLen - 1

\* close() takes effect, letting at most the chunk already taken out through,
\* unless it falls between the generator's computation of end_sample and its
\* assignment of data_index.
CloseTakesEffect == closedAt \cap {"slice", "store"} = {} => late <= 1

\* recognize as its caller and the service see it: wherever close() falls, the
\* wire carries no more requests than the file has chunks, the half-close comes
\* after the last of them or after a stop response that was read, and a caller
\* who is answered has every response with results.
Session == INSTANCE StreamingSession WITH
    NumRequests  <- 1 + (AudioLen + FrameSize - 1) \div FrameSize,
    Response     <- ResponseKind,
    StopResponse <- StopKind,
    KeptResponse <- ResponseKind \ StopKind,
    delivered    <- Len(sent),
    halfClosed   <- half = "closed",
    arrived      <- inbound,
    read         <- got,
    over         <- CallOver,
    answer       <- Answer

ImplementsSession == Session!SessionSpec

(***************************************************************************)
(* Liveness.                                                               *)
(***************************************************************************)

\* recognize returns or raises, and gRPC's thread lets go of the generator: if
\* the service plays along, also when close() is lost; with a deadline that
\* passes, whatever connection and service do.
Termination == ServiceFairness \/ DeadlineFairness => <>[]Terminated

\* Under the same assumptions a stop response leads to the half-close, if only
\* at the end of the file when close() was lost, or to the end of the call.
StopEndsSending == ServiceFairness \/ DeadlineFairness => StopHalfCloses

(***************************************************************************)
(* What CHANGELOG.md:106 ("Stream is now half-closed after reading an      *)
(* error response") and the comment "mark end-of-stream" at                *)
(* audio_stream.py:57 promise.                                             *)
(***************************************************************************)

\* After close() at most the chunk already taken out is still sent.
ClosedStaysClosed == late <= 1
===============================================================================
