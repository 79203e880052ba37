--------------------------- MODULE CppStreamingProofs ---------------------------
(***************************************************************************)
(* Proofs about DictationClient::StreamingRecognize (CppStreaming), for    *)
(* every number of frames, of responses and of requests the connection     *)
(* holds, with and without single_utterance and a deadline.                *)
(*                                                                         *)
(* None of the safety properties of CppStreaming is inductive.  IInv below *)
(* is: its parts say what each position of the two threads tells about the *)
(* request in flight, the flag and the half-close.                         *)
(***************************************************************************)
EXTENDS CppStreaming, SpeechCallProofs

Safe == /\ RequestsInOrder /\ LateWritesBounded /\ ResponsesKept
        /\ HalfClosedAtEnd /\ WholeAudio /\ AbortOnlyAtEnd

\* The writer exists once the configuration was dealt with, and the call ends
\* only after it.
StartInv ==
    /\ mainPc \in {"config", "configuring"} => half = "open" /\ ~halfClosedStream
    /\ mainPc \in {"config", "configuring"} <=> writerPc = "none"
    /\ mainPc = "done" => writerPc = "done"
    /\ mainPc \in {"join", "done"} => CallOver /\ got = Len(inbound)

\* Which requests are on the wire or in gRPC's hands.
FlightInv ==
    /\ \A k \in 1 .. Len(sent) : sent[k] = k - 1
    /\ mainPc = "config" => i = 1 /\ queued = <<>> /\ Len(sent) = 0
    /\ mainPc = "configuring" =>
         /\ i = 1
         /\ \/ queued = <<0>> /\ Len(sent) = 0
            \/ queued = <<>> /\ Len(sent) = 1
    /\ writerPc \in {"loop", "write"} => queued = <<>> /\ (CallOver \/ Len(sent) = i)
    /\ writerPc = "write" => i <= NumFrames
    /\ writerPc = "writing" =>
         /\ i <= NumFrames
         /\ \/ queued = <<i>> /\ Len(sent) = i
            \/ queued = <<>> /\ Len(sent) = i + 1
    /\ writerPc \in {"exit", "flagSet", "writesDone", "halfClosing", "done"} =>
         queued = <<>>

\* The flag and the half-close: whoever sets the flag half-closes next.
FlagInv ==
    /\ halfClosedStream =>
         half # "open" \/ mainPc = "writesDone" \/ writerPc = "writesDone"
    /\ half # "open" => halfClosedStream
    /\ writerPc \in {"writesDone", "halfClosing", "done"} => halfClosedStream
    /\ mainPc = "writesDone" => halfClosedStream

\* Nothing is in gRPC's hands behind the half-close.
ClosedInv == half = "closed" => queued = <<>>

\* The one frame whose test of the flag came before the flag was set.
LateInv ==
    /\ late \in {0, 1}
    /\ late = 1 => halfClosedStream
    /\ writerPc = "write" => late = 0

\* All the audio is out, or it cannot go out any more.
AudioDone == CallOver \/ (i = NumFrames + 1 /\ Len(sent) = NumFrames + 1)

\* Why each thread is on its way to a half-close, and what it may meet there.
ReasonInv ==
    /\ writerPc = "exit" => halfClosedStream \/ AudioDone
    /\ writerPc \in {"flagSet", "writesDone"} => AudioDone
    /\ writerPc \in {"flagSet", "writesDone"} /\ half # "open" => StopRead
    /\ mainPc \in {"flagSet", "writesDone"} /\ half # "open" => CallOver \/ i > NumFrames
    /\ StopInHand => got > 0 /\ inbound[got] \in StopKind
    /\ WholeAudio
    /\ AbortOnlyAtEnd

\* How many of the responses read have been stored.
Stored == IF StopInHand THEN got - 1 ELSE got

StoredInv ==
    /\ Len(responses) = Stored
    /\ \A k \in 1 .. Stored : responses[k] = inbound[k]

IInv == /\ TypeOK /\ StartInv /\ FlightInv /\ FlagInv /\ ClosedInv
        /\ LateInv /\ ReasonInv /\ StoredInv

-----------------------------------------------------------------------------
LEMMA InitInv == Init => IInv
<1> SUFFICES ASSUME Init PROVE IInv
    OBVIOUS
<1> USE CppStreamingAssumption DEF Init, CallInit
<1>1. TypeOK
    <2>1. /\ sent \in Seq(Request) /\ inbound \in Seq(ResponseKind)
          /\ responses \in Seq(ResponseKind)
          /\ Len(sent) = 0 /\ Len(inbound) = 0
        BY EmptySeq
    <2>2. CallTypeOK(Request)
        BY <2>1 DEF CallTypeOK
    <2>3. i \in 1 .. NumFrames + 1
        OBVIOUS
    <2>4. QED
        BY <2>1, <2>2, <2>3 DEF TypeOK, MainPc, WriterPc
<1>2. StartInv /\ FlagInv /\ ClosedInv /\ LateInv
    BY DEF StartInv, FlagInv, ClosedInv, LateInv
<1>3. FlightInv
    BY EmptySeq DEF FlightInv
<1>4. ReasonInv
    BY DEF ReasonInv, StopInHand, WholeAudio, AbortOnlyAtEnd
<1>5. StoredInv
    BY EmptySeq DEF StoredInv, Stored, StopInHand
<1>6. QED
    BY <1>1, <1>2, <1>3, <1>4, <1>5 DEF IInv

\* The type invariant: the two threads hand gRPC nothing but the configuration
\* and frames of the audio.
LEMMA TypeStep ==
    ASSUME IInv, [Next]_vars
    PROVE  TypeOK'
<1> USE CppStreamingAssumption
<1>1. TypeOK
    BY DEF IInv
<1>2. CASE Main
    <2>1. CallTypeOK(Request)'
        <3>1. \/ StartWrite(0) \/ WriteFails \/ StartHalfClose \/ TakeResponse
              \/ UNCHANGED callVars
            BY <1>2 DEF Main, WritesConfig, ConfigWritten, ReadsResult, ReadsStop,
                ReadsEnd, MainTestsFlag, MainSetsFlag, MainWritesDone,
                MainHalfClosed, PushesStop, Finishes, WritesDone
        <3>2. QED
            BY <1>1, <3>1, ClientStepType DEF TypeOK, Request
    <2>2. responses' \in Seq(ResponseKind)
        <3>1. CASE ReadsResult
            <4>1. NextResponse \in ResponseKind
                BY <1>1, <3>1, ElementOfSeq, LenProperties
                DEF ReadsResult, TakeResponse, NextResponse, TypeOK, CallTypeOK
            <4>2. QED
                BY <1>1, <3>1, <4>1, AppendProperties DEF ReadsResult, TypeOK
        <3>2. CASE PushesStop
            <4>1. inbound[got] \in ResponseKind
                BY <3>2, ElementOfSeq, LenProperties
                DEF IInv, ReasonInv, StopInHand, PushesStop, main, StopKind, ResponseKind
            <4>2. QED
                BY <1>1, <3>2, <4>1, AppendProperties DEF PushesStop, TypeOK
        <3>3. CASE UNCHANGED responses
            BY <1>1, <3>3 DEF TypeOK
        <3>4. QED
            BY <1>2, <3>1, <3>2, <3>3 DEF Main, WritesConfig, ConfigWritten, ReadsStop,
                ReadsEnd, MainTestsFlag, MainSetsFlag, MainWritesDone,
                MainHalfClosed, Finishes
    <2>3. /\ mainPc' \in MainPc /\ writerPc' \in WriterPc
          /\ i' = i /\ late' = late
          /\ halfClosedStream' \in BOOLEAN /\ aborted' \in BOOLEAN
        BY <1>1, <1>2 DEF TypeOK, MainPc, WriterPc, main,
            Main, WritesConfig, ConfigWritten, ReadsResult, ReadsStop,
            ReadsEnd, MainTestsFlag, MainSetsFlag, MainWritesDone,
            MainHalfClosed, PushesStop, Finishes, WritesDone
    <2>4. QED
        BY <1>1, <2>1, <2>2, <2>3 DEF TypeOK
<1>3. CASE Writer
    <2>1. CallTypeOK(Request)'
        <3>1. \/ StartWrite(i) /\ i \in Request
              \/ WriteFails \/ StartHalfClose
              \/ UNCHANGED callVars
            BY <1>1, <1>3 DEF IInv, FlightInv, TypeOK, Request, writer,
                Writer, WriterLoops, WriterWrites, WriterWritten, WriterTestsFlag,
                WriterSetsFlag, WriterWritesDone, WriterHalfClosed, WritesDone
        <3>2. QED
            BY <1>1, <3>1, ClientStepType DEF TypeOK
    <2>2. i' \in 1 .. NumFrames + 1
        BY <1>1, <1>3 DEF IInv, FlightInv, TypeOK, writer,
            Writer, WriterLoops, WriterWrites, WriterWritten, WriterTestsFlag,
            WriterSetsFlag, WriterWritesDone, WriterHalfClosed
    <2>3. /\ writerPc' \in WriterPc /\ mainPc' = mainPc
          /\ halfClosedStream' \in BOOLEAN /\ aborted' \in BOOLEAN
        BY <1>1, <1>3 DEF TypeOK, WriterPc, writer,
            Writer, WriterLoops, WriterWrites, WriterWritten, WriterTestsFlag,
            WriterSetsFlag, WriterWritesDone, WriterHalfClosed, WritesDone
    <2>4. late' \in Nat /\ responses' = responses
        BY <1>1, <1>3 DEF TypeOK,
            Writer, WriterLoops, WriterWrites, WriterWritten, WriterTestsFlag,
            WriterSetsFlag, WriterWritesDone, WriterHalfClosed
    <2>5. QED
        BY <1>1, <2>1, <2>2, <2>3, <2>4 DEF TypeOK
<1>4. CASE Environment /\ UNCHANGED clientVars
    BY <1>1, <1>4, EnvironmentStep DEF TypeOK, clientVars
<1>5. CASE UNCHANGED vars
    BY <1>1, <1>5 DEF TypeOK, CallTypeOK, vars, callVars, clientVars
<1>6. QED
    BY <1>2, <1>3, <1>4, <1>5 DEF Next, Outside

\* Where the threads are, relative to each other.
LEMMA StartStep ==
    ASSUME IInv, [Next]_vars
    PROVE  StartInv'
<1>1. TypeOK /\ StartInv
    BY DEF IInv
<1>2. CASE Main
    BY <1>1, <1>2 DEF TypeOK, CallTypeOK, StartInv, main, ResponsesOver, CallOver,
        Main, WritesConfig, ConfigWritten, ReadsResult, ReadsStop,
        ReadsEnd, MainTestsFlag, MainSetsFlag, MainWritesDone,
        MainHalfClosed, PushesStop, Finishes, WritesDone,
        StartWrite, WriteFails, TakeResponse, StartHalfClose, callVars, upVars, downVars
<1>3. CASE Writer
    <2>1. /\ writerPc # "none" /\ writerPc' # "none" /\ writerPc # "done"
          /\ mainPc' = mainPc /\ UNCHANGED downVars /\ (CallOver => CallOver')
        BY <1>3 DEF writer, WritesDone, StartWrite, WriteFails, StartHalfClose,
            CallOver, callVars, downVars,
            Writer, WriterLoops, WriterWrites, WriterWritten, WriterTestsFlag,
            WriterSetsFlag, WriterWritesDone, WriterHalfClosed
    <2>2. QED
        BY <1>1, <2>1 DEF StartInv, downVars
<1>4. CASE Environment /\ UNCHANGED clientVars /\ ~Terminated
    <2>1. half = "open" => half' = "open"
        BY <1>4 DEF Environment, FlushRequest, FlushHalfClose, Deadline, ServiceReads,
            ServiceEnds, EndCall, ServiceResponds, upVars
    <2>2. /\ got' = got
          /\ CallOver => CallOver' /\ inbound' = inbound
        BY <1>1, <1>4, EnvironmentStep DEF TypeOK
    <2>3. QED
        BY <1>1, <1>4, <2>1, <2>2 DEF StartInv, clientVars
<1>5. CASE UNCHANGED vars
    BY <1>1, <1>5 DEF StartInv, CallOver, vars, callVars, clientVars
<1>6. QED
    BY <1>2, <1>3, <1>4, <1>5 DEF Next, Outside

\* The flag and the half-close go together.
LEMMA FlagStep ==
    ASSUME IInv, [Next]_vars
    PROVE  FlagInv'
<1>1. TypeOK /\ FlagInv /\ StartInv
    BY DEF IInv
<1>2. CASE Main
    BY <1>1, <1>2 DEF TypeOK, CallTypeOK, StartInv, FlagInv, main, WritesDone,
        Main, WritesConfig, ConfigWritten, ReadsResult, ReadsStop,
        ReadsEnd, MainTestsFlag, MainSetsFlag, MainWritesDone,
        MainHalfClosed, PushesStop, Finishes,
        StartWrite, WriteFails, TakeResponse, StartHalfClose, callVars, upVars
<1>3. CASE Writer
    BY <1>1, <1>3 DEF TypeOK, CallTypeOK, FlagInv, writer, WritesDone,
        StartWrite, WriteFails, StartHalfClose, callVars,
        Writer, WriterLoops, WriterWrites, WriterWritten, WriterTestsFlag,
        WriterSetsFlag, WriterWritesDone, WriterHalfClosed
<1>4. CASE Environment /\ UNCHANGED clientVars
    <2>1. half' = "open" <=> half = "open"
        BY <1>1, <1>4 DEF TypeOK, CallTypeOK, Environment, FlushRequest, FlushHalfClose,
            Deadline, ServiceReads, ServiceEnds, EndCall, ServiceResponds, upVars
    <2>2. QED
        BY <1>1, <1>4, <2>1 DEF FlagInv, clientVars
<1>5. CASE UNCHANGED vars
    BY <1>1, <1>5 DEF FlagInv, vars, callVars, clientVars
<1>6. QED
    BY <1>2, <1>3, <1>4, <1>5 DEF Next, Outside

\* gRPC puts the half-close on the wire behind the request it holds and takes
\* no request after it.
LEMMA ClosedStep ==
    ASSUME IInv, [Next]_vars
    PROVE  ClosedInv'
<1>1. ClosedInv
    BY DEF IInv
<1>2. CASE Main
    BY <1>1, <1>2 DEF ClosedInv, WritesDone,
        Main, WritesConfig, ConfigWritten, ReadsResult, ReadsStop,
        ReadsEnd, MainTestsFlag, MainSetsFlag, MainWritesDone,
        MainHalfClosed, PushesStop, Finishes,
        StartWrite, WriteFails, TakeResponse, StartHalfClose, callVars, upVars
<1>3. CASE Writer
    BY <1>1, <1>3 DEF ClosedInv, WritesDone,
        StartWrite, WriteFails, StartHalfClose, callVars,
        Writer, WriterLoops, WriterWrites, WriterWritten, WriterTestsFlag,
        WriterSetsFlag, WriterWritesDone, WriterHalfClosed
<1>4. CASE Environment
    BY <1>1, <1>4 DEF ClosedInv, Environment, FlushRequest, FlushHalfClose,
        Deadline, ServiceReads, ServiceEnds, EndCall, ServiceResponds, upVars
<1>5. CASE UNCHANGED vars
    BY <1>1, <1>5 DEF ClosedInv, vars, callVars
<1>6. QED
    BY <1>2, <1>3, <1>4, <1>5 DEF Next, Outside

\* The writer gets past its test of the flag at most once after the flag is set.
LEMMA LateStep ==
    ASSUME IInv, [Next]_vars
    PROVE  LateInv'
<1>1. TypeOK /\ LateInv
    BY DEF IInv
<1>2. CASE WriterLoops
    BY <1>1, <1>2 DEF TypeOK, LateInv, WriterLoops
<1>3. CASE WriterWrites
    BY <1>1, <1>3 DEF TypeOK, LateInv, WriterWrites, writer
<1>4. CASE /\ UNCHANGED late
           /\ writerPc' # "write" \/ UNCHANGED writerPc
           /\ halfClosedStream' = halfClosedStream \/ halfClosedStream' = TRUE
    BY <1>1, <1>4 DEF TypeOK, LateInv
<1>5. QED
    BY <1>2, <1>3, <1>4 DEF Next, Outside, vars, clientVars, writer,
        Main, WritesConfig, ConfigWritten, ReadsResult, ReadsStop,
        ReadsEnd, MainTestsFlag, MainSetsFlag, MainWritesDone,
        MainHalfClosed, PushesStop, Finishes,
        Writer, WriterWritten, WriterTestsFlag,
        WriterSetsFlag, WriterWritesDone, WriterHalfClosed

\* The requests on the wire and the one in gRPC's hands are 0, 1, 2, ... up to
\* the writer's position.
LEMMA FlightStep ==
    ASSUME IInv, [Next]_vars
    PROVE  FlightInv'
<1> USE CppStreamingAssumption
<1>1. TypeOK /\ StartInv /\ FlightInv /\ FlagInv
    BY DEF IInv
<1>2. Len(sent) \in Nat /\ i \in 1 .. NumFrames + 1
    BY <1>1, LenProperties DEF TypeOK, CallTypeOK
<1>3. CASE Main
    <2>1. CASE WritesConfig
        <3>1. i = 1 /\ queued = <<>> /\ Len(sent) = 0 /\ half = "open"
            BY <1>1, <2>1 DEF StartInv, FlightInv, WritesConfig, main
        <3>2. sent' = sent /\ i' = i /\ CallOver' = CallOver
            BY <2>1 DEF WritesConfig, StartWrite, CallOver, callVars
        <3>3. \/ mainPc' = "configuring" /\ queued' = <<0>> /\ writerPc' = "none"
              \/ mainPc' = "read" /\ queued' = <<>> /\ writerPc' = "loop" /\ CallOver
            BY <1>1, <2>1, <3>1 DEF WritesConfig, StartWrite, main, WriteRefused,
                StartInv, callVars
        <3>4. QED
            BY <1>1, <3>1, <3>2, <3>3 DEF FlightInv
    <2>2. CASE ConfigWritten
        <3>1. i = 1 /\ sent' = sent /\ i' = i /\ CallOver' = CallOver
            BY <1>1, <2>2 DEF FlightInv, ConfigWritten, main, WriteFails, CallOver,
                callVars
        <3>2. mainPc' = "read" /\ writerPc' = "loop" /\ queued' = <<>>
            BY <2>2 DEF ConfigWritten, main, WriteFails, WriteDone, callVars
        <3>3. CallOver \/ Len(sent) = 1
            BY <1>1, <2>2 DEF FlightInv, ConfigWritten, main, WriteDone, WriteFails
        <3>4. QED
            BY <1>1, <1>2, <3>1, <3>2, <3>3 DEF FlightInv
    <2>3. CASE /\ UNCHANGED <<queued, sent, status, writerPc, i>>
               /\ mainPc' \notin {"config", "configuring"}
        BY <1>1, <2>3 DEF FlightInv, CallOver
    <2>4. QED
        BY <1>3, <2>1, <2>2, <2>3 DEF main, Main, ReadsResult, ReadsStop,
            ReadsEnd, MainTestsFlag, MainSetsFlag, MainWritesDone,
            MainHalfClosed, PushesStop, Finishes, WritesDone, StartHalfClose,
            TakeResponse, callVars, upVars
<1>4. CASE Writer
    <2>1. mainPc' = mainPc /\ mainPc \notin {"config", "configuring"}
        BY <1>1, <1>4 DEF StartInv, writer,
            Writer, WriterLoops, WriterWrites, WriterWritten, WriterTestsFlag,
            WriterSetsFlag, WriterWritesDone, WriterHalfClosed
    <2>2. sent' = sent /\ CallOver' = CallOver
        BY <1>4 DEF Writer, WriterLoops, WriterWrites, WriterWritten, WriterTestsFlag,
            WriterSetsFlag, WriterWritesDone, WriterHalfClosed,
            WritesDone, StartWrite, WriteFails, StartHalfClose, CallOver, callVars
    <2>3. CASE WriterLoops
        BY <1>1, <2>1, <2>2, <2>3 DEF FlightInv, WriterLoops, callVars
    <2>4. CASE WriterWrites
        <3>1. /\ i' = i /\ i <= NumFrames
              /\ queued = <<>> /\ (CallOver \/ Len(sent) = i)
            BY <1>1, <2>4 DEF FlightInv, WriterWrites, writer
        <3>2. \/ writerPc' = "writing" /\ queued' = <<i>> /\ ~CallOver
              \/ writerPc' = "exit" /\ queued' = <<>>
            BY <2>4, <3>1 DEF WriterWrites, writer, StartWrite, callVars
        <3>3. QED
            BY <1>1, <2>1, <2>2, <3>1, <3>2 DEF FlightInv
    <2>5. CASE WriterWritten
        <3>1. \/ writerPc' = "loop" /\ i' = i + 1 /\ queued' = <<>> /\ Len(sent) = i + 1
              \/ writerPc' = "exit" /\ i' = i /\ queued' = <<>>
            <4>1. CASE WriteDone
                <5>1. writerPc = "writing" /\ queued = <<>> /\ UNCHANGED queued
                    BY <2>5, <4>1 DEF WriterWritten, writer, WriteDone, WriteFails, callVars
                <5>2. Len(sent) = i + 1
                    BY <1>1, <5>1 DEF FlightInv
                <5>3. QED
                    BY <2>5, <4>1, <5>1, <5>2 DEF WriterWritten, writer, WriteDone, WriteFails
            <4>2. CASE WriteFails
                BY <2>5, <4>2 DEF WriterWritten, writer, WriteDone, WriteFails
            <4>3. QED
                BY <2>5, <4>1, <4>2 DEF WriterWritten
        <3>2. QED
            BY <1>1, <2>1, <2>2, <3>1 DEF FlightInv
    <2>6. CASE WriterTestsFlag \/ WriterSetsFlag \/ WriterWritesDone \/ WriterHalfClosed
        <3>1. queued = <<>> /\ queued' = queued /\ i' = i
            BY <1>1, <2>6 DEF FlightInv, WriterTestsFlag, WriterSetsFlag,
                WriterWritesDone, WriterHalfClosed, writer, WritesDone,
                StartHalfClose, callVars
        <3>2. writerPc' \in {"exit", "flagSet", "writesDone", "halfClosing", "done"}
            BY <2>6 DEF WriterTestsFlag, WriterSetsFlag,
                WriterWritesDone, WriterHalfClosed, writer
        <3>3. QED
            BY <1>1, <2>1, <2>2, <3>1, <3>2 DEF FlightInv
    <2>7. QED
        BY <1>4, <2>3, <2>4, <2>5, <2>6 DEF Writer
<1>5. CASE Environment /\ UNCHANGED clientVars
    <2>1. mainPc' = mainPc /\ writerPc' = writerPc /\ i' = i
        BY <1>5 DEF clientVars
    <2>2. CASE FlushRequest
        <3>1. ~CallOver /\ queued # <<>> /\ queued' = <<>>
            BY <2>2 DEF FlushRequest
        <3>2. /\ Len(sent') = Len(sent) + 1
              /\ \A k \in 1 .. Len(sent) : sent'[k] = sent[k]
              /\ sent'[Len(sent) + 1] = queued[1]
            BY <1>1, <2>2, FlushAppends DEF TypeOK
        <3>3. \/ mainPc = "configuring" /\ queued = <<0>> /\ Len(sent) = 0
              \/ writerPc = "writing" /\ queued = <<i>> /\ Len(sent) = i
            BY <1>1, <3>1 DEF TypeOK, WriterPc, StartInv, FlightInv, MainPc
        <3>4. queued[1] = Len(sent)
            BY <3>3
        <3>5. \A k \in 1 .. Len(sent') : sent'[k] = k - 1
            BY <1>1, <1>2, <3>2, <3>4 DEF FlightInv
        <3>6. QED
            BY <1>1, <1>2, <2>1, <3>1, <3>2, <3>3, <3>5 DEF FlightInv, StartInv
    <2>3. CASE UNCHANGED <<queued, sent>>
        <3>1. CallOver => CallOver'
            BY <1>1, <1>5, EnvironmentStep DEF TypeOK
        <3>2. QED
            BY <1>1, <2>1, <2>3, <3>1 DEF FlightInv
    <2>4. QED
        BY <1>5, <2>2, <2>3 DEF Environment, FlushHalfClose, Deadline, ServiceReads,
            ServiceEnds, EndCall, ServiceResponds, upVars
<1>6. CASE UNCHANGED vars
    BY <1>1, <1>6 DEF FlightInv, CallOver, vars, callVars, clientVars
<1>7. QED
    BY <1>3, <1>4, <1>5, <1>6 DEF Next, Outside

\* What no step takes back: a stop response read, the end of the call, the
\* writer's progress, and the audio being out.
LEMMA Progress ==
    ASSUME IInv, [Next]_vars
    PROVE  /\ StopRead => StopRead'
           /\ CallOver => CallOver'
           /\ i' >= i
           /\ Len(sent) = NumFrames + 1 => Len(sent') = NumFrames + 1
           /\ AudioDone => AudioDone'
<1> USE CppStreamingAssumption
<1>1. TypeOK /\ StartInv /\ FlightInv
    BY DEF IInv
<1>2. /\ Len(sent) \in Nat /\ i \in 1 .. NumFrames + 1
      /\ got \in 0 .. Len(inbound) /\ Len(inbound) \in Nat
    BY <1>1, LenProperties DEF TypeOK, CallTypeOK
<1>3. ASSUME Environment /\ UNCHANGED clientVars
      PROVE  /\ got' = got /\ i' = i
             /\ \A k \in 1 .. got : inbound'[k] = inbound[k]
             /\ CallOver => CallOver'
             /\ Len(sent) = NumFrames + 1 => Len(sent') = NumFrames + 1
    <2>1. /\ got' = got /\ i' = i
          /\ \A k \in 1 .. got : inbound'[k] = inbound[k]
          /\ CallOver => CallOver'
        BY <1>1, <1>3, EnvironmentStep DEF TypeOK, clientVars
    <2>2. FlushRequest => Len(sent) <= NumFrames
        <3>1. FlushRequest => \/ mainPc = "configuring" /\ Len(sent) = 0
                              \/ writerPc = "writing" /\ Len(sent) = i /\ i <= NumFrames
            BY <1>1 DEF TypeOK, MainPc, WriterPc, StartInv, FlightInv, FlushRequest
        <3>2. QED
            BY <3>1
    <2>3. FlushRequest \/ sent' = sent
        BY <1>3 DEF Environment, FlushHalfClose, Deadline, ServiceReads,
            ServiceEnds, EndCall, ServiceResponds, upVars
    <2>4. QED
        BY <1>2, <2>1, <2>2, <2>3
<1>4. ASSUME Main \/ Writer \/ UNCHANGED vars
      PROVE  /\ got' >= got /\ got' \in Nat
             /\ inbound' = inbound /\ status' = status /\ sent' = sent
    BY <1>2, <1>4 DEF Main, WritesConfig, ConfigWritten, ReadsResult, ReadsStop,
        ReadsEnd, MainTestsFlag, MainSetsFlag, MainWritesDone,
        MainHalfClosed, PushesStop, Finishes,
        Writer, WriterLoops, WriterWrites, WriterWritten, WriterTestsFlag,
        WriterSetsFlag, WriterWritesDone, WriterHalfClosed,
        WritesDone, StartWrite, WriteFails, StartHalfClose, TakeResponse,
        callVars, upVars, downVars, vars
<1>5. ASSUME Main \/ Writer \/ UNCHANGED vars
      PROVE  i' = i \/ (writerPc = "writing" /\ i' = i + 1)
    BY <1>5 DEF Main, WritesConfig, ConfigWritten, ReadsResult, ReadsStop,
        ReadsEnd, MainTestsFlag, MainSetsFlag, MainWritesDone,
        MainHalfClosed, PushesStop, Finishes, writer,
        Writer, WriterLoops, WriterWrites, WriterWritten, WriterTestsFlag,
        WriterSetsFlag, WriterWritesDone, WriterHalfClosed, vars, clientVars
<1>6. i' >= i /\ (i = NumFrames + 1 => i' = i)
    BY <1>1, <1>2, <1>3, <1>5 DEF Next, Outside, FlightInv
<1>7. /\ CallOver => CallOver'
      /\ Len(sent) = NumFrames + 1 => Len(sent') = NumFrames + 1
    BY <1>3, <1>4 DEF Next, Outside, CallOver
<1>8. StopRead => StopRead'
    BY <1>1, <1>2, <1>3, <1>4, StopReadStable DEF Next, Outside, TypeOK
<1>9. QED
    BY <1>6, <1>7, <1>8 DEF AudioDone

\* Why a thread that is about to half-close may do so, and what a second
\* half-close meets.
LEMMA ReasonStep ==
    ASSUME IInv, [Next]_vars
    PROVE  ReasonInv'
<1> USE CppStreamingAssumption
<1>1. TypeOK /\ StartInv /\ FlightInv /\ FlagInv /\ ReasonInv
    BY DEF IInv
<1>2. /\ Len(sent) \in Nat /\ i \in 1 .. NumFrames + 1
      /\ got \in 0 .. Len(inbound) /\ Len(inbound) \in Nat
    BY <1>1, LenProperties DEF TypeOK, CallTypeOK
<1>3. /\ StopRead => StopRead'
      /\ CallOver => CallOver'
      /\ i' >= i /\ i' \in Int
      /\ Len(sent) = NumFrames + 1 => Len(sent') = NumFrames + 1
      /\ AudioDone => AudioDone'
    BY Progress, TypeStep DEF TypeOK
<1>4. StopInHand => StopRead
    BY <1>1, <1>2 DEF ReasonInv, StopRead
\* A step that neither half-closes nor moves a thread towards it.
<1>5. ASSUME UNCHANGED <<half, aborted>>
      PROVE  WholeAudio' /\ AbortOnlyAtEnd'
    BY <1>1, <1>2, <1>3, <1>5 DEF ReasonInv, WholeAudio, AbortOnlyAtEnd
<1>6. (StopInHand => got > 0 /\ inbound[got] \in StopKind)'
    <2>1. CASE ReadsStop
        BY <1>2, <2>1 DEF ReadsStop, TakeResponse, NextResponse
    <2>2. CASE Environment /\ UNCHANGED clientVars
        <3>1. got' = got /\ \A k \in 1 .. got : inbound'[k] = inbound[k]
            BY <1>1, <2>2, EnvironmentStep DEF TypeOK
        <3>2. QED
            BY <1>1, <1>2, <2>2, <3>1 DEF ReasonInv, StopInHand, clientVars
    <2>3. CASE UNCHANGED <<got, inbound>> /\ (StopInHand' => StopInHand)
        BY <1>1, <2>3 DEF ReasonInv
    <2>4. CASE ~StopInHand'
        BY <2>4
    <2>5. QED
        BY <2>1, <2>2, <2>3, <2>4 DEF Next, Outside, StopInHand, main,
            Main, WritesConfig, ConfigWritten, ReadsResult,
            ReadsEnd, MainTestsFlag, MainSetsFlag, MainWritesDone,
            MainHalfClosed, PushesStop, Finishes,
            Writer, WriterLoops, WriterWrites, WriterWritten, WriterTestsFlag,
            WriterSetsFlag, WriterWritesDone, WriterHalfClosed,
            WritesDone, StartWrite, WriteFails, StartHalfClose,
            callVars, downVars, upVars, vars, clientVars
<1>7. CASE MainWritesDone
    <2>1. StopRead /\ StopRead'
        BY <1>3, <1>4, <1>7 DEF MainWritesDone, main, StopInHand
    <2>2. WholeAudio'
        BY <2>1 DEF WholeAudio
    <2>3. AbortOnlyAtEnd'
        <3>1. half # "open" => CallOver \/ i > NumFrames
            BY <1>1, <1>7 DEF ReasonInv, MainWritesDone, main
        <3>2. aborted' => aborted \/ half # "open"
            BY <1>7 DEF MainWritesDone, WritesDone
        <3>3. QED
            BY <1>1, <1>2, <1>3, <2>1, <3>1, <3>2 DEF ReasonInv, AbortOnlyAtEnd
    <2>4. /\ mainPc' = "halfClosing"
          /\ UNCHANGED <<writerPc, halfClosedStream>>
        BY <1>7 DEF MainWritesDone, main
    <2>5. QED
        BY <1>1, <1>3, <1>6, <2>1, <2>2, <2>3, <2>4 DEF ReasonInv
<1>8. CASE WriterWritesDone
    <2>1. AudioDone /\ AudioDone'
        BY <1>1, <1>3, <1>8 DEF ReasonInv, WriterWritesDone, writer
    <2>2. WholeAudio'
        BY <2>1 DEF WholeAudio, AudioDone
    <2>3. AbortOnlyAtEnd'
        <3>1. half # "open" => StopRead
            BY <1>1, <1>8 DEF ReasonInv, WriterWritesDone, writer
        <3>2. aborted' => aborted \/ half # "open"
            BY <1>8 DEF WriterWritesDone, WritesDone
        <3>3. QED
            BY <1>1, <1>2, <1>3, <2>1, <3>1, <3>2 DEF ReasonInv, AbortOnlyAtEnd, AudioDone
    <2>4. /\ writerPc' = "halfClosing"
          /\ UNCHANGED <<mainPc, halfClosedStream>>
        BY <1>8 DEF WriterWritesDone, writer
    <2>5. CallOver' \/ i' > NumFrames
        BY <2>1 DEF AudioDone
    <2>6. QED
        BY <1>6, <2>2, <2>3, <2>4, <2>5 DEF ReasonInv
<1>9. CASE MainTestsFlag
    <2>1. /\ UNCHANGED <<half, aborted, writerPc, halfClosedStream>>
          /\ mainPc' = "push" \/ (mainPc' = "flagSet" /\ half = "open")
        BY <1>1, <1>9 DEF FlagInv, MainTestsFlag, callVars
    <2>2. QED
        BY <1>1, <1>3, <1>5, <1>6, <2>1 DEF ReasonInv
<1>10. CASE WriterTestsFlag
    <2>1. /\ UNCHANGED <<half, aborted, mainPc, halfClosedStream>>
          /\ \/ writerPc' = "done"
             \/ writerPc' = "flagSet" /\ half = "open" /\ AudioDone
        BY <1>1, <1>10 DEF FlagInv, ReasonInv, WriterTestsFlag, callVars
    <2>2. QED
        BY <1>1, <1>2, <1>3, <1>5, <1>6, <2>1 DEF ReasonInv
<1>11. CASE WriterLoops \/ WriterWrites \/ WriterWritten
    <2>1. UNCHANGED <<half, aborted, mainPc, halfClosedStream>>
        BY <1>11 DEF WriterLoops, WriterWrites, WriterWritten, StartWrite, WriteFails,
            callVars
    <2>2. writerPc' = "exit" => halfClosedStream \/ AudioDone
        <3>1. CASE WriterLoops
            BY <1>1, <1>2, <3>1 DEF FlightInv, WriterLoops, AudioDone
        <3>2. CASE WriterWrites
            BY <1>1, <3>2 DEF FlagInv, WriterWrites, writer, WriteRefused, AudioDone,
                StartWrite
        <3>3. CASE WriterWritten
            BY <3>3 DEF WriterWritten, writer, WriteFails, AudioDone
        <3>4. QED
            BY <1>11, <3>1, <3>2, <3>3
    <2>3. writerPc' \in {"write", "exit", "writing", "loop"}
        BY <1>11 DEF WriterLoops, WriterWrites, WriterWritten, writer
    <2>4. QED
        BY <1>1, <1>2, <1>3, <1>5, <1>6, <2>1, <2>2, <2>3 DEF ReasonInv
\* The others leave each thread where its reason still stands.
<1>12. CASE /\ UNCHANGED aborted
            /\ half' = half \/ (half # "open" /\ half' # "open")
            /\ writerPc' \in {"exit", "flagSet", "writesDone"} =>
                 writerPc' = writerPc \/ (writerPc = "flagSet" /\ writerPc' = "writesDone")
            /\ mainPc' \in {"flagSet", "writesDone"} =>
                 mainPc' = mainPc \/ (mainPc = "flagSet" /\ mainPc' = "writesDone")
            /\ halfClosedStream => halfClosedStream'
    <2>1. WholeAudio' /\ AbortOnlyAtEnd'
        BY <1>1, <1>2, <1>3, <1>12 DEF ReasonInv, WholeAudio, AbortOnlyAtEnd
    <2>2. QED
        BY <1>1, <1>2, <1>3, <1>6, <1>12, <2>1 DEF ReasonInv
<1>13. CASE Main /\ ~MainWritesDone /\ ~MainTestsFlag
    <2>1. UNCHANGED <<aborted, half>> /\ (halfClosedStream => halfClosedStream')
        BY <1>13 DEF Main, WritesConfig, ConfigWritten, ReadsResult, ReadsStop,
            ReadsEnd, MainSetsFlag, MainHalfClosed, PushesStop, Finishes,
            StartWrite, WriteFails, TakeResponse, callVars, upVars
    <2>2. /\ writerPc' = writerPc \/ writerPc' = "loop"
          /\ mainPc' \in {"flagSet", "writesDone"} =>
               mainPc = "flagSet" /\ mainPc' = "writesDone"
        BY <1>13 DEF Main, WritesConfig, ConfigWritten, ReadsResult, ReadsStop,
            ReadsEnd, MainSetsFlag, MainHalfClosed, PushesStop, Finishes, main
    <2>3. QED
        BY <1>12, <2>1, <2>2
<1>14. CASE WriterSetsFlag \/ WriterHalfClosed
    BY <1>12, <1>14 DEF WriterSetsFlag, WriterHalfClosed, writer, callVars
<1>15. CASE Environment /\ UNCHANGED clientVars
    <2>1. half' = half \/ (half # "open" /\ half' # "open")
        BY <1>15 DEF Environment, FlushRequest, FlushHalfClose, Deadline,
            ServiceReads, ServiceEnds, EndCall, ServiceResponds, upVars
    <2>2. QED
        BY <1>12, <1>15, <2>1 DEF clientVars
<1>16. CASE UNCHANGED vars
    BY <1>12, <1>16 DEF vars, callVars, clientVars
<1>17. QED
    BY <1>7, <1>8, <1>9, <1>10, <1>11, <1>13, <1>14, <1>15, <1>16
    DEF Next, Outside, Writer

\* The responses stored are those read, in order.
LEMMA StoredStep ==
    ASSUME IInv, [Next]_vars
    PROVE  StoredInv'
<1>1. TypeOK /\ StoredInv /\ ReasonInv
    BY DEF IInv
<1>2. /\ got \in 0 .. Len(inbound) /\ Len(inbound) \in Nat
      /\ responses \in Seq(ResponseKind) /\ inbound \in Seq(ResponseKind)
    BY <1>1, LenProperties DEF TypeOK, CallTypeOK
<1>3. CASE ReadsResult
    <2>1. /\ got' = got + 1 /\ inbound' = inbound
          /\ inbound[got + 1] \in ResponseKind
        BY <1>2, <1>3, ElementOfSeq DEF ReadsResult, TakeResponse
    <2>2. responses' = Append(responses, inbound[got + 1])
        BY <1>3 DEF ReadsResult, NextResponse
    <2>3. Stored = got /\ Stored' = got + 1
        BY <1>3, <2>1 DEF Stored, StopInHand, ReadsResult, main
    <2>4. QED
        BY <1>1, <1>2, <2>1, <2>2, <2>3, AppendProperties DEF StoredInv
<1>4. CASE PushesStop
    <2>1. got' = got /\ inbound' = inbound
        BY <1>4 DEF PushesStop, callVars
    <2>2. Stored = got - 1 /\ Stored' = got
        BY <1>4, <2>1 DEF Stored, StopInHand, PushesStop, main
    <2>3. got > 0 /\ inbound[got] \in ResponseKind
        BY <1>1, <1>4 DEF ReasonInv, StopInHand, PushesStop, main, StopKind, ResponseKind
    <2>4. responses' = Append(responses, inbound[got])
        BY <1>4 DEF PushesStop
    <2>5. QED
        BY <1>1, <1>2, <2>1, <2>2, <2>3, <2>4, AppendProperties DEF StoredInv
<1>5. CASE ReadsStop
    <2>1. /\ got' = got + 1 /\ UNCHANGED <<inbound, responses>>
          /\ mainPc = "read" /\ mainPc' = "flagTest"
        BY <1>5 DEF ReadsStop, main, TakeResponse
    <2>2. Stored = got /\ Stored' = got
        BY <1>2, <2>1 DEF Stored, StopInHand
    <2>3. QED
        BY <1>1, <2>1, <2>2 DEF StoredInv
<1>6. CASE UNCHANGED <<got, inbound, responses>> /\ (StopInHand' <=> StopInHand)
    BY <1>1, <1>6 DEF StoredInv, Stored
<1>7. CASE Environment /\ UNCHANGED clientVars
    <2>1. got' = got /\ \A k \in 1 .. got : inbound'[k] = inbound[k]
        BY <1>1, <1>7, EnvironmentStep DEF TypeOK
    <2>2. responses' = responses /\ Stored' = Stored /\ Stored \in -1 .. got
        BY <1>2, <1>7, <2>1 DEF clientVars, Stored, StopInHand
    <2>3. QED
        BY <1>1, <1>2, <2>1, <2>2 DEF StoredInv
<1>8. QED
    BY <1>3, <1>4, <1>5, <1>6, <1>7 DEF Next, Outside, StopInHand, main,
        Main, WritesConfig, ConfigWritten,
        ReadsEnd, MainTestsFlag, MainSetsFlag, MainWritesDone,
        MainHalfClosed, Finishes,
        Writer, WriterLoops, WriterWrites, WriterWritten, WriterTestsFlag,
        WriterSetsFlag, WriterWritesDone, WriterHalfClosed,
        WritesDone, StartWrite, WriteFails, StartHalfClose,
        callVars, downVars, upVars, vars, clientVars

\* IInv holds throughout every behaviour.
THEOREM Invariance == Spec => []IInv
<1>1. IInv /\ [Next]_vars => IInv'
    BY TypeStep, StartStep, FlightStep, FlagStep, ClosedStep, LateStep,
       ReasonStep, StoredStep
    DEF IInv
<1>2. QED
    BY <1>1, InitInv, PTL DEF Spec

-----------------------------------------------------------------------------
(***************************************************************************)
(* The properties of CppStreaming.                                         *)
(***************************************************************************)

\* StreamingRecognize hands gRPC nothing but requests of its vector, and its
\* loop variable stays within it.
THEOREM TypeCorrect == Spec => []TypeOK
BY Invariance, PTL DEF IInv

\* However the threads interleave and the call breaks, the requests go out as
\* 0, 1, 2, ...
THEOREM InOrder == Spec => []RequestsInOrder
<1>1. IInv => RequestsInOrder
    <2> SUFFICES ASSUME IInv PROVE RequestsInOrder
        OBVIOUS
    <2>1. queued # <<>> => \/ mainPc = "configuring" /\ queued = <<0>> /\ Len(sent) = 0
                           \/ writerPc = "writing" /\ queued = <<i>> /\ Len(sent) = i
        BY DEF IInv, TypeOK, WriterPc, MainPc, StartInv, FlightInv
    <2>2. queued # <<>> => queued[1] = Len(sent)
        BY <2>1
    <2>3. QED
        BY <2>2 DEF IInv, FlightInv, RequestsInOrder
<1>2. QED
    BY <1>1, Invariance, PTL

\* At most one frame is handed over after the flag was set.
THEOREM AtMostOneLate == Spec => []LateWritesBounded
<1>1. IInv => LateWritesBounded
    BY DEF IInv, LateInv, LateWritesBounded
<1>2. QED
    BY <1>1, Invariance, PTL

\* What StoredInv says of single responses, for the whole sequence.
LEMMA StoredIsRead == IInv => ResponsesKept
<1> SUFFICES ASSUME IInv PROVE ResponsesKept
    OBVIOUS
<1>1. /\ got \in 0 .. Len(inbound) /\ Len(inbound) \in Nat
      /\ responses \in Seq(ResponseKind) /\ inbound \in Seq(ResponseKind)
    BY LenProperties DEF IInv, TypeOK, CallTypeOK
<1>2. Stored \in 0 .. Len(inbound)
    BY <1>1 DEF IInv, ReasonInv, Stored
<1>3. \A k \in 1 .. Stored : inbound[k] \in ResponseKind
    BY <1>1, <1>2, ElementOfSeq
<1>4. /\ SubSeq(inbound, 1, Stored) \in Seq(ResponseKind)
      /\ Len(SubSeq(inbound, 1, Stored)) = Stored
      /\ \A k \in 1 .. Stored : SubSeq(inbound, 1, Stored)[k] = inbound[k]
    BY <1>2, <1>3, SubSeqProperties
<1>5. responses = SubSeq(inbound, 1, Stored)
    BY <1>1, <1>4, SeqEqual DEF IInv, StoredInv
<1>6. mainPc = "done" => responses = inbound
    BY <1>1, <1>5, SubSeqFull DEF IInv, StartInv, Stored, StopInHand
<1>7. QED
    BY <1>5, <1>6 DEF ResponsesKept, Stored

\* The caller gets every response that reached the client, in order.
THEOREM NothingLost == Spec => []ResponsesKept
BY StoredIsRead, Invariance, PTL

\* StreamingRecognize does not finish a call its side has not half-closed.
THEOREM AlwaysHalfClosed == Spec => []HalfClosedAtEnd
<1>1. IInv => HalfClosedAtEnd
    BY DEF IInv, StartInv, FlagInv, HalfClosedAtEnd
<1>2. QED
    BY <1>1, Invariance, PTL

\* No audio is cut off unless the service asked for it or ended the call.
THEOREM NoAudioCutOff == Spec => []WholeAudio
<1>1. IInv => WholeAudio
    BY DEF IInv, ReasonInv
<1>2. QED
    BY <1>1, Invariance, PTL

\* The process can only be aborted when a stop response meets the end of the
\* audio or of the call.
THEOREM AbortConfined == Spec => []AbortOnlyAtEnd
<1>1. IInv => AbortOnlyAtEnd
    BY DEF IInv, ReasonInv
<1>2. QED
    BY <1>1, Invariance, PTL

-----------------------------------------------------------------------------
(***************************************************************************)
(* StreamingRecognize implements StreamingSession.                         *)
(***************************************************************************)

\* Of responses that are all kept, the caller is given the very sequence.
LEMMA AllKept ==
    ASSUME inbound \in Seq(ResponseKind)
    PROVE  Session!Kept(inbound) = inbound
<1>1. /\ inbound = [k \in 1 .. Len(inbound) |-> inbound[k]]
      /\ \A k \in 1 .. Len(inbound) : inbound[k] \in ResponseKind
    BY LenProperties, ElementOfSeq
<1>2. {k \in 1 .. Len(inbound) : inbound[k] \in ResponseKind} = 1 .. Len(inbound)
    BY <1>1
<1>3. QED
    BY <1>1, <1>2 DEF Session!Kept

LEMMA SessionStep ==
    ASSUME IInv, [Next]_vars
    PROVE  [Session!SessionNext]_(Session!sessionVars)
<1> USE CppStreamingAssumption DEF Session!sessionVars
<1>1. /\ TypeOK /\ StartInv /\ FlightInv /\ ClosedInv /\ ReasonInv
      /\ ResponsesKept
    BY StoredIsRead DEF IInv
<1>2. /\ Len(sent) \in Nat /\ got \in 0 .. Len(inbound) /\ Len(inbound) \in Nat
      /\ inbound \in Seq(ResponseKind)
    BY <1>1, LenProperties DEF TypeOK, CallTypeOK
\* A step of the client that the service and the caller do not see.
<1>3. ASSUME /\ UNCHANGED <<sent, inbound, got, status>>
             /\ half' = "closed" <=> half = "closed"
             /\ mainPc' = "done" <=> mainPc = "done"
             /\ mainPc = "done" => responses' = responses
      PROVE  UNCHANGED Session!sessionVars
    BY <1>3 DEF CallOver
<1>4. CASE ReadsResult \/ ReadsStop
    <2>1. /\ got < Len(inbound) /\ got' = got + 1
          /\ UNCHANGED <<sent, half, inbound, status>>
          /\ mainPc # "done" /\ mainPc' # "done"
        BY <1>4 DEF ReadsResult, ReadsStop, TakeResponse, main, upVars
    <2>2. Session!Look
        BY <2>1 DEF Session!Look, CallOver
    <2>3. QED
        BY <2>2 DEF Session!SessionNext
<1>5. CASE Finishes
    <2>1. /\ mainPc = "join" /\ mainPc' = "done"
          /\ UNCHANGED <<sent, half, inbound, got, status, responses>>
        BY <1>5 DEF Finishes, main, callVars
    <2>2. CallOver /\ got = Len(inbound)
        BY <1>1, <2>1 DEF StartInv
    <2>3. responses = Session!Kept(inbound)
        BY <1>1, <1>2, <2>1, <2>2, AllKept, SubSeqFull DEF ResponsesKept, StopInHand
    <2>4. Session!Answer
        BY <2>1, <2>2, <2>3 DEF Session!Answer, CallOver
    <2>5. QED
        BY <2>4 DEF Session!SessionNext
<1>6. CASE Main /\ ~(ReadsResult \/ ReadsStop \/ Finishes)
    <2>1. UNCHANGED <<sent, inbound, got, status>>
        BY <1>6 DEF Main, WritesConfig, ConfigWritten, ReadsEnd, MainTestsFlag,
            MainSetsFlag, MainWritesDone, MainHalfClosed, PushesStop,
            StartWrite, WriteFails, StartHalfClose, WritesDone, callVars, downVars
    <2>2. half' = "closed" <=> half = "closed"
        BY <1>6 DEF Main, WritesConfig, ConfigWritten, ReadsEnd, MainTestsFlag,
            MainSetsFlag, MainWritesDone, MainHalfClosed, PushesStop,
            StartWrite, WriteFails, StartHalfClose, WritesDone, callVars
    <2>3. mainPc # "done" /\ mainPc' # "done"
        BY <1>6 DEF Main, WritesConfig, ConfigWritten, ReadsEnd, MainTestsFlag,
            MainSetsFlag, MainWritesDone, MainHalfClosed, PushesStop, main
    <2>4. QED
        BY <1>3, <2>1, <2>2, <2>3
<1>7. CASE Writer
    <2>1. UNCHANGED <<sent, inbound, got, status, mainPc, responses>>
        BY <1>7 DEF Writer, WriterLoops, WriterWrites, WriterWritten, WriterTestsFlag,
            WriterSetsFlag, WriterWritesDone, WriterHalfClosed,
            StartWrite, WriteFails, StartHalfClose, WritesDone, callVars, downVars
    <2>2. half' = "closed" <=> half = "closed"
        BY <1>7 DEF Writer, WriterLoops, WriterWrites, WriterWritten, WriterTestsFlag,
            WriterSetsFlag, WriterWritesDone, WriterHalfClosed,
            StartWrite, WriteFails, StartHalfClose, WritesDone, callVars
    <2>3. QED
        BY <1>3, <2>1, <2>2
<1>8. CASE Outside(Environment)
    <2>1. mainPc # "done" /\ mainPc' = mainPc /\ responses' = responses
        BY <1>8 DEF Outside, Terminated, clientVars
    <2>2. CASE FlushRequest
        <3>1. /\ ~CallOver /\ half # "closed"
              /\ UNCHANGED <<half, inbound, got, status>>
            BY <1>1, <2>2 DEF ClosedInv, FlushRequest, downVars
        <3>2. Len(sent') = Len(sent) + 1
            BY <1>1, <2>2, FlushAppends DEF TypeOK
        <3>3. Len(sent) <= NumFrames
            <4>1. \/ mainPc = "configuring" /\ Len(sent) = 0
                  \/ writerPc = "writing" /\ Len(sent) = i /\ i <= NumFrames
                BY <1>1, <2>2 DEF TypeOK, MainPc, WriterPc, StartInv, FlightInv, FlushRequest
            <4>2. QED
                BY <4>1
        <3>4. Session!Deliver
            BY <1>2, <2>1, <3>1, <3>2, <3>3 DEF Session!Deliver, CallOver
        <3>5. QED
            BY <3>4 DEF Session!SessionNext
    <2>3. CASE FlushHalfClose
        <3>1. /\ ~CallOver /\ half = "closing" /\ half' = "closed"
              /\ UNCHANGED <<sent, inbound, got, status>>
            BY <2>3 DEF FlushHalfClose, downVars
        <3>2. Len(sent) = NumFrames + 1 \/ Session!AskedToStop
            BY <1>1, <3>1 DEF ReasonInv, WholeAudio, StopRead, Session!AskedToStop
        <3>3. Session!HalfClose
            BY <2>1, <3>1, <3>2 DEF Session!HalfClose, CallOver
        <3>4. QED
            BY <3>3 DEF Session!SessionNext
    <2>4. CASE ServiceReads
        BY <1>3, <2>1, <2>4 DEF ServiceReads, downVars
    <2>5. CASE \E kind \in ResponseKind : ServiceResponds(kind)
        <3>1. PICK kind \in ResponseKind : ServiceResponds(kind)
            BY <2>5
        <3>2. Session!Arrive(kind)
            BY <2>1, <3>1 DEF ServiceResponds, Session!Arrive, CallOver, upVars
        <3>3. QED
            BY <3>2 DEF Session!SessionNext
    <2>6. CASE Deadline \/ ServiceEnds
        <3>1. PICK st \in FinalStatus : EndCall(st)
            BY <2>6 DEF Deadline, ServiceEnds, FinalStatus
        <3>2. Session!End
            BY <2>1, <3>1 DEF EndCall, Session!End, CallOver, FinalStatus, upVars
        <3>3. QED
            BY <3>2 DEF Session!SessionNext
    <2>7. QED
        BY <1>8, <2>2, <2>3, <2>4, <2>5, <2>6 DEF Outside, Environment
<1>9. CASE UNCHANGED vars
    BY <1>3, <1>9 DEF vars, callVars, clientVars
<1>10. QED
    BY <1>4, <1>5, <1>6, <1>7, <1>8, <1>9 DEF Next

\* Threads, flag and gRPC included, StreamingRecognize does what StreamingSession
\* allows and no more.
THEOREM Implementation == Spec => ImplementsSession
<1>1. Init => Session!SessionInit
    BY EmptySeq DEF Init, CallInit, Session!SessionInit, CallOver
<1>2. QED
    BY <1>1, SessionStep, Invariance, PTL
    DEF Spec, ImplementsSession, Session!SessionSpec
===============================================================================
