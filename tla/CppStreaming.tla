----------------------------- MODULE CppStreaming -----------------------------
(***************************************************************************)
(* DictationClient::StreamingRecognize of the C++ library                  *)
(* (cpp/libdictation-client/dictation_client.cpp:111-176): the calling     *)
(* thread writes the configuration, starts a writer thread that sends the  *)
(* audio frame by frame, reads responses until the call ends, joins the    *)
(* writer and takes the status.  Either thread may half-close the call;    *)
(* they share the flag half_closed_stream, an atomic<bool> that each reads *)
(* and sets in two separate steps.                                         *)
(*                                                                         *)
(* Requests are numbered as in the vector `requests`: 0 is the             *)
(* configuration, 1 .. NumFrames are the audio frames.                     *)
(***************************************************************************)
EXTENDS SpeechCall

CONSTANT NumFrames   \* requests.size() - 1, which CppFraming computes

ASSUME CppStreamingAssumption == NumFrames \in Nat

VARIABLES
    mainPc,           \* where the calling (reading) thread is
    writerPc,         \* where the writer thread is
    i,                \* the writer's loop variable
    halfClosedStream, \* the shared flag
    responses,        \* streaming_received_responses
    aborted,          \* gRPC has aborted the process: a second WritesDone
    late              \* history: frames handed to Write with the flag set

clientVars == <<mainPc, writerPc, i, halfClosedStream, responses, aborted, late>>
vars == <<callVars, clientVars>>

MainPc   == {"config", "configuring", "read", "flagTest", "flagSet",
             "writesDone", "halfClosing", "push", "join", "done"}
WriterPc == {"none", "loop", "write", "writing", "exit", "flagSet",
             "writesDone", "halfClosing", "done"}
Request  == 0 .. NumFrames

TypeOK ==
    /\ CallTypeOK(Request)
    /\ mainPc \in MainPc
    /\ writerPc \in WriterPc
    /\ i \in 1 .. NumFrames + 1
    /\ halfClosedStream \in BOOLEAN
    /\ responses \in Seq(ResponseKind)
    /\ aborted \in BOOLEAN
    /\ late \in Nat

Init ==
    /\ CallInit
    /\ mainPc = "config" /\ writerPc = "none"
    /\ i = 1
    /\ halfClosedStream = FALSE
    /\ responses = <<>>
    /\ aborted = FALSE
    /\ late = 0

-----------------------------------------------------------------------------
(***************************************************************************)
(* WritesDone.  gRPC treats a second one in a call as a misuse of its      *)
(* interface and aborts the process.                                       *)
(***************************************************************************)
WritesDone ==
    \/ StartHalfClose /\ UNCHANGED aborted
    \/ half # "open" /\ aborted' = TRUE /\ UNCHANGED callVars

(***************************************************************************)
(* The calling thread.                                                     *)
(***************************************************************************)
main(from, to) == mainPc = from /\ mainPc' = to

\* stream->Write(config_request), lines 123-124.  Its result is not looked at:
\* the writer is started whether the configuration went out or not (line 132).
WritesConfig ==
    /\ \/ main("config", "configuring") /\ StartWrite(0) /\ UNCHANGED writerPc
       \/ /\ main("config", "read") /\ WriteRefused
          /\ writerPc' = "loop" /\ UNCHANGED callVars
    /\ UNCHANGED <<i, halfClosedStream, responses, aborted, late>>

ConfigWritten ==
    /\ main("configuring", "read")
    /\ \/ WriteDone /\ UNCHANGED callVars
       \/ WriteFails
    /\ writerPc' = "loop"
    /\ UNCHANGED <<i, halfClosedStream, responses, aborted, late>>

\* Mutated: any response makes the client stop.
ReadsResult_Stops ==
    /\ main("read", "flagTest")
    /\ TakeResponse
    /\ NextResponse \notin StopKind
    /\ UNCHANGED <<writerPc, i, halfClosedStream, responses, aborted, late>>

\* Read() brings an ordinary response: lines 151, 158-161.
ReadsResult ==
    /\ main("read", "read")
    /\ TakeResponse
    /\ NextResponse \notin StopKind
    /\ responses' = Append(responses, NextResponse)
    /\ UNCHANGED <<writerPc, i, halfClosedStream, aborted, late>>

\* Read() brings an error or the end of the utterance: lines 151-152.
ReadsStop ==
    /\ main("read", "flagTest")
    /\ TakeResponse
    /\ NextResponse \in StopKind
    /\ UNCHANGED <<writerPc, i, halfClosedStream, responses, aborted, late>>

MainTestsFlag ==
    /\ mainPc = "flagTest"
    /\ mainPc' = IF halfClosedStream THEN "push" ELSE "flagSet"
    /\ UNCHANGED <<callVars, writerPc, i, halfClosedStream, responses, aborted, late>>

\* Mutated: the flag is set and the half-close left to the writer.
MainSetsFlag_NoWritesDone ==
    /\ main("flagSet", "push")
    /\ halfClosedStream' = TRUE
    /\ UNCHANGED <<callVars, writerPc, i, responses, aborted, late>>

MainSetsFlag ==
    /\ main("flagSet", "writesDone")
    /\ halfClosedStream' = TRUE
    /\ UNCHANGED <<callVars, writerPc, i, responses, aborted, late>>

MainWritesDone ==
    /\ main("writesDone", "halfClosing")
    /\ WritesDone
    /\ UNCHANGED <<writerPc, i, halfClosedStream, responses, late>>

MainHalfClosed ==
    /\ main("halfClosing", "push")
    /\ HalfCloseDone
    /\ UNCHANGED <<callVars, writerPc, i, halfClosedStream, responses, aborted, late>>

\* Mutated: the stop response is handled instead of kept.
PushesStop_Drops ==
    /\ main("push", "read")
    /\ UNCHANGED <<callVars, writerPc, i, halfClosedStream, responses, aborted, late>>

\* Mutated: the stop response ends the reading.
PushesStop_Leaves ==
    /\ main("push", "join")
    /\ responses' = Append(responses, inbound[got])
    /\ UNCHANGED <<callVars, writerPc, i, halfClosedStream, aborted, late>>

\* Stop responses are kept with the others: line 161.
PushesStop ==
    /\ main("push", "read")
    /\ responses' = Append(responses, inbound[got])
    /\ UNCHANGED <<callVars, writerPc, i, halfClosedStream, aborted, late>>

\* Mutated: the reading goes on until the call ends well.
ReadsEnd_OnlyOK ==
    /\ main("read", "join")
    /\ ResponsesOver /\ status = "OK"
    /\ UNCHANGED <<callVars, writerPc, i, halfClosedStream, responses, aborted, late>>

\* Read() returns false: the loop ends, line 163.
ReadsEnd ==
    /\ main("read", "join")
    /\ ResponsesOver
    /\ UNCHANGED <<callVars, writerPc, i, halfClosedStream, responses, aborted, late>>

\* writer.join(), then Finish(): lines 164-175.  The responses are returned
\* whatever the status is.
Finishes ==
    /\ main("join", "done")
    /\ writerPc = "done"
    /\ UNCHANGED <<callVars, writerPc, i, halfClosedStream, responses, aborted, late>>

Main ==
    /\ ~aborted
    /\ \/ WritesConfig \/ ConfigWritten
       \/ ReadsResult \/ ReadsStop \/ ReadsEnd
       \/ MainTestsFlag \/ MainSetsFlag \/ MainWritesDone \/ MainHalfClosed
       \/ PushesStop \/ Finishes

-----------------------------------------------------------------------------
(***************************************************************************)
(* The writer thread, lines 132-146.                                       *)
(***************************************************************************)
writer(from, to) == writerPc = from /\ writerPc' = to

\* Mutated: the loop goes one past the last frame.
WriterLoops_PastEnd ==
    /\ writerPc = "loop"
    /\ writerPc' = IF i <= NumFrames + 1 /\ ~halfClosedStream THEN "write" ELSE "exit"
    /\ UNCHANGED <<callVars, mainPc, i, halfClosedStream, responses, aborted, late>>

\* Mutated: the flag is not looked at between two frames.
WriterLoops_NoFlagTest ==
    /\ writerPc = "loop"
    /\ writerPc' = IF i <= NumFrames THEN "write" ELSE "exit"
    /\ UNCHANGED <<callVars, mainPc, i, halfClosedStream, responses, aborted, late>>

\* The loop condition, the sleep and the test of the flag: lines 136-138.
WriterLoops ==
    /\ writerPc = "loop"
    /\ writerPc' = IF i <= NumFrames /\ ~halfClosedStream THEN "write" ELSE "exit"
    /\ UNCHANGED <<callVars, mainPc, i, halfClosedStream, responses, aborted, late>>

\* stream->Write(requests[i]), line 138: handed over, or refused at once.
WriterWrites ==
    /\ \/ writer("write", "writing") /\ StartWrite(i)
       \/ writer("write", "exit") /\ WriteRefused /\ UNCHANGED callVars
    /\ late' = IF halfClosedStream THEN late + 1 ELSE late
    /\ UNCHANGED <<mainPc, i, halfClosedStream, responses, aborted>>

\* Mutated: two frames on at each turn.
WriterWritten_Skips ==
    /\ \/ writer("writing", "loop") /\ WriteDone /\ i' = i + 2 /\ UNCHANGED callVars
       \/ writer("writing", "exit") /\ WriteFails /\ UNCHANGED i
    /\ UNCHANGED <<mainPc, halfClosedStream, responses, aborted, late>>

WriterWritten ==
    /\ \/ writer("writing", "loop") /\ WriteDone /\ i' = i + 1 /\ UNCHANGED callVars
       \/ writer("writing", "exit") /\ WriteFails /\ UNCHANGED i
    /\ UNCHANGED <<mainPc, halfClosedStream, responses, aborted, late>>

\* Mutated: the writer leaves the half-close to the reader.
WriterTestsFlag_NoHalfClose ==
    /\ writer("exit", "done")
    /\ UNCHANGED <<callVars, mainPc, i, halfClosedStream, responses, aborted, late>>

\* Mutated: the flag is not tested after the loop.
WriterTestsFlag_Always ==
    /\ writer("exit", "flagSet")
    /\ UNCHANGED <<callVars, mainPc, i, halfClosedStream, responses, aborted, late>>

\* The flag is tested again after the loop: line 142.
WriterTestsFlag ==
    /\ writerPc = "exit"
    /\ writerPc' = IF halfClosedStream THEN "done" ELSE "flagSet"
    /\ UNCHANGED <<callVars, mainPc, i, halfClosedStream, responses, aborted, late>>

WriterSetsFlag ==
    /\ writer("flagSet", "writesDone")
    /\ halfClosedStream' = TRUE
    /\ UNCHANGED <<callVars, mainPc, i, responses, aborted, late>>

WriterWritesDone ==
    /\ writer("writesDone", "halfClosing")
    /\ WritesDone
    /\ UNCHANGED <<mainPc, i, halfClosedStream, responses, late>>

WriterHalfClosed ==
    /\ writer("halfClosing", "done")
    /\ HalfCloseDone
    /\ UNCHANGED <<callVars, mainPc, i, halfClosedStream, responses, aborted, late>>

Writer ==
    /\ ~aborted
    /\ \/ WriterLoops \/ WriterWrites \/ WriterWritten
       \/ WriterTestsFlag \/ WriterSetsFlag
       \/ WriterWritesDone \/ WriterHalfClosed

-----------------------------------------------------------------------------
Terminated == aborted \/ mainPc = "done"

Outside(A) == ~Terminated /\ A /\ UNCHANGED clientVars

Next ==
    \/ Main \/ Writer \/ Outside(Environment)
    \/ Terminated /\ UNCHANGED vars

Spec == Init /\ [][Next]_vars

(***************************************************************************)
(* Fairness.  Each thread runs as long as it can: neither waits for        *)
(* anything but gRPC and, in join, the other thread.                       *)
(***************************************************************************)
ClientFairness == WF_vars(Main) /\ WF_vars(Writer)

\* The connection moves what it was given, and the service reads the requests
\* and ends the call once it has seen the half-close.
ServiceFairness ==
    /\ WF_vars(Outside(FlushRequest)) /\ WF_vars(Outside(FlushHalfClose))
    /\ WF_vars(Outside(ServiceReads)) /\ WF_vars(Outside(ServiceFinishes))

\* Nothing is assumed of the connection and the service, but time passes.
DeadlineFairness == WF_vars(Outside(Deadline))

FairSpec == Spec /\ ClientFairness

-----------------------------------------------------------------------------
(***************************************************************************)
(* Safety.                                                                 *)
(***************************************************************************)

\* The configuration goes out first and exactly once, and the frames follow it
\* in order, none skipped and none repeated, whichever thread half-closes and
\* whenever the call breaks (dictation_asr.proto:93-97).
RequestsInOrder ==
    /\ \A k \in 1 .. Len(sent) : sent[k] = k - 1
    /\ queued # <<>> => queued[1] = Len(sent)

\* Once either thread has set half_closed_stream the writer hands gRPC at most
\* one more frame: the one whose test of the flag came before.
LateWritesBounded == late <= 1

\* The calling thread holds a stop response it has not yet stored.
StopInHand == mainPc \in {"flagTest", "flagSet", "writesDone", "halfClosing", "push"}

\* The caller is given every response that reached the client, in order, the
\* error and end-of-utterance responses included, however the call ended.
ResponsesKept ==
    /\ responses = SubSeq(inbound, 1, IF StopInHand THEN got - 1 ELSE got)
    /\ mainPc = "done" => responses = inbound

\* StreamingRecognize never finishes a call its side has not half-closed: one
\* of the two threads always does it, whichever sees the flag first.
HalfClosedAtEnd == mainPc = "done" => half # "open"

\* Unless a stop response was read or the call broke, the call is half-closed
\* only after the last frame has gone out: no audio is cut off.
WholeAudio == half # "open" /\ ~StopRead /\ ~CallOver => Len(sent) = NumFrames + 1

\* A second WritesDone needs a stop response that meets the end of the audio,
\* or a call that is over already; it cannot happen in the middle of the audio.
AbortOnlyAtEnd == aborted => StopRead /\ (i > NumFrames \/ CallOver)

\* StreamingRecognize as its caller and the service see it: whatever the two
\* threads do, on the wire the half-close comes after the audio or after a stop
\* response that was read and nothing follows it, and the caller is answered
\* only when the service has ended the call, with everything that arrived.
Session == INSTANCE StreamingSession WITH
    NumRequests  <- NumFrames + 1,
    Response     <- ResponseKind,
    StopResponse <- StopKind,
    KeptResponse <- ResponseKind,
    delivered    <- Len(sent),
    halfClosed   <- half = "closed",
    arrived      <- inbound,
    read         <- got,
    over         <- CallOver,
    answer       <- IF mainPc = "done" THEN <<responses>> ELSE <<>>

ImplementsSession == Session!SessionSpec

(***************************************************************************)
(* Liveness.                                                               *)
(***************************************************************************)

\* A stop response leads to a half-close, whatever connection and service do.
StopHalfCloses == StopRead ~> half # "open"

\* StreamingRecognize returns, or gRPC aborts the process (AbortOnlyAtEnd says
\* when): no thread waits for ever, if the service plays along, or if a
\* deadline passes.
Termination == ServiceFairness \/ DeadlineFairness => <>Terminated

(***************************************************************************)
(* What the comment at dictation_client.cpp:126-129 asks of the client and *)
(* the two-step use of the flag does not give.                             *)
(***************************************************************************)

\* "The client should stop sending additional audio, half-close the gRPC
\* connection": nothing is handed to Write after WritesDone.
NothingAfterHalfClose == [][half # "open" => queued' \in {queued, <<>>}]_vars

\* "... and wait for any additional results until the server closes the gRPC
\* connection": the half-close does not abort the client.
SurvivesHalfClose == ~aborted
===============================================================================
