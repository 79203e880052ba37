---------------------------- MODULE PyMicStreaming ----------------------------
(***************************************************************************)
(* The Python client streaming from a microphone: PyRecognizer over        *)
(* MicrophoneStream (utils/mic_stream.py).                                 *)
(*                                                                         *)
(* Three threads: PyAudio's callback thread puts chunks into the queue     *)
(* _buff; the generator, in gRPC's consumer thread, takes one chunk, for   *)
(* which it waits, and whatever else is there, and yields them joined; the *)
(* main thread calls close(), which sets the flag `closed` and nothing     *)
(* else, and, once recognize is through, __exit__, which stops the         *)
(* recording and puts None into the queue.                                 *)
(*                                                                         *)
(* Chunks are numbered 1, 2, ... as they are recorded; None is 0.  A       *)
(* request is the configuration or the sequence of chunks it joins.        *)
(***************************************************************************)
EXTENDS PyRecognizer

CONSTANT MaxChunks   \* bound: how many chunks are recorded before close()

ASSUME PyMicStreamingAssumption == MaxChunks \in Nat

VARIABLES
    buff,       \* MicrophoneStream._buff
    closed,     \* MicrophoneStream.closed
    recorded,   \* how many chunks the callback has put into the queue
    gathered,   \* the generator's local `data`, while it is gathering
    exitPc      \* where __exit__ is: "open" until recognize is through

sourceVars == <<buff, closed, recorded, gathered, exitPc>>
vars == <<callVars, recognizerVars, sourceVars>>

None  == 0
Chunk == 1 .. MaxChunks + 1
GeneratorPc == {"get", "drain"}

\* The configuration and the runs of consecutive chunks.
Request ==
    {[n \in 1 .. len |-> first + n - 1] : first \in Chunk, len \in 0 .. MaxChunks + 1}

TypeOK ==
    /\ RecognizerTypeOK(Request, GeneratorPc)
    /\ buff \in Seq(Chunk \cup {None})
    /\ closed \in BOOLEAN
    /\ recorded \in 0 .. MaxChunks + 1
    /\ gathered \in Request
    /\ exitPc \in {"open", "stopped", "closed", "signalled"}

\* Mutated: __enter__ leaves the flag as __init__ set it.
Init_LeftClosed ==
    /\ RecognizerInit
    /\ buff = <<>>
    /\ closed = TRUE
    /\ recorded = 0
    /\ gathered = <<>>
    /\ exitPc = "open"

\* __init__, __enter__ and the start of the call.  The chunks recorded between
\* the opening of the device and the start of the call come later here, which
\* is as good: nothing reads the queue before.
Init ==
    /\ RecognizerInit
    /\ buff = <<>>
    /\ closed = FALSE
    /\ recorded = 0
    /\ gathered = <<>>
    /\ exitPc = "open"

-----------------------------------------------------------------------------
\* _fill_buffer, in PyAudio's thread, until stop_stream().  The bound leaves
\* room for a chunk after close(), which is what the generator may wait for.
FillBuffer ==
    /\ exitPc = "open"
    /\ recorded < MaxChunks \/ (closed /\ recorded = MaxChunks)
    /\ recorded' = recorded + 1
    /\ buff' = Append(buff, recorded + 1)
    /\ UNCHANGED <<callVars, recognizerVars, closed, gathered, exitPc>>

-----------------------------------------------------------------------------
(***************************************************************************)
(* The generator, in the consumer thread.                                  *)
(***************************************************************************)

\* Mutated: the flag is not looked at.
GeneratorTests_IgnoresFlag ==
    /\ consumer("next", "get")
    /\ UNCHANGED <<data, buff, gathered>>

\* while not self.closed, else StopIteration.
GeneratorTests ==
    /\ consumerPc = "next"
    /\ consumerPc' = IF closed THEN "eos" ELSE "get"
    /\ UNCHANGED <<data, buff, gathered>>

\* chunk = self._buff.get(): waits for a chunk, and ends at None.
GeneratorGets ==
    /\ buff # <<>>
    /\ buff' = Tail(buff)
    /\ \/ /\ consumer("get", "drain") /\ Head(buff) # None
          /\ gathered' = <<Head(buff)>>
       \/ /\ consumer("get", "eos") /\ Head(buff) = None
          /\ UNCHANGED gathered
    /\ UNCHANGED data

\* Mutated: a chunk taken while draining replaces those gathered before it.
GeneratorDrains_Replaces ==
    /\ buff # <<>>
    /\ buff' = Tail(buff)
    /\ \/ /\ consumer("drain", "drain") /\ Head(buff) # None
          /\ gathered' = <<Head(buff)>>
       \/ /\ consumer("drain", "eos") /\ Head(buff) = None
          /\ UNCHANGED gathered
    /\ UNCHANGED data

\* Mutated: None is not looked for while draining.
GeneratorDrains_KeepsNone ==
    /\ consumer("drain", "drain")
    /\ buff # <<>>
    /\ buff' = Tail(buff)
    /\ gathered' = Append(gathered, Head(buff))
    /\ UNCHANGED data

\* self._buff.get(block=False) brings a chunk, or None, which ends the
\* generator and drops what was gathered.
GeneratorDrains ==
    /\ buff # <<>>
    /\ buff' = Tail(buff)
    /\ \/ /\ consumer("drain", "drain") /\ Head(buff) # None
          /\ gathered' = Append(gathered, Head(buff))
       \/ /\ consumer("drain", "eos") /\ Head(buff) = None
          /\ UNCHANGED gathered
    /\ UNCHANGED data

\* queue.Empty: yield b''.join(data).
GeneratorYields ==
    /\ consumer("drain", "send")
    /\ buff = <<>>
    /\ data' = gathered
    /\ gathered' = <<>>
    /\ UNCHANGED buff

Generator ==
    /\ GeneratorTests \/ GeneratorGets \/ GeneratorDrains \/ GeneratorYields
    /\ UNCHANGED <<callVars, mainPc, results, closeCalled, late,
                   closed, recorded, exitPc>>

-----------------------------------------------------------------------------
(***************************************************************************)
(* The main thread.                                                        *)
(***************************************************************************)

\* MicrophoneStream.close(): the flag, and nothing that wakes the generator.
Closes ==
    /\ CallsClose
    /\ closed' = TRUE
    /\ UNCHANGED <<buff, recorded, gathered, exitPc>>

\* __exit__: stop_stream() and close() of the device.
ExitStops ==
    /\ Returned
    /\ exitPc = "open" /\ exitPc' = "stopped"
    /\ UNCHANGED <<callVars, recognizerVars, buff, closed, recorded, gathered>>

ExitCloses ==
    /\ exitPc = "stopped" /\ exitPc' = "closed"
    /\ closed' = TRUE
    /\ UNCHANGED <<callVars, recognizerVars, buff, recorded, gathered>>

\* Mutated: the generator is not told.
ExitSignals_Silently ==
    /\ exitPc = "closed" /\ exitPc' = "signalled"
    /\ UNCHANGED <<callVars, recognizerVars, buff, closed, recorded, gathered>>

\* self._buff.put(None), then terminate().
ExitSignals ==
    /\ exitPc = "closed" /\ exitPc' = "signalled"
    /\ buff' = Append(buff, None)
    /\ UNCHANGED <<callVars, recognizerVars, closed, recorded, gathered>>

MainThread ==
    \/ Closes \/ ExitStops \/ ExitCloses \/ ExitSignals
    \/ Main /\ UNCHANGED sourceVars

ConsumerThread == Generator \/ (Consumer /\ UNCHANGED sourceVars)
Around(A)      == Outside(A) /\ UNCHANGED sourceVars

Exited     == exitPc = "signalled"
Terminated == Exited /\ consumerPc = "done"

Next ==
    \/ MainThread \/ ConsumerThread \/ FillBuffer \/ Around(Environment)
    \/ Terminated /\ UNCHANGED vars

Spec == Init /\ [][Next]_vars

(***************************************************************************)
(* Fairness: the threads run.  What is asked of connection and service, of *)
(* the microphone (it keeps recording) and of the deadline is a premise of *)
(* the properties that need it.                                            *)
(***************************************************************************)
ClientFairness  == WF_vars(MainThread) /\ WF_vars(ConsumerThread)
ServiceFairness ==
    /\ WF_vars(Around(FlushRequest)) /\ WF_vars(Around(FlushHalfClose))
    /\ WF_vars(Around(ServiceReads)) /\ WF_vars(Around(ServiceFinishes))

MicFairness      == WF_vars(FillBuffer)
DeadlineFairness == WF_vars(Around(Deadline))

FairSpec   == Spec /\ ClientFairness
SilentSpec == Spec /\ ClientFairness /\ ServiceFairness

-----------------------------------------------------------------------------
(***************************************************************************)
(* Safety.                                                                 *)
(***************************************************************************)
Last(s)  == s[Len(s)]
Elems(s) == {s[k] : k \in 1 .. Len(s)}

\* The audio requests on the wire carry the chunks as they were recorded, one
\* after the other, none missing between two that were sent and none repeated,
\* however the draining of the queue cut them into requests.
ChunksInOrder ==
    \A k \in 2 .. Len(sent) :
        /\ sent[k] # <<>>
        /\ \A n \in 2 .. Len(sent[k]) : sent[k][n] = sent[k][n - 1] + 1
        /\ sent[k][1] = IF k = 2 THEN 1 ELSE Last(sent[k - 1]) + 1

\* Where a recorded chunk may be.
InHand == IF consumerPc = "send" THEN Elems(data) ELSE {}

Somewhere ==
    UNION ({Elems(sent[k]) : k \in 1 .. Len(sent)}
               \cup {Elems(queued[k]) : k \in 1 .. Len(queued)}
               \cup {InHand, Elems(gathered), Elems(buff)})

\* Until close() or the end of the call, every recorded chunk has been sent or
\* is on its way; the generator's drop of what it gathered (line 75) is reached
\* only behind these.
NoChunkLost == ~closed /\ ~CallOver => 1 .. recorded \subseteq Somewhere

\* The flag of close() is never undone: at most the request that the generator
\* is gathering is still handed over.
CloseTakesEffect == late <= 1

\* recognize as its caller and the service see it.  A microphone has no end, so
\* NumRequests is out of reach: the half-close comes only after a stop response
\* that was read.
Session == INSTANCE StreamingSession WITH
    NumRequests  <- MaxChunks + 3,
    Response     <- ResponseKind,
    StopResponse <- StopKind,
    KeptResponse <- ResponseKind \ StopKind,
    delivered    <- Len(sent),
    halfClosed   <- half = "closed",
    arrived      <- inbound,
    read         <- got,
    over         <- CallOver,
    answer       <- Answer

ImplementsSession == Session!SessionSpec

(***************************************************************************)
(* Liveness.                                                               *)
(***************************************************************************)

\* While the microphone records, recognize comes back after a stop response:
\* the flag is looked at, the call half-closed and ended by the service.
StopReturns == ServiceFairness /\ MicFairness => (StopRead ~> Returned)

\* "Signal the generator to terminate so that the client's streaming_recognize
\* method will not block the process termination" (mic_stream.py:40-41): once
\* recognize is through, gRPC's thread does not stay in get(), whatever
\* microphone, connection and service do.
Freed == Returned ~> consumerPc = "done"

\* With a deadline, main thread and gRPC's thread come to their ends whatever
\* the microphone, the connection and the service do.
Termination == DeadlineFairness => <>[]Terminated
===============================================================================
