------------------------------ MODULE SpeechCall ------------------------------
(***************************************************************************)
(* One StreamingRecognize call: the gRPC library on the client's side, the *)
(* connection, and the speech service at the other end.  None of this code *)
(* is in the repository.  It is modelled as an environment, from the calls *)
(* the two clients make (Write, WritesDone, Read, Finish in C++; a request *)
(* iterator and a response iterator in Python) and from what               *)
(* proto/dictation_asr.proto says of the service.                          *)
(*                                                                         *)
(* The client modules EXTEND this one, use the operators of the section    *)
(* "What a client may do" inside their own actions, and take Environment   *)
(* as a disjunct of their next-state relations.                            *)
(***************************************************************************)
EXTENDS Integers, Sequences

CONSTANTS
    MaxResponses,    \* bound: how many responses the service sends in a call
    Window,          \* requests the connection holds before the service reads
    SingleUtterance, \* the single_utterance field of the configuration request
    HasDeadline      \* a gRPC deadline is set (grpc_timeout > 0)

ASSUME SpeechCallAssumption ==
    /\ MaxResponses \in Nat
    /\ Window \in Nat \ {0}
    /\ SingleUtterance \in BOOLEAN
    /\ HasDeadline \in BOOLEAN

VARIABLES
    queued,   \* the request handed to gRPC and not yet on the wire: <<>> or <<r>>
    sent,     \* every request put on the wire, in order
    taken,    \* how many of them the service has read
    half,     \* the client's half-close: "open", "closing" (asked for), "closed"
    inbound,  \* every response that reached the client's machine, in order
    got,      \* how many of them the client has read
    status    \* "OPEN", or how the call ended

callVars == <<queued, sent, taken, half, inbound, got, status>>
upVars   == <<queued, sent, taken, half>>   \* client to service
downVars == <<inbound, got>>                \* service to client

(***************************************************************************)
(* A response carries exactly one of an error, a speech event and results  *)
(* (dictation_asr.proto:489-492).  An error or an END_OF_SINGLE_UTTERANCE  *)
(* event asks the client to stop sending audio.                            *)
(***************************************************************************)
ResponseKind == {"result", "event", "error"}
StopKind     == {"event", "error"}
FinalStatus  == {"OK", "FAILED", "DEADLINE_EXCEEDED"}

CallTypeOK(Request) ==
    /\ queued \in {<<>>} \cup {<<r>> : r \in Request}
    /\ sent \in Seq(Request)
    /\ taken \in 0 .. Len(sent)
    /\ half \in {"open", "closing", "closed"}
    /\ inbound \in Seq(ResponseKind)
    /\ got \in 0 .. Len(inbound)
    /\ status \in {"OPEN"} \cup FinalStatus

CallInit ==
    /\ queued = <<>> /\ sent = <<>> /\ taken = 0 /\ half = "open"
    /\ inbound = <<>> /\ got = 0
    /\ status = "OPEN"

-----------------------------------------------------------------------------
(***************************************************************************)
(* What a client may do.                                                   *)
(***************************************************************************)

CallOver == status # "OPEN"

\* Hand one request to gRPC.  A request handed over after the half-close was
\* asked for still goes out, in front of it, while the half-close is not on
\* the wire yet.
StartWrite(r) ==
    /\ ~CallOver /\ half # "closed" /\ queued = <<>>
    /\ queued' = <<r>>
    /\ UNCHANGED <<sent, taken, half, downVars, status>>

\* gRPC answers at once that nothing can be written any more.
WriteRefused == CallOver \/ half = "closed"

\* The request handed over last has gone out.
WriteDone == queued = <<>>

\* The call ended before the request handed over last could go out.
WriteFails ==
    /\ queued # <<>> /\ CallOver
    /\ queued' = <<>>
    /\ UNCHANGED <<sent, taken, half, downVars, status>>

\* Ask for the half-close.  It may be asked for only once in a call.
StartHalfClose ==
    /\ half = "open"
    /\ half' = "closing"
    /\ UNCHANGED <<queued, sent, taken, downVars, status>>

\* The half-close follows the pending request onto the wire.
HalfCloseDone == half = "closed" \/ CallOver

\* The next response, and the end of the responses.
NextResponse == inbound[got + 1]

TakeResponse ==
    /\ got < Len(inbound)
    /\ got' = got + 1
    /\ UNCHANGED <<upVars, inbound, status>>

ResponsesOver == got = Len(inbound) /\ CallOver

\* A stop response is among those the client has read.
StopRead == \E k \in 1 .. got : inbound[k] \in StopKind

-----------------------------------------------------------------------------
(***************************************************************************)
(* The connection.                                                         *)
(***************************************************************************)

FlushRequest ==
    /\ ~CallOver /\ queued # <<>>
    /\ Len(sent) - taken < Window
    /\ sent' = Append(sent, queued[1])
    /\ queued' = <<>>
    /\ UNCHANGED <<taken, half, downVars, status>>

FlushHalfClose ==
    /\ ~CallOver /\ half = "closing" /\ queued = <<>>
    /\ half' = "closed"
    /\ UNCHANGED <<queued, sent, taken, downVars, status>>

\* A call that does not end in OK may take responses with it that the client
\* has not read yet.
EndCall(st) ==
    /\ ~CallOver
    /\ status' = st
    /\ \E kept \in got .. Len(inbound) :
          /\ st = "OK" => kept = Len(inbound)
          /\ inbound' = SubSeq(inbound, 1, kept)
    /\ UNCHANGED <<upVars, got>>

\* The deadline of prepare_context (C++) or the timeout argument (Python).
Deadline == HasDeadline /\ EndCall("DEADLINE_EXCEEDED")

(***************************************************************************)
(* The service.  It answers once it has read the configuration, may end    *)
(* the call whenever it likes, and ends it after the client's half-close.  *)
(***************************************************************************)

ServiceReads ==
    /\ taken < Len(sent)
    /\ taken' = taken + 1
    /\ UNCHANGED <<queued, sent, half, downVars, status>>

\* An event is sent only when single_utterance is set, and at most once
\* (dictation_asr.proto:131-135, 499-505); one call reports at most one error.
ServiceResponds(kind) ==
    /\ ~CallOver /\ taken > 0 /\ Len(inbound) < MaxResponses
    /\ kind = "event" => SingleUtterance
    /\ kind \in StopKind => \A k \in 1 .. Len(inbound) : inbound[k] # kind
    /\ inbound' = Append(inbound, kind)
    /\ UNCHANGED <<upVars, got, status>>

ServiceEnds == \E st \in {"OK", "FAILED"} : EndCall(st)

\* The service has read the audio to its end.
ServiceFinishes == half = "closed" /\ taken = Len(sent) /\ EndCall("OK")

Environment ==
    \/ FlushRequest \/ FlushHalfClose \/ Deadline
    \/ ServiceReads \/ ServiceEnds
    \/ \E kind \in ResponseKind : ServiceResponds(kind)
===============================================================================
