--------------------------- MODULE StreamingSession ---------------------------
(***************************************************************************)
(* What a streaming recognition promises to its caller and to the service, *)
(* with no threads, no flag and no library in between: the requests reach  *)
(* the wire one after the other, the half-close comes after the last of    *)
(* them or after a response that asks for it and nothing follows it, and   *)
(* a caller who is answered is answered when the service has ended the     *)
(* call, with all of the responses that arrived and are kept.              *)
(*                                                                         *)
(* CppStreaming!ImplementsSession and PyFileStreaming!ImplementsSession:   *)
(* DictationClient::StreamingRecognize, and StreamingRecognizer.recognize  *)
(* over an AudioStream, implement this specification.                      *)
(***************************************************************************)
EXTENDS Integers, Sequences

CONSTANTS
    NumRequests,   \* the configuration and the pieces of the audio
    Response,
    StopResponse,  \* the responses that ask the client to stop
    KeptResponse   \* the responses the caller is given

VARIABLES
    delivered,   \* how many requests are on the wire
    halfClosed,  \* the client's half-close is on the wire
    arrived,     \* the responses that arrived, in order
    read,        \* how many of them the client has looked at
    over,        \* the service has ended the call
    answer       \* <<>>, or <<what the caller was given>>

sessionVars == <<delivered, halfClosed, arrived, read, over, answer>>

SessionInit ==
    /\ delivered = 0 /\ halfClosed = FALSE
    /\ arrived = <<>> /\ read = 0
    /\ over = FALSE /\ answer = <<>>

AskedToStop == \E k \in 1 .. read : arrived[k] \in StopResponse

Deliver ==
    /\ ~over /\ ~halfClosed
    /\ delivered < NumRequests
    /\ delivered' = delivered + 1
    /\ UNCHANGED <<halfClosed, arrived, read, over, answer>>

HalfClose ==
    /\ ~over /\ ~halfClosed
    /\ delivered = NumRequests \/ AskedToStop
    /\ halfClosed' = TRUE
    /\ UNCHANGED <<delivered, arrived, read, over, answer>>

Arrive(r) ==
    /\ ~over
    /\ arrived' = Append(arrived, r)
    /\ UNCHANGED <<delivered, halfClosed, read, over, answer>>

Look ==
    /\ read < Len(arrived)
    /\ read' = read + 1
    /\ UNCHANGED <<delivered, halfClosed, arrived, over, answer>>

\* A call that breaks may take unread responses with it.
End ==
    /\ ~over
    /\ over' = TRUE
    /\ \E kept \in read .. Len(arrived) : arrived' = SubSeq(arrived, 1, kept)
    /\ UNCHANGED <<delivered, halfClosed, read, answer>>

\* The kept responses, each under the position it arrived at.
Kept(rs) == [k \in {k \in 1 .. Len(rs) : rs[k] \in KeptResponse} |-> rs[k]]

\* A caller may be left without an answer: StreamingRecognizer.recognize raises.
Answer ==
    /\ over /\ read = Len(arrived) /\ answer = <<>>
    /\ answer' = <<Kept(arrived)>>
    /\ UNCHANGED <<delivered, halfClosed, arrived, read, over>>

SessionNext ==
    \/ Deliver \/ HalfClose \/ Look \/ End \/ Answer
    \/ \E r \in Response : Arrive(r)

SessionSpec == SessionInit /\ [][SessionNext]_sessionVars
===============================================================================
