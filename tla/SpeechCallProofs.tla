---------------------------- MODULE SpeechCallProofs ----------------------------
(***************************************************************************)
(* Lemmas about the steps of a StreamingRecognize call (SpeechCall), cited *)
(* by the proofs about the clients that use them.                          *)
(***************************************************************************)
EXTENDS SpeechCall, SequenceTheorems, TLAPS

\* FlushRequest puts the pending request behind those on the wire and leaves
\* them as they are.
LEMMA FlushAppends ==
    ASSUME NEW Request, CallTypeOK(Request), FlushRequest
    PROVE  /\ CallTypeOK(Request)'
           /\ Len(sent') = Len(sent) + 1
           /\ \A k \in 1 .. Len(sent) : sent'[k] = sent[k]
           /\ sent'[Len(sent) + 1] = queued[1]
           /\ queued' = <<>>
<1>1. queued[1] \in Request
    BY DEF CallTypeOK, FlushRequest
<1>2. /\ sent' \in Seq(Request)
      /\ Len(sent') = Len(sent) + 1
      /\ \A k \in 1 .. Len(sent) : sent'[k] = sent[k]
      /\ sent'[Len(sent) + 1] = queued[1]
    BY <1>1, AppendProperties DEF CallTypeOK, FlushRequest
<1>3. CallTypeOK(Request)'
    BY <1>2, LenProperties DEF CallTypeOK, FlushRequest, downVars
<1>4. QED
    BY <1>2, <1>3 DEF FlushRequest

\* The end of a call keeps the responses the client has read.
LEMMA EndKeepsRead ==
    ASSUME NEW Request, CallTypeOK(Request), NEW st \in FinalStatus, EndCall(st)
    PROVE  /\ CallTypeOK(Request)'
           /\ CallOver'
           /\ \A k \in 1 .. got : inbound'[k] = inbound[k]
<1>1. PICK kept \in got .. Len(inbound) : inbound' = SubSeq(inbound, 1, kept)
    BY DEF EndCall
<1>2. /\ inbound' \in Seq(ResponseKind)
      /\ Len(inbound') = kept
      /\ \A k \in 1 .. kept : inbound'[k] = inbound[k]
    <2>1. \A k \in 1 .. kept : inbound[k] \in ResponseKind
        BY <1>1, ElementOfSeq, LenProperties DEF CallTypeOK
    <2>2. kept \in Nat
        BY <1>1, LenProperties DEF CallTypeOK
    <2>3. QED
        BY <1>1, <2>1, <2>2, SubSeqProperties
<1>3. CallOver'
    BY DEF EndCall, CallOver, FinalStatus
<1>4. CallTypeOK(Request)'
    BY <1>1, <1>2 DEF CallTypeOK, EndCall, upVars
<1>5. QED
    BY <1>1, <1>2, <1>3, <1>4 DEF CallTypeOK

\* A new response goes behind those that arrived before it.
LEMMA ResponseAppends ==
    ASSUME NEW Request, CallTypeOK(Request),
           NEW kind \in ResponseKind, ServiceResponds(kind)
    PROVE  /\ CallTypeOK(Request)'
           /\ Len(inbound') = Len(inbound) + 1
           /\ \A k \in 1 .. Len(inbound) : inbound'[k] = inbound[k]
<1>1. /\ inbound' \in Seq(ResponseKind)
      /\ Len(inbound') = Len(inbound) + 1
      /\ \A k \in 1 .. Len(inbound) : inbound'[k] = inbound[k]
    BY AppendProperties DEF CallTypeOK, ServiceResponds
<1>2. CallTypeOK(Request)'
    BY <1>1, LenProperties DEF CallTypeOK, ServiceResponds, upVars
<1>3. QED
    BY <1>1, <1>2

\* Whatever the connection and the service do, the call stays well formed, what
\* was read stays as it was read, and a call that is over stays over.
LEMMA EnvironmentStep ==
    ASSUME NEW Request, CallTypeOK(Request), Environment
    PROVE  /\ CallTypeOK(Request)'
           /\ got' = got
           /\ \A k \in 1 .. got : inbound'[k] = inbound[k]
           /\ CallOver => CallOver' /\ inbound' = inbound
<1>1. CASE FlushRequest
    BY <1>1, FlushAppends DEF FlushRequest, downVars, CallOver
<1>2. CASE FlushHalfClose
    BY <1>2 DEF FlushHalfClose, CallTypeOK, downVars, CallOver
<1>3. CASE Deadline \/ ServiceEnds
    <2>1. PICK st \in FinalStatus : EndCall(st)
        BY <1>3 DEF Deadline, ServiceEnds, FinalStatus
    <2>2. QED
        BY <2>1, EndKeepsRead DEF EndCall, CallOver
<1>4. CASE ServiceReads
    BY <1>4, LenProperties DEF ServiceReads, CallTypeOK, downVars, CallOver
<1>5. CASE \E kind \in ResponseKind : ServiceResponds(kind)
    <2>1. PICK kind \in ResponseKind : ServiceResponds(kind)
        BY <1>5
    <2>2. got' = got
        BY <2>1 DEF ServiceResponds
    <2>3. got \in 0 .. Len(inbound) /\ Len(inbound) \in Nat
        BY LenProperties DEF CallTypeOK
    <2>4. QED
        BY <2>1, <2>2, <2>3, ResponseAppends DEF ServiceResponds
<1>6. QED
    BY <1>1, <1>2, <1>3, <1>4, <1>5 DEF Environment

\* What a client does to the call keeps it well formed.
LEMMA ClientStepType ==
    ASSUME NEW Request, CallTypeOK(Request),
           \/ \E r \in Request : StartWrite(r)
           \/ WriteFails \/ StartHalfClose \/ TakeResponse
           \/ UNCHANGED callVars
    PROVE  CallTypeOK(Request)'
<1>1. CASE \E r \in Request : StartWrite(r)
    BY <1>1 DEF StartWrite, CallTypeOK, downVars
<1>2. CASE WriteFails
    BY <1>2, EmptySeq DEF WriteFails, CallTypeOK, downVars
<1>3. CASE StartHalfClose
    BY <1>3 DEF StartHalfClose, CallTypeOK, downVars
<1>4. CASE TakeResponse
    BY <1>4, LenProperties DEF TakeResponse, CallTypeOK, upVars
<1>5. CASE UNCHANGED callVars
    BY <1>5 DEF callVars, CallTypeOK
<1>6. QED
    BY <1>1, <1>2, <1>3, <1>4, <1>5

\* A stop response that was read has been read ever after.
LEMMA StopReadStable ==
    ASSUME NEW Request, CallTypeOK(Request), StopRead,
           got' >= got, got' \in Nat,
           \A k \in 1 .. got : inbound'[k] = inbound[k]
    PROVE  StopRead'
BY LenProperties DEF StopRead, CallTypeOK
===============================================================================
