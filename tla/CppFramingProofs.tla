--------------------------- MODULE CppFramingProofs ---------------------------
(***************************************************************************)
(* Proofs about CppFraming, for every width of an unsigned int and every   *)
(* rate and length: the frames follow one another without gap or overlap,  *)
(* and together they are the audio.                                        *)
(***************************************************************************)
EXTENDS CppFraming, SequenceTheorems, TLAPS

\* The last frame, and where the frame behind it would begin.
LastFrame == frames[Len(frames)]
Behind    == LastFrame[1] + FrameSize

\* Each frame has been cut from a place in the audio that an int can hold, and
\* the loop variable is behind the last one, wrapped around if need be.
PositionInv ==
    /\ frames = <<>> => i = 0
    /\ frames # <<>> =>
        /\ 0 <= LastFrame[1] /\ LastFrame[1] <= IntMax /\ LastFrame[1] < length
        /\ LastFrame[2] = IF Behind < length THEN Behind ELSE length
        /\ i = AsInt(Behind)

IInv == TypeOK /\ Contiguous /\ PositionInv

-----------------------------------------------------------------------------
\* What is left of a division by w.
LEMMA Remainder ==
    ASSUME NEW a \in Int, NEW w \in Nat \ {0}
    PROVE  a % w \in 0 .. w - 1
OBVIOUS

\* A small number is its own remainder.
LEMMA SmallRemainder ==
    ASSUME NEW w \in Nat \ {0}, NEW a \in 0 .. w - 1
    PROVE  a % w = a
OBVIOUS

\* IntMax is the greater half of the words.
LEMMA Halves == IntMax \in Int /\ Word = 2 * (IntMax + 1) /\ IntMax >= 0
BY CppFramingAssumption, SMT DEF IntMax

\* A frame is shorter than the words that an int can count.
LEMMA FrameSizeBound ==
    ASSUME bytesPerSec \in Nat
    PROVE  FrameSize \in Nat /\ FrameSize <= IntMax
<1> DEFINE p == frameLength * bytesPerSec
<1>1. p \in Int
    BY DEF frameLength
<1>2. p % Word \in 0 .. Word - 1
    BY <1>1, Remainder, CppFramingAssumption
<1>3. FrameSize = (p % Word) \div 1000
    BY DEF FrameSize
<1> HIDE DEF p
<1> QED
    BY <1>2, <1>3, Halves, SMT

\* An int keeps what it can hold; what is a little too large turns negative.
LEMMA AsIntValue ==
    ASSUME NEW n \in 0 .. Word - 1
    PROVE  /\ n <= IntMax => AsInt(n) = n
           /\ n > IntMax => AsInt(n) = n - Word
           /\ AsInt(n) \in -(IntMax + 1) .. IntMax
BY SmallRemainder, Halves, CppFramingAssumption, SMT DEF AsInt

\* What a sequence is after an element was appended.
LEMMA Appended ==
    ASSUME NEW S, NEW s \in Seq(S), NEW e \in S, NEW t, t = Append(s, e)
    PROVE  /\ Len(t) = Len(s) + 1 /\ Len(s) \in Nat
           /\ t[Len(s) + 1] = e
           /\ \A k \in 1 .. Len(s) : t[k] = s[k]
           /\ t \in Seq(S)
           /\ t # <<>>
BY AppendProperties, LenProperties

-----------------------------------------------------------------------------
\* The invariant holds at the start.
LEMMA InitInv == Init => IInv
<1> SUFFICES ASSUME Init PROVE IInv
    OBVIOUS
<1>1. PICK input \in Inputs : bytesPerSec = input[1] /\ length = input[2]
    BY DEF Init
<1>2. <<bytesPerSec, length>> \in Inputs
    BY <1>1, CppFramingAssumption
<1> QED
    BY <1>2, Halves DEF Init, IInv, TypeOK, Contiguous, PositionInv

\* Inside the audio, the loop variable is where the last frame ended, and that
\* frame has its full size.
LEMMA InAudioAtEnd ==
    ASSUME IInv, InAudio
    PROVE  /\ frames = <<>> => i = 0
           /\ frames # <<>> => LastFrame[2] = i /\ i - LastFrame[1] = FrameSize
<1>1. bytesPerSec \in Nat /\ length \in Nat
    BY CppFramingAssumption DEF IInv, TypeOK
<1>2. FrameSize \in Nat /\ FrameSize <= IntMax
    BY <1>1, FrameSizeBound
<1>3. CASE frames = <<>>
    BY <1>3 DEF IInv, PositionInv
<1>4. CASE frames # <<>>
    <2>1. LastFrame[1] \in Int
        BY <1>4 DEF IInv, TypeOK, LastFrame
    <2>2. Behind \in 0 .. Word - 1
        BY <1>2, <1>4, <2>1, Halves DEF IInv, PositionInv, Behind
    <2>3. i = AsInt(Behind) /\ i >= 0 /\ i < length
        BY <1>4 DEF IInv, PositionInv, InAudio
    <2>4. Behind <= IntMax
        BY <2>2, <2>3, AsIntValue, Halves
    <2>5. i = Behind
        BY <2>2, <2>3, <2>4, AsIntValue
    <2> QED
        BY <1>2, <1>4, <2>1, <2>3, <2>5 DEF IInv, PositionInv, Behind
<1> QED
    BY <1>3, <1>4

\* Cutting a frame keeps it.
LEMMA FrameStep ==
    ASSUME IInv, Frame
    PROVE  IInv'
<1> USE CppFramingAssumption
<1> DEFINE new == Substr(i, FrameSize)
<1>1. /\ bytesPerSec \in Nat /\ length \in 0 .. Word - 1 /\ i \in Int
      /\ frames \in Seq((0 .. Word) \X (0 .. Word))
    BY DEF IInv, TypeOK
<1>2. /\ bytesPerSec' = bytesPerSec /\ length' = length /\ FrameSize' = FrameSize
      /\ frames' = Append(frames, new) /\ i' = AsInt(i + FrameSize)
      /\ 0 <= i /\ i < length
    BY DEF Frame, InAudio, FrameSize
<1>3. FrameSize \in Nat /\ FrameSize <= IntMax
    BY <1>1, FrameSizeBound
<1>4. i <= IntMax
    BY DEF IInv, TypeOK
<1>5. i + FrameSize \in 0 .. Word - 1
    BY <1>1, <1>2, <1>3, <1>4, Halves
<1>6. /\ new[1] = i
      /\ new[2] = IF i + FrameSize < length THEN i + FrameSize ELSE length
      /\ new \in (0 .. Word) \X (0 .. Word)
    BY <1>1, <1>2, <1>3, <1>5 DEF Substr
<1> HIDE DEF new
<1>7. /\ Len(frames') = Len(frames) + 1 /\ Len(frames) \in Nat
      /\ frames'[Len(frames) + 1] = new
      /\ \A k \in 1 .. Len(frames) : frames'[k] = frames[k]
      /\ frames' \in Seq((0 .. Word) \X (0 .. Word))
      /\ frames' # <<>>
    BY <1>1, <1>2, <1>6, Appended
<1>8. TypeOK'
    BY <1>2, <1>5, <1>7, AsIntValue DEF IInv, TypeOK
<1>9. PositionInv'
    <2>1. LastFrame' = new
        BY <1>7 DEF LastFrame
    <2>2. Behind' = i + FrameSize
        BY <1>2, <1>6, <2>1 DEF Behind
    <2> QED
        BY <1>2, <1>4, <1>6, <1>7, <2>1, <2>2 DEF PositionInv, AsInt, IntMax
<1>10. Contiguous'
    <2>1. SUFFICES ASSUME NEW k \in 1 .. Len(frames) + 1
          PROVE  /\ frames'[k][1] = IF k = 1 THEN 0 ELSE frames'[k - 1][2]
                 /\ frames'[k][2] <= length
                 /\ k < Len(frames) + 1 => frames'[k][2] - frames'[k][1] = FrameSize
        BY <1>2, <1>7 DEF Contiguous
    <2>2. /\ frames = <<>> => i = 0
          /\ frames # <<>> => LastFrame[2] = i /\ i - LastFrame[1] = FrameSize
        BY InAudioAtEnd DEF Frame
    <2>3. CASE k = Len(frames) + 1
        <3>1. frames'[k][1] = i /\ frames'[k][2] <= length
            BY <1>1, <1>3, <1>6, <1>7, <2>3
        <3>2. i = IF k = 1 THEN 0 ELSE frames'[k - 1][2]
            <4>1. CASE k = 1
                BY <1>1, <1>7, <2>2, <2>3, <4>1
            <4>2. CASE k # 1
                <5>1. k - 1 = Len(frames) /\ Len(frames) \in 1 .. Len(frames)
                    BY <1>7, <2>3, <4>2
                <5>2. frames # <<>> /\ frames'[k - 1] = LastFrame
                    BY <1>7, <5>1 DEF LastFrame
                <5> QED
                    BY <2>2, <4>2, <5>2
            <4> QED
                BY <4>1, <4>2
        <3> QED
            BY <2>3, <3>1, <3>2, <1>7
    <2>4. CASE k \in 1 .. Len(frames)
        <3>1. /\ frames[k][1] = IF k = 1 THEN 0 ELSE frames[k - 1][2]
              /\ frames[k][2] <= length
              /\ k < Len(frames) => frames[k][2] - frames[k][1] = FrameSize
            BY <2>4 DEF IInv, Contiguous
        <3>2. k = Len(frames) => frames[k][2] - frames[k][1] = FrameSize
            BY <1>1, <2>2, <2>4 DEF LastFrame
        <3>3. frames'[k] = frames[k]
            BY <1>7, <2>4
        <3>4. k # 1 => frames'[k - 1] = frames[k - 1]
            <4>1. k # 1 => k - 1 \in 1 .. Len(frames)
                BY <1>7, <2>4
            <4> QED
                BY <1>7, <4>1
        <3>5. k <= Len(frames) /\ k \in Int
            BY <1>7, <2>4
        <3>6. frames[k][2] - frames[k][1] = FrameSize
            BY <1>7, <3>1, <3>2, <3>5
        <3> QED
            BY <3>1, <3>3, <3>4, <3>6
    <2> QED
        BY <1>7, <2>3, <2>4
<1> QED
    BY <1>8, <1>9, <1>10 DEF IInv

-----------------------------------------------------------------------------
\* The inductive invariant.
THEOREM FramingInvariance == Spec => []IInv
<1>1. IInv /\ UNCHANGED vars => IInv'
    BY DEF IInv, TypeOK, Contiguous, PositionInv, LastFrame, Behind, FrameSize, vars
<1>2. IInv /\ [Next]_vars => IInv'
    BY <1>1, FrameStep DEF Next
<1> QED
    BY <1>2, InitInv, PTL DEF Spec

\* The frames follow one another from the first byte on, without gap or overlap.
THEOREM FramesContiguous == Spec => []Contiguous
BY FramingInvariance, PTL DEF IInv

\* When the loop is done, the audio is in the frames to its last byte, or as far
\* as an int can count, and no frame is empty.
THEOREM FramesComplete == Spec => []Complete
<1>1. ASSUME IInv PROVE Complete
    <2> SUFFICES ASSUME Done
        PROVE  /\ length > 0 => /\ frames # <<>>
                                /\ \/ frames[Len(frames)][2] = length
                                   \/ frames[Len(frames)][2] > IntMax
               /\ \A k \in 1 .. Len(frames) : frames[k][1] < frames[k][2]
        BY DEF Complete
    <2>1. /\ bytesPerSec \in Nat /\ length \in Nat /\ i \in Int
          /\ frames \in Seq((0 .. Word) \X (0 .. Word))
        BY <1>1, CppFramingAssumption DEF IInv, TypeOK
    <2>2. FrameSize \in Nat /\ FrameSize <= IntMax
        BY <2>1, FrameSizeBound
    <2>3. CASE frames = <<>>
        BY <1>1, <2>1, <2>3 DEF IInv, PositionInv, Done, InAudio
    <2>4. CASE frames # <<>>
        <3>1. Len(frames) \in 1 .. Len(frames) /\ LastFrame[1] \in Int
            BY <2>1, <2>4 DEF LastFrame
        <3>2. Behind \in 0 .. Word - 1
            BY <1>1, <2>2, <2>4, <3>1, Halves DEF IInv, PositionInv, Behind
        <3>3. /\ 0 <= LastFrame[1] /\ LastFrame[1] <= IntMax /\ LastFrame[1] < length
              /\ LastFrame[2] = IF Behind < length THEN Behind ELSE length
              /\ i = AsInt(Behind)
            BY <1>1, <2>4 DEF IInv, PositionInv
        <3>4. Behind >= length \/ Behind > IntMax
            <4>1. Behind <= IntMax => i = Behind
                BY <3>2, <3>3, AsIntValue
            <4>2. Behind \in Int /\ IntMax \in Int /\ 0 <= Behind
                BY <3>2, Halves
            <4>3. i < 0 \/ i >= length
                BY <2>1 DEF Done, InAudio
            <4> QED
                BY <2>1, <4>1, <4>2, <4>3
        <3>5. FrameSize > 0
            BY <2>1, <2>2, <3>1, <3>3, <3>4, Halves DEF Behind
        <3>6. LastFrame[2] = length \/ LastFrame[2] > IntMax
            BY <2>1, <3>2, <3>3, <3>4, Halves
        <3>7. LastFrame[1] < LastFrame[2]
            BY <2>1, <2>2, <3>1, <3>3, <3>5 DEF Behind
        <3>8. ASSUME NEW k \in 1 .. Len(frames)
              PROVE  frames[k][1] < frames[k][2]
            <4>1. CASE k = Len(frames)
                BY <3>7, <4>1 DEF LastFrame
            <4>2. CASE k < Len(frames)
                <5>1. frames[k][1] \in Int /\ frames[k][2] \in Int
                    BY <2>1, <3>8
                <5>2. frames[k][2] - frames[k][1] = FrameSize
                    BY <1>1, <3>8, <4>2 DEF IInv, Contiguous
                <5> QED
                    BY <2>2, <3>5, <5>1, <5>2
            <4> QED
                BY <2>1, <3>8, <4>1, <4>2
        <3> QED
            BY <3>6, <3>8, <2>4 DEF LastFrame
    <2> QED
        BY <2>3, <2>4
<1> QED
    BY <1>1, FramingInvariance, PTL

-----------------------------------------------------------------------------
\* As long as an unsigned int can hold the product, a frame is as many bytes as
\* there are in a fiftieth of a second.
LEMMA FrameSizeIs ==
    ASSUME bytesPerSec \in Nat, frameLength * bytesPerSec < Word
    PROVE  FrameSize = bytesPerSec \div 50
<1>1. 20 * bytesPerSec \in 0 .. Word - 1
    BY CppFramingAssumption DEF frameLength
<1>2. FrameSize = (20 * bytesPerSec) \div 1000
    BY <1>1, SmallRemainder, CppFramingAssumption DEF FrameSize, frameLength
<1>3. QED
    BY <1>2, SMT

\* Sums of even numbers are even, and an even number plus an odd one is odd.
LEMMA Parity ==
    ASSUME NEW a \in Int, NEW b \in Int, a % 2 = 0
    PROVE  (a + b) % 2 = b % 2
BY SMT

\* Frames of an even size all begin at even bytes.
EvenFrames == FrameSize % 2 = 0 => \A k \in 1 .. Len(frames) : frames[k][1] % 2 = 0

\* A frame begins its size behind the one before it.
LEMMA SampleStep ==
    ASSUME IInv, EvenFrames, Frame
    PROVE  EvenFrames'
<1> USE CppFramingAssumption
<1>1. /\ bytesPerSec \in Nat /\ length \in Nat /\ i \in Int
      /\ frames \in Seq((0 .. Word) \X (0 .. Word))
    BY DEF IInv, TypeOK
<1>2. /\ FrameSize' = FrameSize
      /\ frames' = Append(frames, Substr(i, FrameSize))
      /\ InAudio
    BY DEF Frame, FrameSize
<1> SUFFICES ASSUME FrameSize % 2 = 0, NEW k \in 1 .. Len(frames')
             PROVE  frames'[k][1] % 2 = 0
    BY <1>2 DEF EvenFrames
<1>3. \A n \in 1 .. Len(frames) : frames[n][1] % 2 = 0
    BY DEF EvenFrames
<1>4. /\ Len(frames') = Len(frames) + 1 /\ Len(frames) \in Nat
      /\ frames'[Len(frames) + 1][1] = i
      /\ \A n \in 1 .. Len(frames) : frames'[n] = frames[n]
    <2>1. FrameSize \in Nat /\ 0 <= i /\ i < length /\ i <= IntMax
        BY <1>1, <1>2, FrameSizeBound DEF InAudio, IInv, TypeOK
    <2>2. length \in 0 .. Word
        BY DEF IInv, TypeOK
    <2>3. Substr(i, FrameSize) \in (0 .. Word) \X (0 .. Word) /\ Substr(i, FrameSize)[1] = i
        <3> DEFINE to == IF i + FrameSize < length THEN i + FrameSize ELSE length
        <3>1. to \in 0 .. Word /\ i \in 0 .. Word
            BY <1>1, <2>1, <2>2
        <3>2. Substr(i, FrameSize) = <<i, to>>
            BY DEF Substr
        <3> HIDE DEF to
        <3>3. QED
            BY <3>1, <3>2
    <2>4. QED
        BY <1>1, <1>2, <2>3, Appended
<1>5. i % 2 = 0
    <2>1. CASE frames = <<>>
        BY <1>2, <2>1, InAudioAtEnd
    <2>2. CASE frames # <<>>
        <3>1. i - LastFrame[1] = FrameSize
            BY <1>2, <2>2, InAudioAtEnd
        <3>2. Len(frames) \in 1 .. Len(frames)
            BY <1>1, <2>2
        <3>3. LastFrame[1] % 2 = 0 /\ LastFrame[1] \in Int
            BY <1>1, <1>3, <3>2 DEF LastFrame
        <3>4. FrameSize \in Int
            BY <1>1, FrameSizeBound
        <3>5. i = LastFrame[1] + FrameSize
            BY <1>1, <3>1, <3>3, <3>4
        <3>6. QED
            BY <3>3, <3>4, <3>5, Parity
    <2>3. QED
        BY <2>1, <2>2
<1>6. QED
    BY <1>3, <1>4, <1>5

\* Samples are cut in two exactly at the rates of which 20 ms are an odd number
\* of bytes: the second frame begins there, and with frames of an even size none
\* does.
THEOREM SamplesWhole == Spec => []WholeSamples
<1>1. Init => EvenFrames
    BY EmptySeq DEF Init, EvenFrames
<1>2. IInv /\ EvenFrames /\ [Next]_vars => EvenFrames'
    <2>1. EvenFrames /\ UNCHANGED vars => EvenFrames'
        BY DEF EvenFrames, FrameSize, vars
    <2>2. QED
        BY <2>1, SampleStep DEF Next
<1>3. ASSUME IInv, EvenFrames PROVE WholeSamples
    <2> SUFFICES ASSUME frameLength * bytesPerSec < Word, Len(frames) > 1
                 PROVE  (\A k \in 1 .. Len(frames) : frames[k][1] % 2 = 0)
                            <=> (bytesPerSec \div 50) % 2 = 0
        BY DEF WholeSamples
    <2>1. bytesPerSec \in Nat /\ frames \in Seq((0 .. Word) \X (0 .. Word))
        BY <1>3, CppFramingAssumption DEF IInv, TypeOK
    <2>2. FrameSize = bytesPerSec \div 50
        BY <2>1, FrameSizeIs
    <2>3. 1 \in 1 .. Len(frames) /\ 2 \in 1 .. Len(frames) /\ 1 < Len(frames)
        BY <2>1
    <2>4. frames[1][1] = 0 /\ frames[2][1] = frames[1][2] /\ frames[1][2] - frames[1][1] = FrameSize
        BY <1>3, <2>3 DEF IInv, Contiguous
    <2>5. frames[1][2] \in Int
        BY <2>1, <2>3
    <2>6. frames[2][1] = FrameSize
        BY <2>4, <2>5
    <2>7. QED
        BY <1>3, <2>2, <2>3, <2>6 DEF EvenFrames
<1>4. QED
    BY <1>1, <1>2, <1>3, FramingInvariance, PTL DEF Spec
===============================================================================
