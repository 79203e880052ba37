------------------------------ MODULE CppFraming ------------------------------
(***************************************************************************)
(* How the C++ library cuts the audio into the frames that CppStreaming    *)
(* sends: build_streaming_request (dictation_client.cpp:219-241).          *)
(*                                                                         *)
(* Both inputs are taken as they stand in the header of the wave file, the *)
(* bytes per second and the length of the data, and neither is checked.    *)
(* The arithmetic is C++'s: frame_size is an unsigned int, the loop        *)
(* variable an int that is compared with an unsigned length.  A frame is   *)
(* the pair <<from, to>> of the bytes from .. to - 1.                      *)
(***************************************************************************)
EXTENDS Integers, Sequences

CONSTANTS
    Word,      \* the values of an unsigned int: 2^32, less for TLC
    Inputs,    \* pairs of a config.bytes_per_sec and an audio length
    MaxEmpty   \* bound: frames kept of a loop that does not get on

ASSUME CppFramingAssumption ==
    /\ Word \in Nat \ {0} /\ Word % 2 = 0
    /\ Inputs \subseteq (0 .. Word - 1) \X (0 .. Word - 1)
    /\ MaxEmpty \in Nat

VARIABLES
    bytesPerSec,   \* config.bytes_per_sec
    length,        \* audio_byte_content.length()
    i,             \* the loop variable
    frames         \* the requests behind the configuration

vars == <<bytesPerSec, length, i, frames>>

frameLength == 20     \* milliseconds
IntMax      == (Word \div 2) - 1

\* The value an int takes when it is given n: n modulo Word, in two's
\* complement.
AsInt(n) == IF n % Word <= IntMax THEN n % Word ELSE (n % Word) - Word

\* Mutated: the division comes first.
FrameSize_DividesFirst == (frameLength * (bytesPerSec \div 1000)) % Word

\* unsigned int frame_size = frame_length * config.bytes_per_sec / 1000
FrameSize == ((frameLength * bytesPerSec) % Word) \div 1000

TypeOK ==
    /\ <<bytesPerSec, length>> \in Inputs
    /\ i \in -(IntMax + 1) .. IntMax
    /\ frames \in Seq((0 .. Word) \X (0 .. Word))

Init ==
    /\ \E input \in Inputs : bytesPerSec = input[1] /\ length = input[2]
    /\ i = 0
    /\ frames = <<>>

\* i < audio_byte_content.length().  The comparison is unsigned and 64 bits
\* wide: a negative i is greater than any length.
InAudio == 0 <= i /\ i < length

\* substr(i, frame_size), which stops at the end of the audio.
Substr(from, size) == <<from, IF from + size < length THEN from + size ELSE length>>

\* Mutated: the last frame is left out when it is short.
Frame_DropsShort ==
    /\ InAudio
    /\ frames' = IF i + FrameSize <= length
                 THEN Append(frames, Substr(i, FrameSize)) ELSE frames
    /\ i' = AsInt(i + FrameSize)
    /\ UNCHANGED <<bytesPerSec, length>>

\* Mutated: a frame begins at the last byte of the one before.
Frame_Overlaps ==
    /\ InAudio
    /\ frames' = Append(frames, Substr(i, FrameSize))
    /\ i' = AsInt(i + FrameSize - 1)
    /\ UNCHANGED <<bytesPerSec, length>>

\* One turn of the loop.
Frame ==
    /\ InAudio
    /\ FrameSize > 0 \/ Len(frames) < MaxEmpty
    /\ frames' = Append(frames, Substr(i, FrameSize))
    /\ i' = AsInt(i + FrameSize)
    /\ UNCHANGED <<bytesPerSec, length>>

Done == ~InAudio

\* The loop goes on for ever, or until the memory is used up.
Stuck == InAudio /\ FrameSize = 0 /\ Len(frames) >= MaxEmpty

Next == Frame \/ ((Done \/ Stuck) /\ UNCHANGED vars)

Spec     == Init /\ [][Next]_vars
FairSpec == Spec /\ WF_vars(Frame)

-----------------------------------------------------------------------------
\* The audio is cut from its beginning, each frame begins where the one before
\* it ended, and only the last is shorter than the others.
Contiguous ==
    \A k \in 1 .. Len(frames) :
        /\ frames[k][1] = IF k = 1 THEN 0 ELSE frames[k - 1][2]
        /\ frames[k][2] <= length
        /\ k < Len(frames) => frames[k][2] - frames[k][1] = FrameSize

\* What the loop leaves is a vector of frames of which none is empty, that hold
\* the audio as far as an int can count, for audio of any length: the loop stops
\* at the last byte, or where i would turn negative, and not before.
Complete ==
    Done =>
        /\ length > 0 => /\ frames # <<>>
                         /\ \/ frames[Len(frames)][2] = length
                            \/ frames[Len(frames)][2] > IntMax
        /\ \A k \in 1 .. Len(frames) : frames[k][1] < frames[k][2]

\* The rates at which a 16-bit sample is cut in two, 11025 Hz (22050 bytes per
\* second) among them, are those of which 20 ms are an odd number of bytes, and
\* no others.
WholeSamples ==
    frameLength * bytesPerSec < Word /\ Len(frames) > 1 =>
        ((\A k \in 1 .. Len(frames) : frames[k][1] % 2 = 0)
            <=> (bytesPerSec \div 50) % 2 = 0)

\* The headers that keep the loop from ending are those with audio of which
\* 20 ms, as far as an unsigned int can count the thousandths of bytes, are less
\* than one byte; with every other the loop ends.
Endless == length > 0 /\ (frameLength * bytesPerSec) % Word < 1000

Ends == IF Endless THEN []~Done ELSE <>Done
===============================================================================
