# A TLA+ model of the dictation client

This directory models the two clients of the Techmo dictation service: the C++
library and program under `cpp/`, and the Python program under `python/`. Both
talk to the service defined by `proto/dictation_asr.proto`. The models are
checked with TLC on small instances. Every safety property that a passing run
checks, and the refinement of the abstract session by each of the three
streaming clients, is also proved with TLAPS for all instances; liveness is
left to TLC.

Paths below are relative to the repository.

## 1. The system

### Components

| Component | State | Operations | Model |
|---|---|---|---|
| C++ `DictationClient::StreamingRecognize` (`cpp/libdictation-client/dictation_client.cpp:111-176`) | `half_closed_stream`, the loop variable and position of the writer thread, the collected responses | write the configuration; writer thread: write frames, half-close; calling thread: read, half-close on a stop response, join, `Finish` | `CppStreaming`, proofs in `CppStreamingProofs` |
| C++ `build_streaming_request` (`:219-241`) | loop variable, vector of requests | one turn of the framing loop | `CppFraming`, proofs in `CppFramingProofs` |
| Python `StreamingRecognizer`, `RequestIterator` (`python/service/streaming_recognizer.py`) | `is_initial_request`, the collected results, position of the two threads | `next()` in gRPC's consumer thread; reading, `close()` of the source, return or raise in the main thread | `PyRecognizer`, lemmas in `PyRecognizerProofs` |
| Python `AudioStream` (`python/utils/audio_stream.py`) | `data_index` and the generator's locals | `generator()`, `close()` | `PyFileStreaming`, proofs in `PyFileStreamingProofs` |
| Python `MicrophoneStream` (`python/utils/mic_stream.py`) | `_buff`, `closed`, the generator's locals | `_fill_buffer`, `generator()`, `close()`, `__exit__` | `PyMicStreaming`, proofs in `PyMicStreamingProofs` |
| gRPC call, connection, service | requests in flight, sent, read; half-close; responses; status | external | `SpeechCall`, lemmas in `SpeechCallProofs` |
| Python results: what `recognize` collects, `SyncRecognizer`, `print_results` | none between calls | pure functions of a response | `PyRecognition`, proofs in `PyProgramProofs` |
| Python program: `dictation_client.py`, `ServiceUtils`, `AudioLoader`, the opening of an `AudioStream`, `DictationSettings` | options, channel, opened source, results, exit status | start, open the source, call, receive, print | `PyProgram` over `PyRecognition`, proofs in `PyProgramProofs` |
| C++ program: `main.cpp`, `CheckHealth`, `Recognize`, request building, `audio-utils.cpp` | options, health status, wave data, exit status | parse, check health, read the file, call, return | `CppProgram`, proofs in `CppProgramProofs` |
| Messages of the service (`dictation_asr_pb2.py`, `dictation_asr.proto`) | none | the types of requests and responses | `DictationMessages` |
| Docker wrappers, build scripts, serialisation code | | | not modelled: no logic of the clients |

### How they interact

* **C++ streaming.** `StreamingRecognize` builds all requests first (framing),
  writes the configuration, and starts a writer thread. That thread writes the
  frames and half-closes the call behind the last one. The calling thread reads
  responses until the call ends; an error or an end-of-utterance response makes
  it half-close the call instead. They share one `atomic<bool>`, tested and set
  in separate steps by both.
* **Python streaming.** gRPC starts a consumer thread that pulls requests out of
  `RequestIterator`: the configuration first, then whatever the generator of the
  audio source yields. It half-closes when the generator ends. The main thread
  iterates over the responses; an error or an event makes it call `close()` on
  the source, and the half-close is then up to the generator noticing this.
  With a file they share `data_index`; with a microphone the flag `closed` and
  the queue, which PyAudio's thread fills. No lock is involved: the one in
  `RequestIterator` is only ever taken by the consumer thread.
* **The programs.** Both go straight through: channel, health check if asked
  for, audio, one call, output. The synchronous call is one request with the
  whole audio and one response. Each step may end the program, and the exit
  status is all a caller learns. The Python program leaves results in a list
  that `print_results` pairs with times afterwards.

### What is hard

The hazards are listed, each with its line, in `PROJECT.json`. In short:

* two threads that each test a flag and set it later (C++), or read a position
  and store it later (Python file), with the other one in between;
* a half-close that is left to "the other one": forgotten, asked for twice, too
  early, or too late to stop the audio;
* a thread that waits: for gRPC to take a request, for the writer in `join`, for
  a chunk from a microphone that may never come;
* calls that break, or run into the deadline, at every point of the above;
* 32-bit arithmetic on numbers taken from a file's header;
* responses without results, a limit of zero alternatives, silence and words of
  several tokens in an alignment, hypotheses without words;
* requests that never end: a frame of zero bytes, a microphone nobody closes;
* files that are shorter than their header says, or than a header;
* exit statuses: a call that fails after results, a health check that fails.

### What makes each component correct

* **A streaming client:** the configuration goes first, the audio follows in
  order, and nothing is missing unless the client was asked to stop; the
  half-close comes, in time and not before its reason; every response reaches
  the caller; the call comes back.
* **Framing:** the frames are the audio, cut without gap or overlap and between
  samples, and the loop ends.
* **A program:** what it sends is the audio and the options it was given; what
  it prints is what the service gave as settled, each time beside its word; its
  exit status tells what was done, and comes.

## 2. Modules

```
SpeechCall ----+--> CppStreaming ------------> CppStreamingProofs
 (external)    |         |   refines           (+ SpeechCallProofs)
               |         +----> StreamingSession
               |         +----^         ^
               +--> PyRecognizer --+--> PyFileStreaming --> PyFileStreamingProofs
                    |              +--> PyMicStreaming  --> PyMicStreamingProofs
                    +--> PyRecognizerProofs ----------------^  (extended by both)
CppFraming --> MCCppFraming, CppFramingProofs

DictationMessages --+--> PyRecognition --> PyProgram --> MCPyProgram, PyProgramProofs
                    +--> CppProgram --> MCCppProgram, CppProgramProofs
```

* **`SpeechCall`** is the environment: a request handed to gRPC (`queued`), the
  requests on the wire (`sent`), how many the service has read (`taken`), the
  half-close, the responses that arrived (`inbound`) and were read (`got`), and
  the status. Its first part, "What a client may do", holds the operators that
  the clients use inside their own actions (`StartWrite`, `StartHalfClose`,
  `TakeResponse`...). Its second part is what connection and service may do on
  their own (`Environment`): move a request or the half-close, answer with a
  result, an event or an error, end the call well or badly at any moment, let
  the deadline pass. A call that does not end in `OK` may take unread responses
  with it. Responses are kinds, not texts.
* **`StreamingSession`** is the abstract promise: no threads, no flag, no
  library. Requests are delivered, a half-close happens for a reason, responses
  arrive, the call ends, the caller is answered with the responses kept.
* **`CppStreaming`** has a program counter per thread. One action is one step
  that the other thread can observe: the test of the flag, the set, the call of
  `Write` or `WritesDone` and its return are separate actions. `Write` and
  `WritesDone` block, so they are a start and an end. A second `WritesDone`
  breaks gRPC's rules and aborts the process (`aborted`). Requests are numbered
  like the vector `requests`.
* **`PyRecognizer`** is `recognize` without its source: the consumer thread
  around the generator, and the main thread. It has no specification of its own;
  **`PyFileStreaming`** and **`PyMicStreaming`** extend it with a source.
  In the first, a line of the generator that reads or assigns `data_index` is an
  action. A request is the pair of byte positions that was sliced. In the
  second, the three users of queue and flag are interleaved call by call;
  chunks are numbered as they are recorded.
* **`CppFraming`** is the loop of `build_streaming_request`, with the width of
  an unsigned int as its constant `Word`. `CppStreaming` takes any number of
  frames, so whatever `CppFraming` yields is covered by it.

* **`DictationMessages`** has one set of records per message type, with the
  fields' names; the type invariants of the programs put every request and
  response into them. A text is the sequence of its blank-separated tokens,
  which is what `split` and `join` of the Python client are about.
* **`PyRecognition`** holds the operators of the Python client: requests from
  options, results from a response, lines from results. `Without` is the one
  filter they use (`word.word != '<eps>'`, lines without a time); it is a
  recursive function and not `SelectSeq`, whose definition the provers cannot
  unfold. **`PyProgram`** is the
  program around them. Its streaming call is one place, `reading`, where chunks
  go out and responses come in; the mark that `close()` leaves in `data_index`
  may be lost at once, as `PyFileStreaming` shows in detail.
* **`CppProgram`** is `main`. An uninitialised header, which a file shorter than
  44 bytes leaves, is any header. The numbers of a header are unsigned; a rate
  gets into the request's int32 field by `AsInt32`. Audio is how many bytes of the file and how
  many blanks behind them. `StreamingRecognize` is one step, which may also
  abort the process, as `CppStreaming` shows.

Operators named after the definition that follows them, with an underscore and
a suffix (`Frame_Overlaps`), vary it. They are changed versions of the code, each with a
plausible bug, and used to see that a property notices it. No specification
refers to them.

## 3. Runs

| Run | Specification | Shows |
|---|---|---|
| `cpp_contract` | `CppStreaming!FairSpec` | safety of the C++ streaming client; it implements `StreamingSession`; it ends if the service plays along or the deadline passes; a stop response leads to a half-close |
| `cpp_late_frame` | `Spec` | *violated*: `NothingAfterHalfClose` |
| `cpp_abort` | `Spec` | *violated*: `SurvivesHalfClose` |
| `py_file_contract` | `PyFileStreaming!FairSpec` | safety of the Python client with a file, wherever `close()` falls; it implements `StreamingSession`; both threads end, also when `close()` is lost |
| `py_lost_close` | `Spec` | *violated*: `ClosedStaysClosed` |
| `py_mic_contract` | `PyMicStreaming!FairSpec` | safety with a microphone; it implements `StreamingSession`; with a deadline both threads end; while the microphone records, a stop response brings `recognize` back, and `__exit__` frees gRPC's thread |
| `py_mic_silent` | `SilentSpec` | *violated*: `StopHalfCloses` |
| `cpp_framing` | `CppFraming!FairSpec` | the frames are the audio as far as an int can count it; exactly which rates cut a sample in two, and exactly which headers keep the loop from ending |
| `py_program` | `PyProgram!FairSpec` | requests fit the schema and carry legal audio; every text the service settled is printed as it was given, with times beside their words, but for the cases `py_hypotheses` is about; the program exits unless it streams empty frames or a microphone nobody stops, and a streaming call with a timeout always exits |
| `py_hypotheses` | `Spec` | *violated*: `AllHypothesesPrinted` |
| `py_deadline` | `FairSpec` | *violated*: `DeadlineEnds` |
| `cpp_program` | `CppProgram!Spec` | exit status and health check; the request is made of the options and the file as they are |

The six violated properties are what the repository says of the program:

* `cpp_late_frame`: the writer tests `half_closed_stream` and then writes, and a
  stop response can be handled in between. One frame at most is late
  (`LateWritesBounded`, proved). The comment at `dictation_client.cpp:126-129`
  says that the client should stop sending and half-close.
* `cpp_abort`: both threads test the flag before either sets it, and both call
  `WritesDone`. That needs a stop response that meets the end of the audio, or
  of the call (`AbortOnlyAtEnd`, proved). TLC's shortest trace is of the second
  kind: the service has ended the call, a write fails, and the writer half-closes
  while the reader does so for the response.
* `py_lost_close`: `close()` sets `data_index` while the generator is between
  reading and storing it, and the generator overwrites the mark. The file is
  then sent to its end. Only two places of the generator are exposed
  (`CloseTakesEffect`), before and behind the slice (line 65); in the first of
  them a chunk comes out empty, so that its bytes are skipped too (`NoGap`).
* `py_mic_silent`: `MicrophoneStream.close()` sets a flag and does not wake a
  generator that waits for a chunk. While none comes, the call is not
  half-closed and, without a deadline, `recognize` does not return.
* `py_hypotheses`: the Python program exits with 0 and has not printed a text
  that the service settled. In TLC's trace it is the second result of a
  synchronous response. The property fails as well for `--max-alternatives 0`,
  which stands for one hypothesis in the proto file and for none in the client,
  and with `--time-offsets`, where a text is put together from words that only
  the top hypothesis is sure to have.
* `py_deadline`: `--grpc-timeout` sets a deadline for the streaming call only. A
  synchronous call has none, and waits for a silent service for ever.

`PrintedAsGiven` is measured against what the service sent: of a run that exits
with 0, every settled text of every response is printed as given, and no other.
It leaves out the three cases of `py_hypotheses`, and transcripts that differ
from what their words spell. A response without results ends a synchronous run
in an `IndexError`. `service_utils.py` imports neither `os` nor
`health_pb2_grpc`, so that `--tls-dir` and `--wait-for-service-start` end in a
`NameError` before any call; the actions `create_channel` and `check_health`
exit with 1 there.

### Bounds

* `NumFrames = 3` (C++), `AudioLen = 5` with `FrameSize = 2` (a file of three
  chunks, the last one short), `MaxChunks = 2` and one more after `close()`:
  enough for a first, a middle and a last request, with the stop response
  falling before, between and after them.
* `MaxResponses = 2` holds a result and a stop response in either order, and two
  stop responses (an event and an error), the second of which finds the flag set
  or the source closed already.
* `Window = 1`: the connection takes one request that the service has not read,
  so that both a blocked and a flowing writer occur. A larger window only hides
  blocking.
* `SingleUtterance = TRUE` admits every kind of response; `FALSE` allows fewer
  behaviours. `HasDeadline` is `TRUE` where the deadline is among the
  behaviours, `FALSE` where nothing but the service ends the call.
* `Word = 8192` in place of 2^32: rates on both sides of zero-byte frames, odd
  and even frames, products that wrap to zero and to one; lengths around the
  multiples of a frame and around the largest int, in `MCCppFraming`. `MaxEmpty`
  cuts a loop that does not get on after three frames.

* `MCArgs` is a plain command line varied in what each branch of the start looks
  at, every kind of file with and without `--mic` and `--sync`, and all
  combinations of the options that shape results, and file, microphone and
  `--sync` with `--grpc-timeout` and `--session-id`. `MCSpelled` has an empty
  hypothesis, one with a silence between two words, and one whose two-token word
  stands beside a silence, so that tokens and words differ in number both ways.
  `MCUtterance` adds a transcript that is not what its words spell, as a service
  that rewrites its text gives it. `py_hypotheses` takes `MCSpelled`, so that
  what it shows does not rest on such a text; `py_deadline` takes the command
  lines with a timeout (`MCTimed`). Two responses of up to two hypotheses each,
  the file in two chunks.
* `Word = 16384` in `CppProgram`: the rate 8000 fits an int of that width, 10000
  turns negative.
* `MCOptions` and `MCHeader`: declared and actual lengths of 0, 2 and 4 in all
  combinations, one and two channels, with and without the `data` tag; settings
  with a repeated key and with lines that are no pair.

The proofs (section 4) have none of these bounds.

### Fairness

* *Threads* (`ClientFairness`): weak fairness for each thread. The operating
  system runs every thread that can run. Neither the flag nor the GIL keeps one
  out for ever.
* *Connection and service* (`ServiceFairness`): what was handed to gRPC gets onto
  the wire, the service reads what it is sent, and ends a call that is
  half-closed and read; in `PyProgram` also that it answers a unary call. That
  is what `dictation_asr.proto` promises of the service. It is never forced to
  send a response in a stream, and may still end the call at any time.
* *Deadline* (`DeadlineFairness`): time passes. It is asked for alone:
  connection and service need not be fair at all.
* *Microphone* (`MicFairness`): PyAudio keeps calling back. `SilentSpec` leaves
  this out, as the code has no control over a device. `FairSpec` of `PyProgram`
  has it: there the generator's next chunk and the chunk itself are one step.

Only the threads' fairness, in `PyProgram` with the microphone's, is part of
`FairSpec`. The others are premises of the
liveness properties that need them, so that each says what it rests on, as in
`Termination == ServiceFairness \/ DeadlineFairness => ...`.

## 4. Proofs

Every safety invariant of the passing runs is proved, and so is
`Spec => ImplementsSession` for each streaming client. The theorems hold for
every value of the constants that satisfies the assumptions listed at the end
of this section; none of the bounds of section 3 is used.

No property below is inductive by itself. Each proof module therefore has an
invariant `IInv` (in `PyProgramProofs` `Inv`) whose conjuncts say, for each
place a thread may be at, what it has in hand; one lemma per conjunct or per
component shows that every step keeps it, and the properties follow from it.

### C++ streaming: `CppStreamingProofs`

| Theorem | Statement |
|---|---|
| `Invariance` | `Spec => []IInv` |
| `TypeCorrect` | `Spec => []TypeOK` |
| `InOrder` | `Spec => []RequestsInOrder` |
| `AtMostOneLate` | `Spec => []LateWritesBounded` |
| `NothingLost` | `Spec => []ResponsesKept` |
| `AlwaysHalfClosed` | `Spec => []HalfClosedAtEnd` |
| `NoAudioCutOff` | `Spec => []WholeAudio` |
| `AbortConfined` | `Spec => []AbortOnlyAtEnd` |
| `Implementation` | `Spec => ImplementsSession` |

* `StartInv`: before the writer runs, nothing is half-closed and no frame is out;
* `FlightInv`: which request is in flight for which position of which thread;
  without it the order on the wire does not follow from the order of the calls;
* `FlagInv`: a flag that is set has a thread that half-closes or has done so;
  this is what makes `HalfClosedAtEnd` hold although each thread relies on the
  other;
* `ClosedInv`: nothing is pending behind a half-close on the wire; with it the
  late frame goes out before the half-close, and `Implementation` holds;
* `LateInv`: a late frame was tested for while the flag was clear, so it is the
  only one;
* `ReasonInv`: whoever half-closes has a reason, the end of the audio, a stop
  response or the end of the call;
* `StoredInv`: the responses stored are those read, but for one in hand.

`SpeechCallProofs` holds what the environment's steps do. `Implementation` takes
the mapping of `ImplementsSession`: a step of a thread that is not visible on
the wire or to the caller is a stutter; writing a request to the wire, the
half-close getting there, a response being read, the end of the call and the
answer are one step each of `StreamingSession`.

### Python streaming: `PyRecognizerProofs`, `PyFileStreamingProofs`, `PyMicStreamingProofs`

`PyRecognizerProofs` is about `recognize` with any source: `FlightInv` (which
request is with gRPC and which on the wire, for each position of the consumer
thread) and `AnswerInv` (the results are those of the responses read, and
`close()` was called for a reason). Its lemmas sort the steps by what they do to
requests (`FlightStep`, `RequestSteps`), to responses (`AnswerStep`,
`AnswerComplete`) and to what `StreamingSession` can see (`VisibleStep`), so that
the two source modules only deal with their generators.

| Theorem | File | Microphone |
|---|---|---|
| `Invariance` | `[]IInv` | `[]IInv` |
| `TypeCorrect` | `[]TypeOK` | `[]TypeOK` |
| `ConfigGoesFirst` | `[]ConfigFirst` | |
| `InOrder` | `[]AudioInOrder` | `[]ChunksInOrder` |
| `GapConfined` | `[]NoGap` | |
| `NothingCutOff` | `[]WholeFile` | |
| `NothingDropped` | | `[]NoChunkLost` |
| `AtMostOneLate` | `[]CloseTakesEffect` | `[]CloseTakesEffect` |
| `AnswersWhole` | `[]ResultsComplete` | `[]ResultsComplete` |
| `Implementation` | `ImplementsSession` | `ImplementsSession` |

*File.* The difficulty is that `data_index` means two things, a position and
`close()`'s mark, and that either thread may overwrite the other. `Genuine` says
when it is a position: before `close()`, and after it whenever it is below the
end, since only the generator stores such a value. Relative to that,
`LocalInv` relates the generator's locals to each other, `OrderInv` says that all
bytes on the wire lie below what is to come (this needs no `Genuine`: the mark
lies behind every byte), `GapInv` that all bytes below it are on the wire,
unless `close()` fell before the slice, `CountInv` that the wire holds as many
chunks as `data_index` says, and `LateInv` where the generator can be once
`close()` has taken effect. `GapInv` and `CountInv` are what `WholeFile` needs:
the generator ends at the end of the file because all of it is out.

*Microphone.* The chunks are numbered as they are recorded, and the numbers are
split in three: up to `Tip` on the wire (`WireInv`), up to `Taken` with the
generator or gRPC (`HandInv`), the others in the queue (`BuffInv`, with the
`None` of `__exit__` behind them). Every step moves one of the borders.
`EndInv` says why a generator may have ended, `LateInv` that it looks at the flag
between any two requests.

### Framing: `CppFramingProofs`

| Theorem | Statement |
|---|---|
| `FramingInvariance` | `Spec => []IInv` |
| `FramesContiguous` | `Spec => []Contiguous` |
| `FramesComplete` | `Spec => []Complete` |
| `SamplesWhole` | `Spec => []WholeSamples` |

These hold for every `Word`, rate and length. The invariant needs `PositionInv`:
the loop variable is behind the last frame, wrapped around if need be. As long as
it is inside the audio it has not wrapped, because a frame is shorter than half
the words (`FrameSizeBound`); so the loop leaves audio behind only where the
position no longer fits an int. `FramesComplete` says that for any length, and
that a loop that ends has made no empty frame. `SamplesWhole` is an equivalence:
where the product fits an unsigned int, a frame is `bytes_per_sec \div 50` bytes
(`FrameSizeIs`), all frames begin at even bytes where that is even
(`EvenFrames`, kept by `SampleStep`), and where it is odd the second one does
not. At 11025 Hz, 20 ms are 441 bytes.

### The C++ program: `CppProgramProofs`

* `StatusIsTelling`, `Spec => []StatusTellsWhatWasDone`. `GateInv` carries what
  the service said of its health from the check to the call, `StatusInv` says
  which places of `main` a status comes from.
* `RequestFaithful`, `Spec => []RequestAsAsked`. `ReadInv` carries what was read
  of the file to the call. `Greatest`, `SettingsMap` and `Fields` show that the
  map built of the settings keeps the last value of each key and that listing it
  gives every key once; `Config` that the configuration fits the schema;
  `WaveRead` and `OggRead` how much audio there is. A rate that does not fit the
  int32 field arrives as another one; the theorem says that it is of the
  field's type and, where it fits, the header's.

### The Python program: `PyProgramProofs`

| Theorem | Statement |
|---|---|
| `Invariance` | `Spec => []Inv` |
| `TypeCorrect` | `Spec => []TypeOK` |
| `LegalAudio` | `Spec => []OnlyLegalAudio` |
| `OutputFaithful` | `Spec => []PrintedAsGiven` |
| `TimesFaithful` | `Spec => []TimesBesideTheirWords` |

* `SourceInv` carries what `AudioLoader` and `AudioStream` checked to the place
  where the call is made; `SourceTypes` and `CallTypes` put source, call and
  responses into their types.
* `ContentInv` says that results and responses agree: if every response can be
  told in full (`InFull`, the premise of `PrintedAsGiven`), the texts of the
  results are those the responses settle, blank ones aside; and every time that
  would be printed for a result was given for its word. `OutputInv`
  says where in the program there may be responses, results and output. Both
  properties of the output follow from the two.
* The step that receives a response needs three facts about what is made of it.
  `ResultText`: a text is the transcript, or with time offsets what the words
  spell (`SpokenWords`: dropping silence commutes with taking the words out of
  their records). `ShownInFull` and `EntriesOfFirst` carry this to all
  hypotheses of the first result: the service sends no more of them than
  `max_alternatives` allows (`AlternativesAre`), so none is cut off. `ContentGrows`: joining and dropping blanks distribute over
  responses that follow one another (`FlattenAppend`, `WithoutConcat`).
  `ResultIs`: if `print_results` finds as many tokens as times, no word can have
  had more than one token, because none is empty (`FlattenLength`); so each token
  stands beside its own time.

*Recursive functions.* `Without` and the library's `FlattenSeq` are recursive
functions over sequences, and the library's induction theorems, which take the
property as an operator, cannot be used. Two lemmas replace them: in `Induction` and
`Growing` the property is a set, of the numbers or sequences that have it.
`Induction` follows from the fact that a set of numbers has a least one (`Least`),
and that from the library's theorem that finite sets are well-founded under
inclusion (`FS_StrictSubsetOrderingWellFounded`). With them `RestExists` and
`FlatExists` show that the recursions have a solution at all, and `WithoutAppend`
and `FlattenAppend` what it is at the next element.

### Assumptions

* `SpeechCallAssumption`, `CppStreamingAssumption`, `CppFramingAssumption`,
  `PyFileStreamingAssumption`, `PyMicStreamingAssumption`: natural numbers, a
  positive window and frame size, an even number of words.
* `CppProgramAssumption`: the options have the types boost gives them, header
  fields are unsigned numbers of the width `Word`, and an int of half that width
  fits the int32 field (for 2^32 it just does).
* `PyProgramAssumption`: the options have the types argparse gives them;
  `max_alternatives` and the rate of a file fit the int32 fields they are put
  into (protobuf's setters raise `ValueError` for others, which is not
  modelled); `frame_length` is not negative; the service's words are not empty.
  `EpsAssumption`: `<eps>` is a token.
* `LiteralsAreStrings`, in both programs: the provers do not know that a string
  literal is a string. `ToString` of a timeout is a string for the same reason.

TLC evaluates each of them in the runs of its module.

### What is only model-checked

Liveness (`Termination`, `StopHalfCloses`, `StopEndsSending`, `StopReturns`,
`Freed`, `Ends`, `Exits`), as TLAPS does not reason about fairness here. The six
violated properties are violated by single behaviours, which TLC shows.

## 5. What is abstracted and what is left out

* Payloads, confidences, the wording of the output, the delay between frames:
  no property is about them. In `PyRecognizer` a response with results is kept
  by its position; what is made of it is in `PyRecognition`.
* Parsing the command line is left to boost and argparse: the programs start
  with the parsed options. `libvorbis`, `pydub` and `ffmpeg` decode a file or fail.
* The Python health check and TLS channel end in a `NameError`; the lines behind
  that are never reached and left out.
* `WriteWaveFile` and the server side of the generated code are not called.
* A call in `PyProgram` may fail or end at any moment; its threads are in the
  streaming modules.
* In C++ every response is kept, in Python only those with results, so the two
  clients map `KeptResponse` differently.
* gRPC is modelled at the level of its calls. It is taken to abort the process
  at a second `WritesDone`, and to let a message out that was handed over while
  a half-close waits in front of the wire.
* A keyboard interrupt in the Python client looks like a call that fails: the
  main thread raises and `__exit__` runs.
* `AudioStream.__next__` duplicates its generator and is not called.
* The Python file client with a frame size of zero is outside
  `PyFileStreamingAssumption`; `PyProgram` has it (`EmptyFrames`).

## 6. Plan

Done, in this order, as the streaming calls are the core of the system:
`SpeechCall`, `StreamingSession`, `CppStreaming` and its proofs, `PyRecognizer`
with `PyFileStreaming` and `PyMicStreaming`, `CppFraming` and its proofs;
`DictationMessages`, `PyRecognition` and `PyProgram`, `CppProgram`, with a proof
about each program; the proofs about the Python clients and the requests and
output of both programs.

Next:

1. *The framing loop and its caller*: that what `CppFraming` cuts is what
   `CppStreaming` numbers, as a refinement.
2. *Safety that could be stated more sharply*: which responses a failed call may
   take with it, and what a repeated `close()` does.
