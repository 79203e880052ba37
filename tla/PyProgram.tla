------------------------------ MODULE PyProgram ------------------------------
(***************************************************************************)
(* The Python program from its command line to its exit status             *)
(* (dictation_client.py, service_utils.py, audio_loader.py, and what       *)
(* AudioStream makes of a file).  The call is a coarse one here: how its   *)
(* two threads meet is the matter of PyFileStreaming and PyMicStreaming.   *)
(*                                                                         *)
(* A file is a record [format, channels, width, rate, size]; its format is *)
(* "wav", "other" for what only ffmpeg decodes, or "none" for a file that  *)
(* is missing or cannot be decoded.  An absent value is <<>>, a present    *)
(* one <<value>>.                                                          *)
(***************************************************************************)
EXTENDS PyRecognition

CONSTANTS
    Args,          \* the command lines that are tried
    Utterance,     \* what a hypothesis may be: [transcript, words]
    MaxResponses   \* bound on the responses of a streaming call

\* The options have the types argparse gives them, and those that become int32
\* fields fit there.
ASSUME PyProgramAssumption ==
    /\ Utterance \subseteq [transcript : Text, words : Seq(Text \ {<<>>})]
    /\ MaxResponses \in Nat
    /\ \A a \in Args :
          /\ a.audio \in Seq([format : {"wav", "other", "none"}, channels : Nat, width : Nat,
                              rate : 0 .. MaxInt32, size : Nat])
          /\ Len(a.audio) <= 1
          /\ a.max_alternatives \in Int32 /\ a.grpc_timeout \in Int /\ a.frame_length \in Nat
          /\ {a.mic, a.sync, a.time_offsets, a.single_utterance, a.interim_results}
                \subseteq BOOLEAN
          /\ {a.context_phrase, a.session_id, ToString(a.no_input_timeout),
              ToString(a.speech_complete_timeout), ToString(a.speech_incomplete_timeout),
              ToString(a.recognition_timeout)} \subseteq STRING

\* The provers do not know that a literal is a string.
ASSUME LiteralsAreStrings ==
    {"", "pl-PL", "session_id", "no-input-timeout", "speech-complete-timeout",
     "speech-incomplete-timeout", "recognition-timeout"} \subseteq STRING

VARIABLES
    args,        \* the parsed command line
    pc,          \* where the program is
    channel,     \* "none" or "insecure"
    source,      \* the opened audio: [kind, rate, size, frame_samples_size]
    data_index,  \* AudioStream.data_index
    closed,      \* MicrophoneStream.closed
    sending,     \* the requests of the streaming call: "no", "yes", "done"
    call,        \* the call made: [method, request, options], request being the first
    responses,   \* what the client has received
    results,     \* what the recognizer made of it
    printed,     \* what print_results put out
    exitCode     \* <<>> until the program exits

audioVars  == <<source, data_index, closed, sending>>
answerVars == <<responses, results, printed>>
vars       == <<args, pc, channel, audioVars, call, answerVars, exitCode>>

Pc == {"channel", "health", "mode", "load", "open", "call", "waiting", "reading",
       "print", "exited"}

Source == [kind : {"file", "mic"}, rate : Nat, size : Nat, frame_samples_size : Nat]

Options == [timeout : Seq(Nat), metadata : Seq(Seq(STRING))]

\* Requests and responses fit the schema of the method called, and the results
\* are texts with pairs of times or no times at all.
TypeOK ==
    /\ args \in Args /\ pc \in Pc /\ channel \in {"none", "insecure"}
    /\ source \in Seq(Source) /\ Len(source) <= 1
    /\ data_index \in 0 .. (IF source = <<>> THEN 0 ELSE source[1].size + 1)
    /\ closed \in BOOLEAN
    /\ sending \in {"no", "yes", "done"}
    /\ Len(call) <= 1
    /\ \A n \in 1 .. Len(call) :
          /\ call[n].method \in {Recognize, StreamingRecognize}
          /\ call[n].request \in RequestOf(call[n].method)
          /\ call[n].options \in Options
    /\ \A n \in 1 .. Len(responses) : responses[n] \in ResponseOf(call[1].method)
    /\ \A n \in 1 .. Len(results) :
          /\ results[n].transcript \in Text
          /\ \/ results[n].alignment = NoTimes
             \/ results[n].alignment \in Seq(Duration \X Duration)
    /\ exitCode \in {<<>>, <<0>>, <<1>>}

Init ==
    /\ args \in Args
    /\ pc = "channel" /\ channel = "none"
    /\ source = <<>> /\ data_index = 0 /\ closed = TRUE /\ sending = "no"
    /\ call = <<>> /\ responses = <<>> /\ results = <<>> /\ printed = <<>>
    /\ exitCode = <<>>

Goto(l)    == pc' = l /\ UNCHANGED exitCode
Exit(code) == pc' = "exited" /\ exitCode' = <<code>>

-----------------------------------------------------------------------------
(***************************************************************************)
(* Channel and health check.  service_utils.py imports neither os nor      *)
(* health_pb2_grpc, so the options that need them end in a NameError.      *)
(***************************************************************************)
NoTls == args.tls_directory = ""

create_channel ==
    /\ pc = "channel"
    /\ \/ NoTls /\ channel' = "insecure" /\ Goto("health")
       \/ ~NoTls /\ Exit(1) /\ UNCHANGED channel
    /\ UNCHANGED <<args, audioVars, call, answerVars>>

check_health ==
    /\ pc = "health"
    /\ IF args.wait_for_service_start > 0 THEN Exit(1) ELSE Goto("mode")
    /\ UNCHANGED <<args, channel, audioVars, call, answerVars>>

-----------------------------------------------------------------------------
(***************************************************************************)
(* Choice of recognizer and source.                                        *)
(***************************************************************************)

\* "Continuous Streaming Recognition doesn't support multiple ASR alternatives."
Refused == ~args.sync /\ args.max_alternatives > 1 /\ ~args.single_utterance

HasSource == args.audio # <<>> \/ (~args.sync /\ args.mic)

ChoosesMode ==
    /\ pc = "mode"
    /\ \/ Refused /\ Exit(1)
       \/ ~Refused /\ HasSource /\ Goto(IF args.sync THEN "load" ELSE "open")
       \/ ~Refused /\ ~HasSource /\ Exit(0)
    /\ UNCHANGED <<args, channel, audioVars, call, answerVars>>

Samples16BitMono(file) == file.channels = 1 /\ file.width = 2

\* The whole of a WAV file, for one request.
AudioLoader ==
    LET file == args.audio[1]
    IN  /\ pc = "load"
        /\ IF file.format = "wav" /\ Samples16BitMono(file)
           THEN /\ source' = <<[kind |-> "file", rate |-> file.rate, size |-> file.size,
                                frame_samples_size |-> file.size]>>
                /\ Goto("call")
           ELSE Exit(1) /\ UNCHANGED source
        /\ UNCHANGED <<args, channel, data_index, closed, sending, call, answerVars>>

\* Mutated: milliseconds are made seconds before they are multiplied.
AudioStream_WholeSeconds ==
    LET file == args.audio[1]
    IN  /\ pc = "open" /\ args.audio # <<>>
        /\ IF file.format # "none" /\ Samples16BitMono(file)
           THEN /\ source' = <<[kind |-> "file", rate |-> file.rate, size |-> file.size,
                                frame_samples_size |->
                                    file.rate * (args.frame_length \div 1000) * 2]>>
                /\ Goto("call")
           ELSE Exit(1) /\ UNCHANGED source
        /\ UNCHANGED <<args, channel, data_index, closed, sending, call, answerVars>>

\* A file goes before the microphone.
AudioStream ==
    LET file == args.audio[1]
    IN  /\ pc = "open" /\ args.audio # <<>>
        /\ IF file.format # "none" /\ Samples16BitMono(file)
           THEN /\ source' = <<[kind |-> "file", rate |-> file.rate, size |-> file.size,
                                frame_samples_size |->
                                    (file.rate \div 1000) * args.frame_length * 2]>>
                /\ Goto("call")
           ELSE Exit(1) /\ UNCHANGED source
        /\ UNCHANGED <<args, channel, data_index, closed, sending, call, answerVars>>

\* PyAudio may find no device.
OpensMicrophone ==
    /\ pc = "open" /\ args.audio = <<>>
    /\ \/ /\ source' = <<[kind |-> "mic", rate |-> 16000, size |-> 0,
                          frame_samples_size |-> 3200]>>
          /\ closed' = FALSE
          /\ Goto("call")
       \/ Exit(1) /\ UNCHANGED <<source, closed>>
    /\ UNCHANGED <<args, channel, data_index, sending, call, answerVars>>

-----------------------------------------------------------------------------
(***************************************************************************)
(* The calls.                                                              *)
(***************************************************************************)
CallsRecognize ==
    /\ pc = "call" /\ args.sync
    /\ call' = <<[method  |-> Recognize,
                  request |-> build_sync_request(source[1].rate, <<0, source[1].size>>, args),
                  options |-> NoCallOptions]>>
    /\ Goto("waiting")
    /\ UNCHANGED <<args, channel, audioVars, answerVars>>

CallsStreamingRecognize ==
    /\ pc = "call" /\ ~args.sync
    /\ call' = <<[method  |-> StreamingRecognize,
                  request |-> build_configuration_request(source[1].rate, args),
                  options |-> CallOptions(args)]>>
    /\ sending' = "yes"
    /\ Goto("reading")
    /\ UNCHANGED <<args, channel, source, data_index, closed, answerVars>>

InCall == pc \in {"waiting", "reading"}

\* RpcError, for which the program has no handler: the results are lost.
CallFails ==
    /\ InCall
    /\ Exit(1)
    /\ UNCHANGED <<args, channel, audioVars, call, answerVars>>

HasDeadline == call # <<>> /\ call[1].options.timeout # <<>>

\* Mutated: the last frame is not cut to the length of the file.
FeedsFile_NotCut ==
    LET end == data_index + source[1].frame_samples_size
    IN  /\ pc = "reading" /\ sending = "yes"
        /\ source[1].kind = "file" /\ data_index < source[1].size
        /\ data_index' = end
        /\ UNCHANGED <<args, pc, channel, source, closed, sending, call, answerVars, exitCode>>

\* The generator of the source, in gRPC's thread.
FeedsFile ==
    LET end == data_index + source[1].frame_samples_size
    IN  /\ pc = "reading" /\ sending = "yes"
        /\ source[1].kind = "file" /\ data_index < source[1].size
        /\ data_index' = IF end >= source[1].size THEN source[1].size ELSE end
        /\ UNCHANGED <<args, pc, channel, source, closed, sending, call, answerVars, exitCode>>

Exhausted == IF source[1].kind = "file" THEN data_index >= source[1].size ELSE closed

FeedEnds ==
    /\ pc = "reading" /\ sending = "yes" /\ Exhausted
    /\ sending' = "done"
    /\ UNCHANGED <<args, pc, channel, source, data_index, closed, call, answerVars, exitCode>>

\* close(); in AudioStream the generator may overwrite the mark, as
\* PyFileStreaming shows.
CloseSource ==
    IF source[1].kind = "mic" THEN closed' = TRUE /\ UNCHANGED data_index
    ELSE data_index' \in {data_index, source[1].size + 1} /\ UNCHANGED closed

-----------------------------------------------------------------------------
(***************************************************************************)
(* The service (external): hypotheses with their words, and words with     *)
(* their times where they were asked for, always for the first hypothesis. *)
(* Nothing makes the words those of the transcript.                        *)
(***************************************************************************)
WordInfos(words) ==
    [n \in 1 .. Len(words) |-> [start_time |-> n - 1, end_time |-> n, word |-> words[n]]]

Alternatives ==
    LET Most == IF args.max_alternatives > 1 THEN args.max_alternatives ELSE 1
    IN  UNION {{[i \in 1 .. n |->
                   [transcript |-> said[i].transcript,
                    words |-> IF args.time_offsets /\ (i = 1 \/ lower)
                              THEN WordInfos(said[i].words) ELSE <<>>]] :
                    said \in [1 .. n -> Utterance],
                    lower \in BOOLEAN} : n \in 0 .. Most}

RecognizeResponses ==
    LET Portion == {[alternatives |-> a, lattice |-> <<>>] : a \in Alternatives}
    IN  {[results |-> r] : r \in {<<>>} \cup {<<p>> : p \in Portion} \cup (Portion \X Portion)}

Result(alternatives, final) ==
    [alternatives |-> alternatives, is_final |-> final,
     result_finalization_cause |->
        IF final THEN "SUCCESS" ELSE "RESULT_FINALIZATION_CAUSE_UNSPECIFIED",
     lattice |-> <<>>]

Interim == Result(<<[transcript |-> <<>>, words |-> <<>>]>>, FALSE)

StreamingResponses ==
    {UnsetStreamingResponse, [UnsetStreamingResponse EXCEPT !.error.code = 3]}
    \cup {[UnsetStreamingResponse EXCEPT !.results = r] :
            r \in {<<Result(a, TRUE)>> : a \in Alternatives}
                  \cup IF args.interim_results
                       THEN {<<Interim>>} \cup {<<Result(a, TRUE), Interim>> : a \in Alternatives}
                       ELSE {}}
    \cup IF args.single_utterance
         THEN {[UnsetStreamingResponse EXCEPT !.speech_event_type = "END_OF_SINGLE_UTTERANCE"]}
         ELSE {}

-----------------------------------------------------------------------------
(***************************************************************************)
(* What the recognizers do with the responses.                             *)
(***************************************************************************)

\* A response without results raises an IndexError.
ReceivesRecognizeResponse ==
    /\ pc = "waiting"
    /\ \E r \in RecognizeResponses :
          /\ responses' = <<r>>
          /\ \/ r.results = <<>> /\ Exit(1) /\ UNCHANGED results
             \/ r.results # <<>> /\ results' = SyncResults(r, args) /\ Goto("print")
    /\ UNCHANGED <<args, channel, audioVars, call, printed>>

\* Mutated: each response replaces the results of those before it.
ReceivesStreamingResponse_Replaces ==
    /\ pc = "reading" /\ Len(responses) < MaxResponses
    /\ \E r \in StreamingResponses :
          /\ responses' = Append(responses, r)
          /\ IF \/ r.error.code # 0
                \/ r.speech_event_type # "SPEECH_EVENT_UNSPECIFIED"
             THEN CloseSource /\ UNCHANGED results
             ELSE /\ results' = IF r.results = <<>> THEN results
                                ELSE StreamingResults(r, args)
                  /\ UNCHANGED <<data_index, closed>>
    /\ UNCHANGED <<args, pc, channel, source, sending, call, printed, exitCode>>

ReceivesStreamingResponse ==
    /\ pc = "reading" /\ Len(responses) < MaxResponses
    /\ \E r \in StreamingResponses :
          /\ responses' = Append(responses, r)
          /\ IF \/ r.error.code # 0
                \/ r.speech_event_type # "SPEECH_EVENT_UNSPECIFIED"
             THEN CloseSource /\ UNCHANGED results
             ELSE /\ results' = IF r.results = <<>> THEN results
                                ELSE results \o StreamingResults(r, args)
                  /\ UNCHANGED <<data_index, closed>>
    /\ UNCHANGED <<args, pc, channel, source, sending, call, printed, exitCode>>

\* The service may end a call at any time; what the client still sends is lost.
StreamEnds ==
    /\ pc = "reading"
    /\ Goto("print")
    /\ UNCHANGED <<args, channel, audioVars, call, answerVars>>

Prints ==
    /\ pc = "print"
    /\ printed' = print_results(results)
    /\ Exit(0)
    /\ UNCHANGED <<args, channel, audioVars, call, responses, results>>

-----------------------------------------------------------------------------
MainThread ==
    \/ create_channel \/ check_health \/ ChoosesMode
    \/ AudioLoader \/ AudioStream \/ OpensMicrophone
    \/ CallsRecognize \/ CallsStreamingRecognize \/ Prints

Feeds == FeedsFile \/ FeedEnds

Answers == ReceivesRecognizeResponse \/ ReceivesStreamingResponse \/ StreamEnds \/ CallFails

Next ==
    \/ MainThread \/ Feeds \/ Answers
    \/ pc = "exited" /\ UNCHANGED vars

Spec == Init /\ [][Next]_vars

\* The program's threads run, that of a microphone's generator because the device
\* goes on recording (PyMicStreaming shows what becomes of it otherwise).
FairSpec == Spec /\ WF_vars(MainThread) /\ WF_vars(Feeds)

\* A service answers a unary call, and ends a streaming call that has been
\* half-closed; a deadline passes.
ServiceFairness ==
    /\ WF_vars(pc = "waiting" /\ (ReceivesRecognizeResponse \/ CallFails))
    /\ WF_vars(sending = "done" /\ (StreamEnds \/ CallFails))

DeadlineFairness == WF_vars(HasDeadline /\ CallFails)

-----------------------------------------------------------------------------
(***************************************************************************)
(* Properties.                                                             *)
(***************************************************************************)

\* Every call carries mono audio of 16 bit samples, labelled LINEAR16 and with
\* the rate of the file or device it comes from, a synchronous one all of it:
\* the checks of audio_loader.py:28-36 and audio_stream.py:15-19 reach the
\* request that build_recognition_config makes much later.
OnlyLegalAudio ==
    call # <<>> =>
        LET request == call[1].request
            config  == IF args.sync THEN request.config ELSE request.streaming_config.config
            rate    == IF args.audio = <<>> THEN 16000 ELSE args.audio[1].rate
        IN  /\ args.audio # <<>> => Samples16BitMono(args.audio[1])
            /\ config.encoding = "LINEAR16" /\ config.sample_rate_hertz = rate
            /\ args.sync => request.audio.content = <<0, args.audio[1].size>>

NotBlank(texts) == Without(texts, {<<>>})

\* Every text that a response settles: the transcripts of all hypotheses of all
\* its results, interim ones excepted.
Settled(result) == args.sync \/ result.is_final

Transcripts(r) ==
    FlattenSeq([k \in 1 .. Len(r.results) |->
        LET a == r.results[k].alternatives
        IN  IF Settled(r.results[k]) THEN [n \in 1 .. Len(a) |-> a[n].transcript] ELSE <<>>])

\* The words of a hypothesis, silence left out, are its transcript.
Spelled(h) ==
    FlattenSeq(Without([n \in 1 .. Len(h.words) |-> h.words[n].word], {<<Eps>>}))
        = h.transcript

\* What recognizers that look at one result, and with time offsets at nothing
\* but words, can do justice to.
Tellable(r) ==
    /\ args.sync => Len(r.results) <= 1
    /\ args.time_offsets =>
          \A result \in ToSet(r.results) : Settled(result) =>
              \A h \in ToSet(result.alternatives) : Spelled(h)

\* Exit status 0 means that every text the service settled, in all the responses
\* of the call, has been printed as the service gave it, also where the client
\* put it together from words (streaming_recognizer.py:103-108), once and in the
\* order it came in, and no text besides; any other status means that nothing was
\* printed (the results of a call that fails late are gone).  Not so with
\* --max-alternatives 0, with a second portion in a synchronous response, and
\* with hypotheses that their words do not spell: texts are lost there
\* (AllHypothesesPrinted).
PrintedAsGiven ==
    pc = "exited" =>
        IF exitCode = <<0>>
        THEN args.max_alternatives > 0 /\ (\A r \in ToSet(responses) : Tellable(r)) =>
                NotBlank([n \in 1 .. Len(printed) |-> printed[n].transcript])
                   = NotBlank(FlattenSeq([k \in 1 .. Len(responses) |-> Transcripts(responses[k])]))
        ELSE printed = <<>>

\* Every time that print_results puts beside a word is a time the service gave
\* for this very word: silence, dropped from the text, takes its time with it,
\* and a word that is printed as two leaves the whole entry without times.
TimesBesideTheirWords ==
    LET Infos == UNION {ToSet(a.words) :
                    a \in UNION {ToSet(x.alternatives) :
                              x \in UNION {ToSet(r.results) : r \in ToSet(responses)}}}
    IN  \A n \in 1 .. Len(printed) : \A line \in ToSet(printed[n].times) :
            \E w \in Infos : w.word = <<line[1]>> /\ <<w.start_time, w.end_time>> = line[2]

\* A stream of a file in frames of no bytes at all, for ever: the rate is below
\* 1000 Hz or the frame length is 0 (audio_stream.py:25).
EmptyFrames ==
    /\ ~args.sync /\ args.audio # <<>>
    /\ args.audio[1].size > 0
    /\ args.audio[1].rate < 1000 \/ args.frame_length = 0

\* A stream of the microphone in which no response says that it is enough.
Unstopped ==
    /\ ~args.sync /\ args.audio = <<>>
    /\ \A r \in ToSet(responses) :
          r.error.code = 0 /\ r.speech_event_type = "SPEECH_EVENT_UNSPECIFIED"

\* With a service that answers, the program comes to an exit status, unless it
\* streams a file in empty frames or a microphone that no response ever stops.
\* With --grpc-timeout a streaming call comes to one whatever it streams and
\* whatever the service does.
Exits ==
    /\ ServiceFairness => <>(pc = "exited") \/ EmptyFrames \/ []Unstopped
    /\ DeadlineFairness /\ ~args.sync /\ args.grpc_timeout > 0 => <>(pc = "exited")

-----------------------------------------------------------------------------
\* "Stream audio to the ASR engine and print all hypotheses to standard output"
\* (dictation_client.py:85): exit status 0 means that every text the service
\* settled has been printed.  This includes the one hypothesis that 0 asks for ("A
\* value of `0` or `1` will return a maximum of one", dictation_asr.proto:262-263)
\* and all "sequential portions of audio" of a response (:415-416).
AllHypothesesPrinted ==
    exitCode = <<0>> =>
        \A r \in ToSet(responses) : \A text \in ToSet(NotBlank(Transcripts(r))) :
            \E p \in ToSet(printed) : p.transcript = text

\* "Timeout in milliseconds used to set gRPC deadline - how long the client is
\* willing to wait for a reply from the server" (dictation_client.py:57): with
\* such a timeout the program comes to an exit status though the service is silent.
DeadlineEnds == DeadlineFairness /\ args.grpc_timeout > 0 => <>(pc = "exited")
===============================================================================
