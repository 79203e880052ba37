---------------------------- MODULE PyRecognition ----------------------------
(***************************************************************************)
(* What the Python client puts into its requests and makes of the          *)
(* responses: service_utils.py, dictation_settings.py, the two recognizers *)
(* without their calls, and print_results.  Pure operators; args is the    *)
(* record of the command line options.                                     *)
(***************************************************************************)
EXTENDS DictationMessages, SequencesExt

CONSTANT Eps   \* the token '<eps>', which stands for silence

ASSUME EpsAssumption == Eps \in Token

-----------------------------------------------------------------------------
(***************************************************************************)
(* Requests.                                                               *)
(***************************************************************************)

\* Mutated: the rate is not taken from the audio.
build_recognition_config_FixedRate(rate, args) ==
    [UnsetRecognitionConfig EXCEPT !.encoding = "LINEAR16", !.sample_rate_hertz = 16000]

build_recognition_config(rate, args) ==
    [UnsetRecognitionConfig EXCEPT
        !.encoding                 = "LINEAR16",
        !.sample_rate_hertz        = rate,
        !.language_code            = "pl-PL",
        !.enable_word_time_offsets = args.time_offsets,
        !.max_alternatives         = args.max_alternatives,
        !.speech_contexts          = IF args.context_phrase = "" THEN <<>>
                                     ELSE <<[phrases |-> <<args.context_phrase>>]>>]

\* DictationSettings.timeouts_map, as the fields that are made of it.
timeouts_map(args) ==
    <<[key |-> "no-input-timeout",          value |-> ToString(args.no_input_timeout)],
      [key |-> "speech-complete-timeout",   value |-> ToString(args.speech_complete_timeout)],
      [key |-> "speech-incomplete-timeout", value |-> ToString(args.speech_incomplete_timeout)],
      [key |-> "recognition-timeout",       value |-> ToString(args.recognition_timeout)]>>

build_configuration_request(rate, args) ==
    [streaming_config |->
        [config           |-> [build_recognition_config(rate, args)
                                  EXCEPT !.config_fields = timeouts_map(args)],
         single_utterance |-> args.single_utterance,
         interim_results  |-> args.interim_results]]

\* SyncRecognizer has no use for the timeouts.
build_sync_request(rate, content, args) ==
    [config |-> build_recognition_config(rate, args), audio |-> [content |-> content]]

\* The deadline [ms] and the metadata that go with a streaming call; a
\* synchronous call is made with neither.
CallOptions(args) ==
    [timeout  |-> IF args.grpc_timeout > 0 THEN <<args.grpc_timeout>> ELSE <<>>,
     metadata |-> IF args.session_id = "" THEN <<>>
                  ELSE <<<<"session_id", args.session_id>>>>]

NoCallOptions == [timeout |-> <<>>, metadata |-> <<>>]

-----------------------------------------------------------------------------
(***************************************************************************)
(* Results.                                                                *)
(***************************************************************************)

\* for i in range(min(max_alternatives, len(alternatives)))
Considered(alternatives, args) ==
    SubSeq(alternatives, 1, IF args.max_alternatives < Len(alternatives)
                            THEN args.max_alternatives ELSE Len(alternatives))

NoTimes == <<<<>>>>

\* The elements of s that are not unwanted, in their order.
Without(s, unwanted) ==
    LET rest[n \in 0 .. Len(s)] ==
            IF n = 0 THEN <<>>
            ELSE IF s[n] \in unwanted THEN rest[n - 1]
            ELSE Append(rest[n - 1], s[n])
    IN  rest[Len(s)]

\* word.word == '<eps>'
Silence == [start_time : Duration, end_time : Duration, word : {<<Eps>>}]

\* Mutated: the time of silence is kept although its word is not.
FinalResult_KeepsSilence(alternative, args) ==
    LET spoken == Without(alternative.words, Silence)
        times  == [n \in 1 .. Len(alternative.words) |->
                      <<alternative.words[n].start_time, alternative.words[n].end_time>>]
    IN  IF args.time_offsets
        THEN [transcript |-> FlattenSeq([n \in 1 .. Len(spoken) |-> spoken[n].word]),
              alignment  |-> IF times = <<>> THEN NoTimes ELSE times]
        ELSE [transcript |-> alternative.transcript, alignment |-> NoTimes]

\* A hypothesis of a final result.  With time offsets its text is joined from
\* its words, of which there may be none, and its transcript is not looked at.
FinalResult(alternative, args) ==
    LET spoken == Without(alternative.words, Silence)
        times  == [n \in 1 .. Len(spoken) |-> <<spoken[n].start_time, spoken[n].end_time>>]
    IN  IF args.time_offsets
        THEN [transcript |-> FlattenSeq([n \in 1 .. Len(spoken) |-> spoken[n].word]),
              alignment  |-> IF times = <<>> THEN NoTimes ELSE times]
        ELSE [transcript |-> alternative.transcript, alignment |-> NoTimes]

\* An interim result leaves an empty entry.
InterimResult == [transcript |-> <<>>, alignment |-> NoTimes]

\* What the streaming loop adds for a response with results: those of the
\* first of them.
StreamingResults(response, args) ==
    LET first      == response.results[1]
        considered == Considered(first.alternatives, args)
    IN  [i \in 1 .. Len(considered) |->
            IF first.is_final THEN FinalResult(considered[i], args) ELSE InterimResult]

\* SyncRecognizer.recognize, for a response with at least one result.
SyncResults(response, args) ==
    LET considered == Considered(response.results[1].alternatives, args)
    IN  [i \in 1 .. Len(considered) |-> FinalResult(considered[i], args)]

-----------------------------------------------------------------------------
\* One entry of print_results: the transcript, and one line for each token with
\* a time, if there are as many times as tokens.
Printed(result) ==
    LET words == result.transcript
        ali   == result.alignment
    IN  [transcript |-> words,
         times      |-> IF Len(words) = Len(ali)
                        THEN Without(Zip(words, ali), Token \X {<<>>})
                        ELSE <<>>]

print_results(results) == [n \in 1 .. Len(results) |-> Printed(results[n])]
===============================================================================
