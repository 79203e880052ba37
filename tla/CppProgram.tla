------------------------------ MODULE CppProgram ------------------------------
(***************************************************************************)
(* The C++ program from its command line to its exit status                *)
(* (cpp/dictation-client/main.cpp), with the audio file (audio-utils.cpp), *)
(* the health check, and the building of the requests and the synchronous  *)
(* call (dictation_client.cpp).  The streaming call is one step here; its  *)
(* threads are CppStreaming, the cutting of its audio is CppFraming.       *)
(*                                                                         *)
(* Audio is a pair <<own, padding>>: so many bytes of the file's, from its *)
(* start, and so many blanks behind them.                                  *)
(***************************************************************************)
EXTENDS DictationMessages, SequencesExt

CONSTANTS
    Word,      \* the values of an unsigned int: 2^32, less for TLC
    Options,   \* the command lines that are tried
    Header     \* wave headers: [numOfChan, data, samplesPerSec, subchunk2Size]

\* What the option parser and the fields of a wave header can yield.
ASSUME CppProgramAssumption ==
    /\ Word \in Nat \ {0} /\ Word % 2 = 0 /\ (Word \div 2) - 1 \in Int32
    /\ Header \subseteq [numOfChan : Nat, data : BOOLEAN,
                         samplesPerSec : 0 .. Word - 1, subchunk2Size : 0 .. Word - 1]
    /\ \A o \in Options :
          /\ o.service_settings \in Seq(Seq(STRING)) /\ o.context_phrase \in STRING
          /\ o.max_alternatives \in Int32
          /\ {o.time_offsets, o.single_utterance, o.interim_results} \subseteq BOOLEAN
          /\ o.file.header \in Header /\ o.file.size \in Nat

\* The provers do not know that a literal is a string.
ASSUME LiteralsAreStrings == {"", "pl-PL"} \subseteq STRING

VARIABLES
    options,   \* the parsed command line, its audio file included
    pc,        \* where main is
    health,    \* what CheckHealth returned, "none" without it
    wave,      \* WAV_DATA that was read: [header, audioBytes]
    call,      \* the recognition call made: [method, request, audio, context]
    exitCode   \* <<>> until main returns

vars == <<options, pc, health, wave, call, exitCode>>

Init ==
    /\ options \in Options
    /\ pc = "options" /\ health = "none"
    /\ wave = <<>> /\ call = <<>> /\ exitCode = <<>>

Goto(l)    == pc' = l /\ UNCHANGED exitCode
Exit(code) == pc' = "exited" /\ exitCode' = <<code>>

-----------------------------------------------------------------------------
(***************************************************************************)
(* Requests.                                                               *)
(***************************************************************************)

\* The map made of "key=value;...", given as a sequence of lines, each the
\* sequence of its fields: a line that has not two of them is skipped, and of
\* two values of a key the later one is kept.
ReadServiceSettingsOption(lines) ==
    LET Valid(key) == {n \in 1 .. Len(lines) : Len(lines[n]) = 2 /\ lines[n][1] = key}
    IN  [key \in {lines[n][1] : n \in {k \in 1 .. Len(lines) : Len(lines[k]) = 2}} |->
            lines[CHOOSE n \in Valid(key) : \A k \in Valid(key) : k <= n][2]]

\* One field per key; their order is that of the keys and left open here.
fill_additional_settings(service_settings) ==
    LET keys == SetToSeq(DOMAIN service_settings)
    IN  [n \in 1 .. Len(keys) |-> [key |-> keys[n], value |-> service_settings[keys[n]]]]

\* A protobuf field of type int32 that is given an unsigned int.
AsInt32(n) == IF n < Word \div 2 THEN n ELSE n - Word

build_recognition_config(header) ==
    [UnsetRecognitionConfig EXCEPT
        !.encoding                 = "LINEAR16",
        !.sample_rate_hertz        = AsInt32(header.samplesPerSec),
        !.language_code            = "pl-PL",
        !.enable_word_time_offsets = options.time_offsets,
        !.max_alternatives         = options.max_alternatives,
        !.config_fields            = fill_additional_settings(
                                       ReadServiceSettingsOption(options.service_settings)),
        !.speech_contexts          = IF options.context_phrase = "" THEN <<>>
                                     ELSE <<[phrases |-> <<options.context_phrase>>]>>]

build_sync_request(header, audio) ==
    [config |-> build_recognition_config(header), audio |-> [content |-> audio]]

\* The first of the vector of build_streaming_request.
config_request(header) ==
    [streaming_config |-> [config           |-> build_recognition_config(header),
                           single_utterance |-> options.single_utterance,
                           interim_results  |-> options.interim_results]]

prepare_context ==
    [metadata |-> IF options.session_id = "" THEN <<>>
                  ELSE <<<<"session_id", options.session_id>>>>,
     deadline |-> IF options.grpc_timeout > 0 THEN <<options.grpc_timeout>> ELSE <<>>]

\* The files of a TLS directory are read anew for every call, and may be
\* unreadable at each.
CredentialsUnreadable == options.tls_dir # ""

-----------------------------------------------------------------------------
(***************************************************************************)
(* Options and health check.                                               *)
(***************************************************************************)
ParsesOptions ==
    /\ pc = "options"
    /\ \/ options.parse = "ok" /\ Goto("health")
       \/ options.parse = "help" /\ Exit(0)
       \/ options.parse = "wrong" /\ Exit(1)
    /\ UNCHANGED <<options, health, wave, call>>

SkipsHealth ==
    /\ pc = "health" /\ options.wait_for_service_start <= 0
    /\ Goto("file")
    /\ UNCHANGED <<options, health, wave, call>>

\* Mutated: only NOT_SERVING keeps the program from going on.
CheckHealth_AnyAnswer ==
    /\ pc = "health" /\ options.wait_for_service_start > 0
    /\ \/ CredentialsUnreadable /\ Exit(1) /\ UNCHANGED health
       \/ /\ health' \in {"SERVING", "NOT_SERVING", "SERVICE_UNKNOWN", "UNKNOWN"}
          /\ IF health' = "NOT_SERVING" THEN Exit(2) ELSE Goto("file")
    /\ UNCHANGED <<options, wave, call>>

\* A call that fails or runs into its deadline counts as UNKNOWN.
CheckHealth ==
    /\ pc = "health" /\ options.wait_for_service_start > 0
    /\ \/ CredentialsUnreadable /\ Exit(1) /\ UNCHANGED health
       \/ /\ health' \in {"SERVING", "NOT_SERVING", "SERVICE_UNKNOWN", "UNKNOWN"}
          /\ \/ health' = "NOT_SERVING" /\ Exit(2)
             \/ health' \in {"SERVICE_UNKNOWN", "UNKNOWN"} /\ Exit(3)
             \/ health' = "SERVING" /\ Goto("file")
    /\ UNCHANGED <<options, wave, call>>

-----------------------------------------------------------------------------
(***************************************************************************)
(* The audio file: [suffix, opens, whole, header, size], where whole tells *)
(* whether there are 44 bytes of header and size counts the bytes behind   *)
(* it, or for ogg those that it decodes to.                                *)
(***************************************************************************)
NoFile ==
    /\ pc = "file" /\ options.file.suffix \notin {"wav", "ogg"}
    /\ Exit(IF options.file.suffix = "no path" THEN 0 ELSE 1)
    /\ UNCHANGED <<options, health, wave, call>>

\* Mutated: the string is as long as what the file holds.
audioBytes_AsRead(header, size) == <<size, 0>>

\* std::string(subchunk2Size, ' '), overwritten as far as the file goes.
audioBytes(header, size) ==
    IF size < header.subchunk2Size THEN <<size, header.subchunk2Size - size>>
    ELSE <<header.subchunk2Size, 0>>

\* The header is not initialised, and not filled by a file that is too short
\* for one: it may then be any.
ReadWaveFile ==
    /\ pc = "file" /\ options.file.suffix = "wav"
    /\ IF ~options.file.opens THEN Exit(1) /\ UNCHANGED wave
       ELSE \E h \in IF options.file.whole THEN {options.file.header} ELSE Header :
              IF h.numOfChan # 1 \/ ~h.data THEN Exit(1) /\ UNCHANGED wave
              ELSE /\ wave' = <<[header |-> h, audioBytes |-> audioBytes(h, options.file.size)]>>
                   /\ Goto("call")
    /\ UNCHANGED <<options, health, call>>

CreateWaveHeader(rate, bytes) ==
    [numOfChan |-> 1, data |-> TRUE, samplesPerSec |-> rate, subchunk2Size |-> bytes % Word]

\* Decoding may fail on the way.
ReadOggFile ==
    LET file == options.file
    IN  /\ pc = "file" /\ file.suffix = "ogg"
        /\ \/ Exit(1) /\ UNCHANGED wave
           \/ /\ file.opens /\ file.header.numOfChan = 1
              /\ wave' = <<[header     |-> CreateWaveHeader(file.header.samplesPerSec, file.size),
                            audioBytes |-> <<file.size, 0>>]>>
              /\ Goto("call")
        /\ UNCHANGED <<options, health, call>>

-----------------------------------------------------------------------------
(***************************************************************************)
(* The call.                                                               *)
(***************************************************************************)
CallRefused ==
    /\ pc = "call" /\ CredentialsUnreadable
    /\ Exit(1)
    /\ UNCHANGED <<options, health, wave, call>>

CallsRecognize ==
    /\ pc = "call" /\ options.sync
    /\ call' = <<[method  |-> Recognize,
                  request |-> build_sync_request(wave[1].header, wave[1].audioBytes),
                  audio   |-> wave[1].audioBytes,
                  context |-> prepare_context]>>
    /\ Goto("called")
    /\ UNCHANGED <<options, health, wave>>

CallsStreamingRecognize ==
    /\ pc = "call" /\ ~options.sync
    /\ call' = <<[method  |-> StreamingRecognize,
                  request |-> config_request(wave[1].header),
                  audio   |-> wave[1].audioBytes,
                  context |-> prepare_context]>>
    /\ Goto("called")
    /\ UNCHANGED <<options, health, wave>>

\* Whatever the status of the call, the responses are printed and main returns
\* 0; a streaming call may abort the process (134, SIGABRT), as CppStreaming shows.
CallReturns ==
    /\ pc = "called"
    /\ \/ Exit(0)
       \/ ~options.sync /\ Exit(134)
    /\ UNCHANGED <<options, health, wave, call>>

Next ==
    \/ ParsesOptions \/ SkipsHealth \/ CheckHealth
    \/ NoFile \/ ReadWaveFile \/ ReadOggFile
    \/ CallRefused \/ CallsRecognize \/ CallsStreamingRecognize \/ CallReturns
    \/ pc = "exited" /\ UNCHANGED vars

Spec == Init /\ [][Next]_vars

-----------------------------------------------------------------------------
(***************************************************************************)
(* Properties.                                                             *)
(***************************************************************************)

\* The exit status and what the service has seen (main.cpp:136-145, 180-185):
\* a service that was asked for its health is called only when it said SERVING;
\* 2 and 3 are the verdicts of the health check and of nothing else, so that a
\* monitor may rely on them; and 1 means that the service got no audio, so that
\* a script may start the program again.
StatusTellsWhatWasDone ==
    /\ call # <<>> =>
          \/ health = "SERVING"
          \/ health = "none" /\ options.wait_for_service_start <= 0
    /\ (exitCode = <<2>>) <=> (pc = "exited" /\ health = "NOT_SERVING")
    /\ (exitCode = <<3>>) <=> (pc = "exited" /\ health \in {"SERVICE_UNKNOWN", "UNKNOWN"})
    /\ exitCode = <<1>> => call = <<>>

\* Two requests for the same command line and file, synchronous or streaming,
\* fit the schema and have the same configuration: the rate of the header if the
\* field can hold it, and every setting once, with the value given last
\* (main.cpp:18-56).  The audio of a wave file is as long as the header says, and
\* its end is blank only where the file was shorter; of an ogg file it is all
\* that was decoded (audio-utils.cpp:27-28, 52-67).
RequestAsAsked ==
    call # <<>> =>
        LET c      == call[1]
            header == wave[1].header
            config == IF options.sync THEN c.request.config ELSE c.request.streaming_config.config
            fields == config.config_fields
            given  == options.service_settings
        IN  /\ c.request \in RequestOf(c.method)
            /\ header.samplesPerSec < Word \div 2 =>
                  config.sample_rate_hertz = header.samplesPerSec
            /\ \A n, k \in 1 .. Len(fields) : fields[n].key = fields[k].key => n = k
            /\ \A n \in 1 .. Len(given) :
                  \/ Len(given[n]) # 2
                  \/ \E k \in n + 1 .. Len(given) : Len(given[k]) = 2 /\ given[k][1] = given[n][1]
                  \/ [key |-> given[n][1], value |-> given[n][2]] \in ToSet(fields)
            /\ IF options.file.suffix = "wav"
               THEN /\ c.audio[1] + c.audio[2] = header.subchunk2Size
                    /\ c.audio[2] > 0 => c.audio[1] = options.file.size
               ELSE c.audio = <<options.file.size, 0>>
===============================================================================
