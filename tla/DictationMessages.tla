-------------------------- MODULE DictationMessages --------------------------
(***************************************************************************)
(* The messages of google.cloud.speech.v1 as both clients see them         *)
(* (service/dictation_asr_pb2.py, generated from dictation_asr.proto): one *)
(* set of records per message type, its fields under their own names.  An  *)
(* unset field has the default value of its type, a oneof is a union of    *)
(* sets of records, a repeated field a sequence.                           *)
(*                                                                         *)
(* A text is the sequence of its blank-separated tokens; a piece of audio  *)
(* is a pair of numbers, which each module that sends one explains.        *)
(* Floating point fields (confidence, stability, costs) and the message of *)
(* an error are left out.                                                  *)
(***************************************************************************)
EXTENDS Integers, Sequences

CONSTANT Token

MaxInt32 == 2147483647

Text     == Seq(Token)
Bytes    == Nat \X Nat
Int32    == (-MaxInt32 - 1) .. MaxInt32
Duration == Nat

AudioEncoding == {"ENCODING_UNSPECIFIED", "LINEAR16", "FLAC", "MULAW", "AMR", "AMR_WB",
                  "OGG_OPUS", "SPEEX_WITH_HEADER_BYTE", "MP3"}

SpeechEventType == {"SPEECH_EVENT_UNSPECIFIED", "END_OF_SINGLE_UTTERANCE"}

ResultFinalizationCause ==
    {"RESULT_FINALIZATION_CAUSE_UNSPECIFIED", "SUCCESS", "NO_INPUT_TIMEOUT",
     "SUCCESS_MAXTIME", "PARTIAL_MATCH", "NO_MATCH_MAXTIME"}

-----------------------------------------------------------------------------
(***************************************************************************)
(* Requests.                                                               *)
(***************************************************************************)
SpeechContext == [phrases : Seq(STRING)]
ConfigField   == [key : STRING, value : STRING]

RecognitionConfig ==
    [encoding : AudioEncoding, sample_rate_hertz : Int32, language_code : STRING,
     max_alternatives : Int32, profanity_filter : BOOLEAN,
     speech_contexts : Seq(SpeechContext), enable_word_time_offsets : BOOLEAN,
     enable_automatic_punctuation : BOOLEAN, config_fields : Seq(ConfigField),
     model : STRING, use_enhanced : BOOLEAN]

\* RecognitionConfig() with no field set.
UnsetRecognitionConfig ==
    [encoding |-> "ENCODING_UNSPECIFIED", sample_rate_hertz |-> 0, language_code |-> "",
     max_alternatives |-> 0, profanity_filter |-> FALSE, speech_contexts |-> <<>>,
     enable_word_time_offsets |-> FALSE, enable_automatic_punctuation |-> FALSE,
     config_fields |-> <<>>, model |-> "", use_enhanced |-> FALSE]

StreamingRecognitionConfig ==
    [config : RecognitionConfig, single_utterance : BOOLEAN, interim_results : BOOLEAN]

StreamingRecognizeRequest ==
    [streaming_config : StreamingRecognitionConfig] \cup [audio_content : Bytes]

RecognitionAudio == [content : Bytes] \cup [uri : STRING]

RecognizeRequest == [config : RecognitionConfig, audio : RecognitionAudio]

-----------------------------------------------------------------------------
(***************************************************************************)
(* Responses.                                                              *)
(***************************************************************************)
WordInfo == [start_time : Duration, end_time : Duration, word : Text]

LatticeEdge == [start_node : Int32, end_node : Int32, symbol : Text, duration : Int32]

RecognitionLattice == [final_nodes : Seq(Int32), edges : Seq(LatticeEdge)]

SpeechRecognitionAlternative == [transcript : Text, words : Seq(WordInfo)]

SpeechRecognitionResult ==
    [alternatives : Seq(SpeechRecognitionAlternative), lattice : Seq(RecognitionLattice)]

RecognizeResponse == [results : Seq(SpeechRecognitionResult)]

StreamingRecognitionResult ==
    [alternatives : Seq(SpeechRecognitionAlternative), is_final : BOOLEAN,
     result_finalization_cause : ResultFinalizationCause,
     lattice : Seq(RecognitionLattice)]

\* google.rpc.Status, of which the client looks at the code; 0 is OK or unset.
Status == [code : Int32]

StreamingRecognizeResponse ==
    [error : Status, results : Seq(StreamingRecognitionResult),
     speech_event_type : SpeechEventType]

\* StreamingRecognizeResponse() with no field set.
UnsetStreamingResponse ==
    [error |-> [code |-> 0], results |-> <<>>,
     speech_event_type |-> "SPEECH_EVENT_UNSPECIFIED"]

-----------------------------------------------------------------------------
(***************************************************************************)
(* The two methods of the service, as the stub serializes them.            *)
(***************************************************************************)
Recognize          == [request |-> "unary", response |-> "unary"]
StreamingRecognize == [request |-> "stream", response |-> "stream"]

RequestOf(method) ==
    IF method = Recognize THEN RecognizeRequest ELSE StreamingRecognizeRequest

ResponseOf(method) ==
    IF method = Recognize THEN RecognizeResponse ELSE StreamingRecognizeResponse
===============================================================================
