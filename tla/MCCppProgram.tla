----------------------------- MODULE MCCppProgram -----------------------------
(***************************************************************************)
(* CppProgram with wave files that are shorter than, as long as and longer *)
(* than their headers say, or too short for a header, and with settings    *)
(* that repeat a key or are no pair.  An unsigned int has 14 bits here, so *)
(* that the rate 10000 does not fit an int32 field.                        *)
(***************************************************************************)
EXTENDS CppProgram

MCHeader ==
    [numOfChan : {1, 2}, data : BOOLEAN, samplesPerSec : {8000, 10000}, subchunk2Size : {0, 2, 4}]

Files ==
    [suffix : {"wav"}, opens : BOOLEAN, whole : {TRUE}, header : MCHeader, size : {0, 2, 4}]
    \cup [suffix : {"wav"}, opens : {TRUE}, whole : {FALSE},
          header : {h \in MCHeader : h.subchunk2Size = 0}, size : {0}]
    \cup [suffix : {"ogg"}, opens : BOOLEAN, whole : {TRUE},
          header : {h \in MCHeader : h.subchunk2Size = 0}, size : {0, 4}]
    \cup [suffix : {"mp3", "no path"}, opens : {TRUE}, whole : {TRUE},
          header : {CHOOSE h \in MCHeader : TRUE}, size : {0}]

Plain ==
    [parse |-> "ok", file |-> CHOOSE f \in Files : f.suffix = "ogg" /\ f.opens,
     sync |-> FALSE, tls_dir |-> "", session_id |-> "", grpc_timeout |-> 0,
     wait_for_service_start |-> 0, time_offsets |-> FALSE, single_utterance |-> TRUE,
     interim_results |-> FALSE, service_settings |-> <<>>, max_alternatives |-> 1,
     context_phrase |-> ""]

MCOptions ==
    {[Plain EXCEPT !.parse = p] : p \in {"ok", "help", "wrong"}}
    \cup {[Plain EXCEPT !.file = f, !.sync = s] : f \in Files, s \in BOOLEAN}
    \cup {[Plain EXCEPT !.tls_dir = t, !.wait_for_service_start = w, !.sync = s] :
            t \in {"", "certs"}, w \in {0, 5}, s \in BOOLEAN}
    \cup {[Plain EXCEPT !.service_settings = l, !.sync = s] :
            s \in BOOLEAN,
            l \in {<<<<"k", "1">>>>, <<<<"k", "1">>, <<"k">>, <<"l", "1">>, <<"k", "2">>>>,
                   <<<<"k", "1", "2">>, <<>>>>}}
    \cup {[Plain EXCEPT !.session_id = "s", !.grpc_timeout = 100, !.context_phrase = "p",
                        !.time_offsets = TRUE]}
===============================================================================
