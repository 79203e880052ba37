----------------------------- MODULE MCPyProgram -----------------------------
(***************************************************************************)
(* PyProgram with command lines that differ from a plain one in what each  *)
(* branch of the start depends on, and with all combinations of the        *)
(* options that shape the results.                                         *)
(***************************************************************************)
EXTENDS PyProgram

\* Nothing, and a text with silence between or behind its words.
MCSpelled ==
    {[transcript |-> <<>>, words |-> <<>>],
     [transcript |-> <<"a", "b">>, words |-> <<<<"a">>, <<Eps>>, <<"b">>>>],
     [transcript |-> <<"a", "b">>, words |-> <<<<"a", "b">>, <<Eps>>>>]}

\* The same and a text that is not what its words spell.
MCUtterance == MCSpelled \cup {[transcript |-> <<"b">>, words |-> <<<<"a">>, <<"b">>>>]}

Wav == [format |-> "wav", channels |-> 1, width |-> 2, rate |-> 8000, size |-> 500]

\* Mono 16 bit in every format; two channels; 8 bit; a rate below 1000 Hz; no audio.
Files ==
    {[Wav EXCEPT !.format = f] : f \in {"wav", "other", "none"}}
        \cup {[Wav EXCEPT !.channels = 2], [Wav EXCEPT !.width = 1],
              [Wav EXCEPT !.rate = 500], [Wav EXCEPT !.size = 0]}

Plain ==
    [audio |-> <<Wav>>, mic |-> FALSE, sync |-> FALSE, tls_directory |-> "",
     session_id |-> "", grpc_timeout |-> 0, wait_for_service_start |-> 0,
     context_phrase |-> "", max_alternatives |-> 1, time_offsets |-> FALSE,
     single_utterance |-> FALSE, interim_results |-> FALSE, frame_length |-> 20,
     no_input_timeout |-> 5000, speech_complete_timeout |-> 2000,
     speech_incomplete_timeout |-> 4000, recognition_timeout |-> 10000]

Starts ==
    {[Plain EXCEPT !.audio = a, !.mic = m, !.sync = s] :
        a \in {<<>>} \cup {<<f>> : f \in Files}, m \in BOOLEAN, s \in BOOLEAN}
    \cup {[Plain EXCEPT !.sync = s, !.tls_directory = t, !.wait_for_service_start = w] :
            s \in BOOLEAN, t \in {"", "certs"}, w \in {0, 1}}
    \cup {[Plain EXCEPT !.frame_length = 0],
          [Plain EXCEPT !.frame_length = 0, !.grpc_timeout = 100],
          [Plain EXCEPT !.grpc_timeout = 100],
          [Plain EXCEPT !.sync = TRUE, !.session_id = "s", !.grpc_timeout = 100],
          [Plain EXCEPT !.audio = <<>>, !.mic = TRUE, !.session_id = "s",
                        !.grpc_timeout = 100, !.context_phrase = "p"]}

Outputs ==
    {[Plain EXCEPT !.sync = s, !.max_alternatives = n, !.time_offsets = t,
                   !.single_utterance = u, !.interim_results = u] :
        s \in BOOLEAN, n \in 0 .. 2, t \in BOOLEAN, u \in BOOLEAN}

MCArgs == Starts \cup Outputs

\* The command lines with a deadline.
MCTimed == {a \in MCArgs : a.grpc_timeout > 0}
===============================================================================
