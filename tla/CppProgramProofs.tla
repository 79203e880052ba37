--------------------------- MODULE CppProgramProofs ---------------------------
(***************************************************************************)
(* Proofs that the exit status of the C++ program tells what was done, and *)
(* that its request is made of the command line and the audio file as they *)
(* are, for every set of command lines, audio files and wave headers.      *)
(***************************************************************************)
EXTENDS CppProgram, FiniteSetTheorems, SequenceTheorems, TLAPS

\* What has been asked and said of the service's health at each place of main,
\* and where a call can have been made.
GateInv ==
    /\ pc \in {"options", "health"} => health = "none"
    /\ pc \in {"file", "call", "called"} =>
          \/ health = "SERVING"
          \/ health = "none" /\ options.wait_for_service_start <= 0
    /\ call # <<>> =>
          /\ pc \in {"called", "exited"}
          /\ \/ health = "SERVING"
             \/ health = "none" /\ options.wait_for_service_start <= 0

\* A status is set where main ends, and the verdicts of the health check come
\* from it alone.
StatusInv ==
    /\ (pc = "exited") <=> (exitCode # <<>>)
    /\ pc = "exited" => exitCode \in {<<0>>, <<1>>, <<2>>, <<3>>, <<134>>}
    /\ (exitCode = <<2>>) <=> (pc = "exited" /\ health = "NOT_SERVING")
    /\ (exitCode = <<3>>) <=> (pc = "exited" /\ health \in {"SERVICE_UNKNOWN", "UNKNOWN"})
    /\ exitCode = <<1>> => call = <<>>

IInv == GateInv /\ StatusInv

-----------------------------------------------------------------------------
\* Every step of main keeps what holds of the health check.
LEMMA GateStep == ASSUME IInv, [Next]_vars PROVE GateInv'
<1> USE DEF IInv, GateInv, StatusInv, Goto, Exit
<1>1. CASE ParsesOptions BY <1>1 DEF ParsesOptions
<1>2. CASE SkipsHealth BY <1>2 DEF SkipsHealth
<1>3. CASE CheckHealth BY <1>3 DEF CheckHealth
<1>4. CASE NoFile BY <1>4 DEF NoFile
<1>5. CASE ReadWaveFile BY <1>5 DEF ReadWaveFile
<1>6. CASE ReadOggFile BY <1>6 DEF ReadOggFile
<1>7. CASE CallRefused BY <1>7 DEF CallRefused
<1>8. CASE CallsRecognize BY <1>8 DEF CallsRecognize
<1>9. CASE CallsStreamingRecognize BY <1>9 DEF CallsStreamingRecognize
<1>10. CASE CallReturns BY <1>10 DEF CallReturns
<1>11. CASE UNCHANGED vars BY <1>11 DEF vars
<1> QED BY <1>1, <1>2, <1>3, <1>4, <1>5, <1>6, <1>7, <1>8, <1>9, <1>10, <1>11 DEF Next

\* main goes on without a status.
LEMMA GoesOn ==
    ASSUME StatusInv, pc # "exited", pc' # "exited", exitCode' = exitCode
    PROVE  StatusInv'
BY DEF StatusInv

\* main ends with a status that is not a verdict of the health check.
LEMMA PlainExit ==
    ASSUME NEW code \in {0, 1, 134}, pc' = "exited", exitCode' = <<code>>,
           health' \in {"none", "SERVING"},
           code = 1 => call' = <<>>
    PROVE  StatusInv'
<1>1. exitCode' \notin {<<>>, <<2>>, <<3>>} OBVIOUS
<1>2. exitCode' = <<1>> => code = 1 OBVIOUS
<1> QED BY <1>1, <1>2 DEF StatusInv

\* Every step of main keeps what holds of the exit status.
LEMMA StatusStep == ASSUME IInv, [Next]_vars PROVE StatusInv'
<1> USE DEF IInv, GateInv, Goto, Exit
<1>1. CASE ParsesOptions BY <1>1, GoesOn, PlainExit DEF ParsesOptions
<1>2. CASE SkipsHealth BY <1>2, GoesOn DEF SkipsHealth
<1>3. CASE CheckHealth BY <1>3 DEF CheckHealth, StatusInv
<1>4. CASE NoFile
  <2> DEFINE code == IF options.file.suffix = "no path" THEN 0 ELSE 1
  <2>1. exitCode' = <<code>> /\ code \in {0, 1} /\ pc' = "exited" BY <1>4 DEF NoFile
  <2>2. call' = <<>> /\ health' \in {"none", "SERVING"} BY <1>4 DEF NoFile
  <2> HIDE DEF code
  <2> QED BY <2>1, <2>2, PlainExit
<1>5. CASE ReadWaveFile
  <2>1. pc = "file" /\ call' = <<>> /\ health' \in {"none", "SERVING"}
    BY <1>5 DEF ReadWaveFile
  <2>2. Goto("call") \/ Exit(1) BY <1>5 DEF ReadWaveFile
  <2> QED BY <2>1, <2>2, GoesOn, PlainExit
<1>6. CASE ReadOggFile
  <2>1. pc = "file" /\ call' = <<>> /\ health' \in {"none", "SERVING"}
    BY <1>6 DEF ReadOggFile
  <2>2. Goto("call") \/ Exit(1) BY <1>6 DEF ReadOggFile
  <2> QED BY <2>1, <2>2, GoesOn, PlainExit
<1>7. CASE CallRefused
  <2>1. pc = "call" /\ call' = <<>> /\ health' \in {"none", "SERVING"}
    BY <1>7 DEF CallRefused
  <2> QED BY <1>7, <2>1, PlainExit DEF CallRefused
<1>8. CASE CallsRecognize BY <1>8, GoesOn DEF CallsRecognize
<1>9. CASE CallsStreamingRecognize BY <1>9, GoesOn DEF CallsStreamingRecognize
<1>10. CASE CallReturns
  <2>1. pc = "called" /\ health' \in {"none", "SERVING"} BY <1>10 DEF CallReturns
  <2> QED BY <1>10, <2>1, PlainExit DEF CallReturns
<1>11. CASE UNCHANGED vars BY <1>11 DEF vars, StatusInv
<1> QED BY <1>1, <1>2, <1>3, <1>4, <1>5, <1>6, <1>7, <1>8, <1>9, <1>10, <1>11 DEF Next

\* The exit status of main.cpp tells what the service was asked, and what it
\* said, whatever options and file the program is given.
THEOREM StatusIsTelling == Spec => []StatusTellsWhatWasDone
<1>1. Init => IInv BY DEF Init, IInv, GateInv, StatusInv
<1>2. IInv /\ [Next]_vars => IInv' BY GateStep, StatusStep DEF IInv
<1>3. IInv => StatusTellsWhatWasDone
  BY DEF IInv, GateInv, StatusInv, StatusTellsWhatWasDone
<1> QED BY <1>1, <1>2, <1>3, PTL DEF Spec

-----------------------------------------------------------------------------
(***************************************************************************)
(* What the requests say.                                                  *)
(***************************************************************************)

\* A set of indexes has a greatest one: among the intervals that begin in it
\* there is a smallest.
LEMMA Greatest ==
    ASSUME NEW N \in Nat, NEW T, T \subseteq 1 .. N, T # {}
    PROVE  \E n \in T : \A k \in T : k <= n
<1> DEFINE Tails == {n .. N : n \in T}
<1>1. Tails \subseteq FiniteSubsetsOf(1 .. N) /\ Tails # {}
  <2> SUFFICES ASSUME NEW n \in T PROVE n .. N \in FiniteSubsetsOf(1 .. N)
    OBVIOUS
  <2>1. IsFiniteSet(n .. N) BY FS_Interval
  <2> QED BY <2>1 DEF FiniteSubsetsOf
<1>2. PICK x \in Tails : \A y \in Tails : <<y, x>> \notin StrictSubsetOrdering(1 .. N)
  <2> HIDE DEF Tails
  <2> QED BY <1>1, WFMin, FS_StrictSubsetOrderingWellFounded
<1>3. PICK n \in T : x = n .. N BY <1>2
<1>4. ASSUME NEW k \in T, k > n PROVE FALSE
  <2>1. k .. N \in Tails OBVIOUS
  <2>2. k .. N \subseteq n .. N /\ n \in n .. N /\ n \notin k .. N BY <1>4
  <2>3. <<k .. N, n .. N>> \in StrictSubsetOrdering(1 .. N)
    BY <2>2 DEF StrictSubsetOrdering
  <2> QED BY <1>2, <1>3, <2>1, <2>3
<1> QED BY <1>4

\* SetToSeq lists the elements of a finite set, each once.
LEMMA Listing ==
    ASSUME NEW S, IsFiniteSet(S)
    PROVE  /\ SetToSeq(S) \in Seq(S)
           /\ \A n, k \in 1 .. Len(SetToSeq(S)) : SetToSeq(S)[n] = SetToSeq(S)[k] => n = k
           /\ \A x \in S : \E n \in 1 .. Len(SetToSeq(S)) : SetToSeq(S)[n] = x
<1> DEFINE c == Cardinality(S)
           D == 1 .. c
<1>1. c \in Nat /\ ExistsBijection(D, S) BY FS_CardinalityType
<1>2. \E f \in [D -> S] : IsInjective(f)
  BY <1>1, Zenon DEF ExistsBijection, Bijection, Injection
<1>3. SetToSeq(S) \in [D -> S] /\ IsInjective(SetToSeq(S))
  <2> HIDE DEF D
  <2> QED BY <1>2, Zenon DEF SetToSeq, D
<1> DEFINE s == SetToSeq(S)
<1> HIDE DEF s
<1>4. s \in [D -> S] /\ s \in Injection(D, S) BY <1>3 DEF s, Injection
<1>5. IsFiniteSet(D) /\ Cardinality(D) = c BY <1>1, FS_Interval
<1>6. s \in Surjection(D, S)
  <2> HIDE DEF D
  <2> QED BY <1>4, <1>5, FS_Injection
<1>7. s \in Seq(S) /\ Len(s) = c BY <1>1, <1>4
<1>8. \A n, k \in D : s[n] = s[k] => n = k BY <1>3, <1>4 DEF IsInjective, s
<1>9. \A x \in S : \E n \in D : s[n] = x BY <1>6 DEF Surjection
<1> QED BY <1>7, <1>8, <1>9 DEF s

Settings(lines) == {n \in 1 .. Len(lines) : Len(lines[n]) = 2}

\* The map of the settings has a value for each key, and of a key that is given
\* more than once the last.
LEMMA SettingsMap ==
    ASSUME NEW lines \in Seq(Seq(STRING))
    PROVE  LET m == ReadServiceSettingsOption(lines)
           IN  /\ IsFiniteSet(DOMAIN m) /\ m \in [DOMAIN m -> STRING]
               /\ DOMAIN m \subseteq STRING
               /\ \A n \in Settings(lines) :
                     \/ \E k \in Settings(lines) : k > n /\ lines[k][1] = lines[n][1]
                     \/ lines[n][1] \in DOMAIN m /\ m[lines[n][1]] = lines[n][2]
<1> DEFINE V == Settings(lines)
           Valid(key) == {n \in 1 .. Len(lines) : Len(lines[n]) = 2 /\ lines[n][1] = key}
           LastOf(key) == CHOOSE n \in Valid(key) : \A k \in Valid(key) : k <= n
           Keys == {lines[n][1] : n \in V}
           m == ReadServiceSettingsOption(lines)
<1>1. m = [key \in Keys |-> lines[LastOf(key)][2]]
  BY DEF ReadServiceSettingsOption, Settings
<1>2. ASSUME NEW n \in V
      PROVE  n \in 1 .. Len(lines) /\ lines[n][1] \in STRING /\ lines[n][2] \in STRING
  <2>1. n \in 1 .. Len(lines) /\ Len(lines[n]) = 2 BY DEF Settings
  <2>2. lines[n] \in Seq(STRING) BY <2>1
  <2> QED BY <2>1, <2>2
<1>3. ASSUME NEW key \in Keys PROVE LastOf(key) \in V
  <2>1. Valid(key) # {} /\ Valid(key) \subseteq 1 .. Len(lines) /\ Len(lines) \in Nat
    <3>1. PICK n \in V : key = lines[n][1] OBVIOUS
    <3>2. n \in Valid(key) BY <3>1 DEF Settings
    <3> QED BY <3>2
  <2>2. \E n \in Valid(key) : \A k \in Valid(key) : k <= n
    <3> HIDE DEF Valid
    <3> QED BY <2>1, Greatest
  <2>3. LastOf(key) \in Valid(key)
    <3> HIDE DEF Valid
    <3> QED BY <2>2
  <2> QED BY <2>3 DEF Settings
<1>4. Keys \subseteq STRING BY <1>2
<1>5. IsFiniteSet(Keys)
  <2> DEFINE f == [n \in V |-> lines[n][1]]
  <2>1. IsFiniteSet(1 .. Len(lines)) BY FS_Interval
  <2>2. IsFiniteSet(V) BY <2>1, FS_Subset DEF Settings
  <2>3. f \in Surjection(V, Keys)
    <3> HIDE DEF V
    <3> QED BY DEF Surjection
  <2> QED
    <3> HIDE DEF f, V, Keys
    <3> QED BY <2>2, <2>3, FS_Surjection
<1>6. \A key \in Keys : lines[LastOf(key)][2] \in STRING
  <2> HIDE DEF V, Keys, LastOf
  <2> QED BY <1>2, <1>3
<1>7. ASSUME NEW n \in V, \A k \in V : ~(k > n /\ lines[k][1] = lines[n][1])
      PROVE  LastOf(lines[n][1]) = n
  <2> DEFINE key == lines[n][1]
  <2>1. n \in Valid(key) BY DEF Settings
  <2>2. \A k \in Valid(key) : k \in Nat /\ k \in V /\ lines[k][1] = key BY DEF Settings
  <2>3. \A k \in Valid(key) : k <= n /\ k \in Nat
    <3> HIDE DEF Valid, V
    <3> QED BY <1>7, <2>1, <2>2
  <2>4. \A x \in Valid(key) : (\A k \in Valid(key) : k <= x) => x = n
    <3> HIDE DEF Valid, V
    <3> QED BY <2>1, <2>3
  <2> QED
    <3> HIDE DEF Valid, V
    <3> QED BY <2>1, <2>3, <2>4
<1>8. \A n \in V : lines[n][1] \in Keys OBVIOUS
<1>9. DOMAIN m = Keys /\ \A key \in Keys : m[key] = lines[LastOf(key)][2]
  <2> HIDE DEF m, Keys, LastOf
  <2> QED BY <1>1
<1>10. m \in [Keys -> STRING]
  <2> HIDE DEF m, Keys, LastOf
  <2> QED BY <1>1, <1>6
<1>11. ASSUME NEW n \in V
       PROVE  \/ \E k \in V : k > n /\ lines[k][1] = lines[n][1]
              \/ lines[n][1] \in Keys /\ m[lines[n][1]] = lines[n][2]
  <2> HIDE DEF m, Keys, LastOf, V
  <2> QED BY <1>7, <1>8, <1>9
<1> QED
  <2> HIDE DEF m, Keys, LastOf
  <2> QED BY <1>4, <1>5, <1>9, <1>10, <1>11 DEF m

\* The fields made of a map: one for each key, with its value.
LEMMA Fields ==
    ASSUME NEW m, IsFiniteSet(DOMAIN m), m \in [DOMAIN m -> STRING], DOMAIN m \subseteq STRING
    PROVE  LET fields == fill_additional_settings(m)
           IN  /\ fields \in Seq(ConfigField)
               /\ \A n, k \in 1 .. Len(fields) : fields[n].key = fields[k].key => n = k
               /\ \A key \in DOMAIN m : [key |-> key, value |-> m[key]] \in ToSet(fields)
<1> DEFINE keys == SetToSeq(DOMAIN m)
           fields == fill_additional_settings(m)
<1>1. /\ keys \in Seq(DOMAIN m)
      /\ \A n, k \in 1 .. Len(keys) : keys[n] = keys[k] => n = k
      /\ \A x \in DOMAIN m : \E n \in 1 .. Len(keys) : keys[n] = x
  BY Listing
<1>2. fields = [n \in 1 .. Len(keys) |-> [key |-> keys[n], value |-> m[keys[n]]]]
  BY DEF fill_additional_settings
<1> HIDE DEF keys, fields
<1>3. Len(keys) \in Nat /\ \A n \in 1 .. Len(keys) : keys[n] \in DOMAIN m BY <1>1
<1>4. \A n \in 1 .. Len(keys) : [key |-> keys[n], value |-> m[keys[n]]] \in ConfigField
  BY <1>3 DEF ConfigField
<1>5. fields \in Seq(ConfigField) /\ Len(fields) = Len(keys) BY <1>2, <1>3, <1>4
<1>6. \A n \in 1 .. Len(keys) : fields[n] = [key |-> keys[n], value |-> m[keys[n]]]
  BY <1>2
<1>7. \A n, k \in 1 .. Len(fields) : fields[n].key = fields[k].key => n = k
  <2> SUFFICES ASSUME NEW n \in 1 .. Len(keys), NEW k \in 1 .. Len(keys),
                      fields[n].key = fields[k].key
               PROVE  n = k
    BY <1>5
  <2>1. \A j \in 1 .. Len(keys) : [key |-> keys[j], value |-> m[keys[j]]].key = keys[j]
    OBVIOUS
  <2>2. fields[n].key = keys[n] /\ fields[k].key = keys[k] BY <1>6, <2>1, Zenon
  <2> QED BY <1>1, <2>2
<1>8. DOMAIN fields = 1 .. Len(keys) BY <1>2
<1>9. \A key \in DOMAIN m : [key |-> key, value |-> m[key]] \in ToSet(fields)
  BY <1>1, <1>6, <1>8 DEF ToSet
<1> QED BY <1>5, <1>7, <1>9 DEF fields

\* A configuration without a field set fits the schema.
LEMMA UnsetFits == UnsetRecognitionConfig \in RecognitionConfig
<1>1. {"LINEAR16", "ENCODING_UNSPECIFIED"} \subseteq AudioEncoding BY DEF AudioEncoding
<1>2. MaxInt32 \in Nat BY SMT DEF MaxInt32
<1>3. 0 \in Int32 BY <1>2 DEF Int32
<1>4. <<>> \in Seq(SpeechContext) /\ <<>> \in Seq(ConfigField) OBVIOUS
<1> QED
  BY <1>1, <1>3, <1>4, LiteralsAreStrings DEF UnsetRecognitionConfig, RecognitionConfig

\* What build_recognition_config sets in one.
Filled(c, rate, offsets, max, fields, contexts) ==
    [c EXCEPT
        !.encoding                 = "LINEAR16",
        !.sample_rate_hertz        = rate,
        !.language_code            = "pl-PL",
        !.enable_word_time_offsets = offsets,
        !.max_alternatives         = max,
        !.config_fields            = fields,
        !.speech_contexts          = contexts]

\* One that fits the schema still does when fields are set to values of their types.
LEMMA FilledFits ==
    ASSUME NEW c \in RecognitionConfig, NEW rate \in Int32, NEW offsets \in BOOLEAN,
           NEW max \in Int32, NEW fields \in Seq(ConfigField),
           NEW contexts \in Seq(SpeechContext)
    PROVE  LET d == Filled(c, rate, offsets, max, fields, contexts)
           IN  /\ d \in RecognitionConfig
               /\ d.sample_rate_hertz = rate /\ d.config_fields = fields
<1>1. "LINEAR16" \in AudioEncoding BY DEF AudioEncoding
<1> QED BY <1>1, LiteralsAreStrings DEF Filled, RecognitionConfig

\* What is asked of a configuration that is made for a wave header.
ConfigAsAsked(config, header) ==
    /\ config \in RecognitionConfig
    /\ header.samplesPerSec < Word \div 2 =>
          config.sample_rate_hertz = header.samplesPerSec
    /\ \A n, k \in 1 .. Len(config.config_fields) :
          config.config_fields[n].key = config.config_fields[k].key => n = k
    /\ \A n \in 1 .. Len(options.service_settings) :
          \/ Len(options.service_settings[n]) # 2
          \/ \E k \in n + 1 .. Len(options.service_settings) :
                /\ Len(options.service_settings[k]) = 2
                /\ options.service_settings[k][1] = options.service_settings[n][1]
          \/ [key   |-> options.service_settings[n][1],
              value |-> options.service_settings[n][2]] \in ToSet(config.config_fields)

\* A rate that does not fit an int32 field still gives a value of its type.
LEMMA RateField ==
    ASSUME NEW n \in 0 .. Word - 1
    PROVE  AsInt32(n) \in Int32 /\ (n < Word \div 2 => AsInt32(n) = n)
<1>1. MaxInt32 \in Nat BY SMT DEF MaxInt32
<1> DEFINE half == Word \div 2
<1>2. Word \in Nat /\ Word % 2 = 0 /\ half - 1 \in Int32 BY CppProgramAssumption
<1>3. half \in Nat /\ Word = 2 * half BY <1>2, SMT
<1> HIDE DEF half
<1>4. half - 1 <= MaxInt32 BY <1>1, <1>2, <1>3 DEF Int32
<1>5. n \in 0 .. 2 * half - 1 BY <1>3
<1>6. AsInt32(n) = IF n < half THEN n ELSE n - Word BY DEF AsInt32, half
<1>7. AsInt32(n) \in Int32 /\ (n < half => AsInt32(n) = n)
  BY <1>1, <1>3, <1>4, <1>5, <1>6 DEF Int32
<1> QED BY <1>7 DEF half

\* An element makes a sequence.
LEMMA OneElement == ASSUME NEW S, NEW x \in S PROVE <<x>> \in Seq(S)
OBVIOUS

\* An empty phrase is no context.
LEMMA PhraseContext ==
    ASSUME NEW phrase \in STRING
    PROVE  (IF phrase = "" THEN <<>> ELSE <<[phrases |-> <<phrase>>]>>) \in Seq(SpeechContext)
<1> DEFINE context == [phrases |-> <<phrase>>]
<1>1. context \in SpeechContext BY OneElement DEF SpeechContext
<1>2. <<context>> \in Seq(SpeechContext) BY <1>1, OneElement
<1>3. <<>> \in Seq(SpeechContext) OBVIOUS
<1>4. CASE phrase = "" BY <1>3, <1>4
<1>5. CASE phrase # "" BY <1>2, <1>5
<1> QED BY <1>4, <1>5

\* Its fields are within their types, and its settings are those given last.
LEMMA Config ==
    ASSUME options \in Options, NEW header, header.samplesPerSec \in 0 .. Word - 1
    PROVE  ConfigAsAsked(build_recognition_config(header), header)
<1> DEFINE given == options.service_settings
           m == ReadServiceSettingsOption(given)
           fields == fill_additional_settings(m)
           rate == AsInt32(header.samplesPerSec)
           contexts == IF options.context_phrase = "" THEN <<>>
                       ELSE <<[phrases |-> <<options.context_phrase>>]>>
           config == build_recognition_config(header)
<1>1. /\ given \in Seq(Seq(STRING)) /\ options.context_phrase \in STRING
      /\ options.max_alternatives \in Int32 /\ options.time_offsets \in BOOLEAN
  BY CppProgramAssumption
<1>2. rate \in Int32 /\ (header.samplesPerSec < Word \div 2 => rate = header.samplesPerSec)
  BY RateField
<1>3. contexts \in Seq(SpeechContext)
  BY <1>1, PhraseContext
<1>4. /\ IsFiniteSet(DOMAIN m) /\ m \in [DOMAIN m -> STRING]
      /\ DOMAIN m \subseteq STRING
      /\ \A n \in Settings(given) :
            \/ \E k \in Settings(given) : k > n /\ given[k][1] = given[n][1]
            \/ given[n][1] \in DOMAIN m /\ m[given[n][1]] = given[n][2]
  <2> HIDE DEF given
  <2> QED BY <1>1, SettingsMap
<1>5. /\ fields \in Seq(ConfigField)
      /\ \A n, k \in 1 .. Len(fields) : fields[n].key = fields[k].key => n = k
      /\ \A key \in DOMAIN m : [key |-> key, value |-> m[key]] \in ToSet(fields)
  <2> HIDE DEF m
  <2> QED BY <1>4, Fields
<1>6. ASSUME NEW n \in 1 .. Len(given), Len(given[n]) = 2
      PROVE  \/ \E k \in n + 1 .. Len(given) : Len(given[k]) = 2 /\ given[k][1] = given[n][1]
             \/ [key |-> given[n][1], value |-> given[n][2]] \in ToSet(fields)
  <2> HIDE DEF given, m, fields
  <2>1. n \in Settings(given) BY <1>6 DEF Settings
  <2>2. CASE \E k \in Settings(given) : k > n /\ given[k][1] = given[n][1]
    <3>1. PICK k \in Settings(given) : k > n /\ given[k][1] = given[n][1] BY <2>2
    <3>2. Len(given) \in Nat BY <1>1
    <3>3. k \in n + 1 .. Len(given) /\ Len(given[k]) = 2 BY <3>1, <3>2 DEF Settings
    <3> QED BY <3>1, <3>3
  <2>3. CASE given[n][1] \in DOMAIN m /\ m[given[n][1]] = given[n][2]
    BY <1>5, <2>3
  <2> QED BY <1>4, <2>1, <2>2, <2>3
<1>7. config = Filled(UnsetRecognitionConfig, rate, options.time_offsets,
                      options.max_alternatives, fields, contexts)
  BY DEF build_recognition_config, Filled
<1> HIDE DEF m, fields, rate, contexts, config
<1>8. /\ config \in RecognitionConfig
      /\ config.sample_rate_hertz = rate /\ config.config_fields = fields
  BY <1>1, <1>2, <1>3, <1>5, <1>7, UnsetFits, FilledFits
<1> HIDE DEF given
<1> QED BY <1>2, <1>5, <1>6, <1>8 DEF ConfigAsAsked, given, config

-----------------------------------------------------------------------------
\* What has been read of the audio file: a rate that an unsigned int holds, and
\* as much audio as the header or the decoder says.
AudioRead(w) ==
    /\ w.header.samplesPerSec \in 0 .. Word - 1
    /\ w.audioBytes \in Bytes
    /\ IF options.file.suffix = "wav"
       THEN /\ w.audioBytes[1] + w.audioBytes[2] = w.header.subchunk2Size
            /\ w.audioBytes[2] > 0 => w.audioBytes[1] = options.file.size
       ELSE w.audioBytes = <<options.file.size, 0>>

\* There is audio when the call is made.
ReadInv ==
    /\ options \in Options
    /\ pc = "call" => wave # <<>> /\ AudioRead(wave[1])

\* A wave file is read to the length that its header says, or padded to it.
LEMMA WaveRead ==
    ASSUME ReadInv, ReadWaveFile, pc' = "call"
    PROVE  wave' # <<>> /\ AudioRead(wave[1])'
<1> DEFINE file == options.file
<1>1. file.suffix = "wav" /\ options' = options BY DEF ReadWaveFile
<1>2. file.header \in Header /\ file.size \in Nat BY CppProgramAssumption DEF ReadInv
<1>3. PICK h \in Header : wave' = <<[header |-> h, audioBytes |-> audioBytes(h, file.size)]>>
  BY <1>2 DEF ReadWaveFile, Exit
<1>4. h.samplesPerSec \in 0 .. Word - 1 /\ h.subchunk2Size \in Nat BY CppProgramAssumption
<1>5. LET a == audioBytes(h, file.size)
      IN  /\ a \in Bytes
          /\ a[1] + a[2] = h.subchunk2Size
          /\ a[2] > 0 => a[1] = file.size
  <2> HIDE DEF file
  <2> QED BY <1>2, <1>4 DEF audioBytes, Bytes
<1> DEFINE w == [header |-> h, audioBytes |-> audioBytes(h, file.size)]
<1>6. w.header = h /\ w.audioBytes = audioBytes(h, file.size) OBVIOUS
<1>7. wave' # <<>> /\ wave'[1] = w BY <1>3
<1> HIDE DEF w
<1> QED BY <1>1, <1>4, <1>5, <1>6, <1>7 DEF AudioRead

\* An ogg file is read to its end.
LEMMA OggRead ==
    ASSUME ReadInv, ReadOggFile, pc' = "call"
    PROVE  wave' # <<>> /\ AudioRead(wave[1])'
<1> DEFINE file == options.file
           w == [header     |-> CreateWaveHeader(file.header.samplesPerSec, file.size),
                 audioBytes |-> <<file.size, 0>>]
<1>1. file.suffix = "ogg" /\ options' = options /\ wave' = <<w>> BY DEF ReadOggFile, Exit
<1>2. file.size \in Nat /\ file.header.samplesPerSec \in 0 .. Word - 1
  BY CppProgramAssumption DEF ReadInv
<1>3. w.header.samplesPerSec = file.header.samplesPerSec /\ w.audioBytes = <<file.size, 0>>
  BY DEF CreateWaveHeader
<1>4. w.audioBytes \in Bytes BY <1>2, <1>3 DEF Bytes
<1>5. wave' # <<>> /\ wave'[1] = w BY <1>1
<1> HIDE DEF w
<1> QED BY <1>1, <1>2, <1>3, <1>4, <1>5 DEF AudioRead

\* Every step of main keeps what holds of the audio.
LEMMA ReadStep == ASSUME IInv, ReadInv, [Next]_vars PROVE ReadInv'
<1>1. options' = options
  BY DEF Next, ParsesOptions, SkipsHealth, CheckHealth, NoFile, ReadWaveFile, ReadOggFile,
         CallRefused, CallsRecognize, CallsStreamingRecognize, CallReturns, vars
<1>2. CASE pc' # "call" BY <1>1, <1>2 DEF ReadInv
<1>3. CASE pc' = "call"
  <2>1. CASE ReadWaveFile BY <1>1, <1>3, <2>1, WaveRead DEF ReadInv
  <2>2. CASE ReadOggFile BY <1>1, <1>3, <2>2, OggRead DEF ReadInv
  <2>3. CASE UNCHANGED vars BY <2>3 DEF ReadInv, AudioRead, vars
  <2>4. ~(\/ ParsesOptions \/ SkipsHealth \/ CheckHealth \/ NoFile
          \/ CallRefused \/ CallsRecognize \/ CallsStreamingRecognize \/ CallReturns)
    BY <1>3 DEF ParsesOptions, SkipsHealth, CheckHealth, NoFile, CallRefused,
                CallsRecognize, CallsStreamingRecognize, CallReturns, Goto, Exit
  <2> QED BY <2>1, <2>2, <2>3, <2>4 DEF Next
<1> QED BY <1>2, <1>3

\* A call that is made is the one asked for.
LEMMA Called ==
    ASSUME ReadInv, pc = "call", UNCHANGED <<options, wave>>,
           CallsRecognize \/ CallsStreamingRecognize
    PROVE  RequestAsAsked'
<1> DEFINE header == wave[1].header
           audio == wave[1].audioBytes
           config == build_recognition_config(header)
           c == call'[1]
<1>1. AudioRead(wave[1]) /\ options \in Options BY DEF ReadInv
<1>2. ConfigAsAsked(config, header) BY <1>1, Config DEF AudioRead
<1>3. /\ c.request \in RequestOf(c.method)
      /\ c.audio = audio
      /\ config = IF options.sync THEN c.request.config ELSE c.request.streaming_config.config
  <2>1. audio \in Bytes /\ config \in RecognitionConfig BY <1>1, <1>2 DEF AudioRead, ConfigAsAsked
  <2> HIDE DEF audio, config
  <2>2. CASE CallsRecognize
    <3> DEFINE r == [config |-> config, audio |-> [content |-> audio]]
    <3>1. /\ options.sync /\ c.method = Recognize /\ c.request = r /\ c.audio = audio
      BY <2>2 DEF CallsRecognize, build_sync_request, audio, config
    <3>2. r \in RecognizeRequest BY <2>1 DEF RecognizeRequest, RecognitionAudio
    <3>3. r.config = config OBVIOUS
    <3> HIDE DEF r, c
    <3> QED BY <3>1, <3>2, <3>3 DEF RequestOf
  <2>3. CASE CallsStreamingRecognize
    <3> DEFINE r == [streaming_config |-> [config           |-> config,
                                           single_utterance |-> options.single_utterance,
                                           interim_results  |-> options.interim_results]]
    <3>1. /\ ~options.sync /\ c.method = StreamingRecognize /\ c.request = r
          /\ c.audio = audio
      BY <2>3 DEF CallsStreamingRecognize, config_request, audio, config
    <3>2. options.single_utterance \in BOOLEAN /\ options.interim_results \in BOOLEAN
      BY <1>1, CppProgramAssumption
    <3>3. r \in StreamingRecognizeRequest
      BY <2>1, <3>2 DEF StreamingRecognizeRequest, StreamingRecognitionConfig
    <3>4. r.streaming_config.config = config OBVIOUS
    <3>5. StreamingRecognize # Recognize
      <4>1. StreamingRecognize.request # Recognize.request
        BY DEF StreamingRecognize, Recognize
      <4> QED BY <4>1
    <3> HIDE DEF r, c
    <3> QED BY <3>1, <3>3, <3>4, <3>5 DEF RequestOf
  <2> QED BY <2>2, <2>3
<1> HIDE DEF config, audio, c
<1>4. options' = options /\ wave' = wave OBVIOUS
<1> QED BY <1>1, <1>2, <1>3, <1>4
    DEF RequestAsAsked, AudioRead, ConfigAsAsked, audio, c

\* The request is made of the command line and the file as they are, whatever
\* these are: the configuration fits the schema and has every setting once, with
\* the value given last, and the audio is as long as the header or decoder says.
THEOREM RequestFaithful == Spec => []RequestAsAsked
<1> DEFINE Inv == IInv /\ ReadInv /\ RequestAsAsked
<1>1. Init => Inv
  BY DEF Init, IInv, GateInv, StatusInv, ReadInv, RequestAsAsked
<1>2. Inv /\ [Next]_vars => Inv'
  <2> SUFFICES ASSUME IInv, ReadInv, RequestAsAsked, [Next]_vars PROVE RequestAsAsked'
    BY GateStep, StatusStep, ReadStep DEF IInv
  <2>1. CASE CallsRecognize \/ CallsStreamingRecognize
    BY <2>1, Called DEF CallsRecognize, CallsStreamingRecognize
  <2>2. CASE UNCHANGED call /\ UNCHANGED <<options, wave>>
    BY <2>2 DEF RequestAsAsked
  <2>3. CASE ReadWaveFile \/ ReadOggFile
    <3>1. pc = "file" /\ call' = call BY <2>3 DEF ReadWaveFile, ReadOggFile
    <3>2. call' = <<>> BY <3>1 DEF IInv, GateInv
    <3> QED BY <3>2 DEF RequestAsAsked
  <2> QED BY <2>1, <2>2, <2>3
    DEF Next, ParsesOptions, SkipsHealth, CheckHealth, NoFile, CallRefused, CallReturns, vars
<1> QED BY <1>1, <1>2, PTL DEF Spec
===============================================================================
