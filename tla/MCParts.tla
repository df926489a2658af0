------------------------------ MODULE MCParts ------------------------------
(***************************************************************************)
(* The parts that stand alone, at small sizes for TLC: the vendor adapters *)
(* of src/backend/src/providers, the sessions that need no composition, and *)
(* the hooks and pages of src/frontend.  They share no state, so `part`    *)
(* names the one that is at work; and what several of them promise is one  *)
(* property, stated here once.                                             *)
(***************************************************************************)
EXTENDS Integers, Sequences, SequencesExt, TLC

CONSTANTS
    MaxChunks, MaxPending, MaxSegments, MaxTurns, MaxErrors, MaxTexts,
    MaxAudio, MaxDeltas, MaxUsage, MaxInput,
    MaxConns, MaxRecs, MaxCalls, MaxLoads, MaxOpens, MaxFails,
    Records, Newest, TypedIds

VARIABLES
    part,
    s,                      \* the state of the part, but for
    stream, vendor,         \* two more variables of NovaSonic, and
    catalog, rig, typedFor  \* those of Rigs

rest == <<stream, vendor, catalog, rig, typedFor>>
vars == <<part, s, rest>>

-----------------------------------------------------------------------------
(* Two answers of GET /api/catalog: in the second a model has been renamed, *)
(* the order has changed, and a provider has lost its key.                 *)

Lang(id, voices) == [id |-> id, voices |-> voices]
Model(id, languages, voices) ==
    [id |-> id, languages |-> languages, voices |-> voices]
Provider(kind, id, models, languages, voices, byLanguage) ==
    [id |-> id, kind |-> kind, registered |-> TRUE,
     acceptsVoiceId |-> id \in {"openai", "cartesia"},
     models |-> models, languages |-> languages, voices |-> voices,
     voicesByLanguage |-> byLanguage]

En == Lang("en", <<>>)
Hi == Lang("hi", <<>>)
NoTable == [x \in {} |-> <<>>]

OpenAi ==
    Provider("realtime", "openai", <<Model("rt", <<>>, <<>>)>>, <<En, Hi>>,
             <<"marin", "cedar">>, NoTable)
Nova ==
    Provider("realtime", "nova",
             <<Model("sonic", <<Lang("en", <<"tiffany">>), Lang("hi", <<"kiara">>)>>,
                     <<>>)>>, <<>>, <<>>, NoTable)
Sarvam(m) ==
    Provider("stt", "sarvam", <<Model("saarika", <<En, Hi>>, <<>>), Model(m, <<Hi>>, <<>>)>>,
             <<>>, <<>>, NoTable)
Claude ==
    Provider("llm", "claude", <<Model("haiku", <<>>, <<>>), Model("opus", <<>>, <<>>)>>,
             <<>>, <<>>, NoTable)
Murf ==
    Provider("tts", "murf", <<Model("gen2", <<>>, <<"a", "b">>),
                              Model("falcon", <<>>, <<"b", "c">>)>>,
             <<En>>, <<>>, NoTable)
Cartesia ==
    Provider("tts", "cartesia", <<Model("sonic-3", <<En, Hi>>, <<>>),
                                  Model("sonic-2", <<En>>, <<>>)>>, <<>>, <<>>,
             "en" :> <<"x", "y">> @@ "hi" :> <<"y", "z">>)

Catalogs ==
    {<<OpenAi, Nova, Sarvam("v4"), Claude, Murf, Cartesia>>,
     <<Nova, OpenAi, Sarvam("v4-new"), Claude, [Cartesia EXCEPT !.registered = FALSE]>>}
Renamed == "v4" :> "v4-new"

-----------------------------------------------------------------------------
(* Three vendors of tokens: one with a promotion that ends on day 0 and a    *)
(* variant in its model id, one with two prices, one of the two priced by    *)
(* the vendor's fallback; and legs that agree with them, or do not.          *)

Rate(input, output, cachedInput) ==
    [unit |-> "tokens", input |-> input, output |-> output,
     cachedInput |-> cachedInput, audioInput |-> -1, audioOutput |-> -1,
     cachedAudioInput |-> -1, until |-> -1]
Promotion == [Rate(4, 6, 3) EXCEPT !.until = 0]
                @@ [step |-> [input |-> 2, output |-> 3, cachedInput |-> -1]]
Spoken == [Rate(2, 3, 1) EXCEPT !.audioInput = 8, !.audioOutput = 9,
                                !.cachedAudioInput = 1]

LedgerRates ==
    "google" :> [models |-> "flash" :> Promotion, fallback |-> [unit |-> "none"]]
    @@ "openai" :> [models |-> "mini" :> Rate(1, 2, -1), fallback |-> Spoken]
LedgerBase == [m \in {"flash", "flash@off", "mini", "rt"} |->
                  IF m = "flash@off" THEN "flash" ELSE m]

Text(model, input, cached) ==
    [kind |-> "llm", provider |-> "google", model |-> model, unit |-> "tokens",
     input |-> input, output |-> 1, cached |-> cached, audioIn |-> 0,
     audioOut |-> 0, cachedAudio |-> 0, local |-> FALSE, reason |-> "none",
     cost |-> -1]
Speech(cached, cachedAudio) ==
    [Text("rt", 4, cached) EXCEPT
        !.kind = "realtime", !.provider = "openai", !.output = 2, !.audioIn = 3,
        !.audioOut = 1, !.cachedAudio = cachedAudio]

LedgerLegs ==
    {Text("flash@off", 3, 2), Text("flash", 1, 0),
     [Text("flash@off", 2, 0) EXCEPT !.local = TRUE],
     [Text("flash@off", 0, 0) EXCEPT !.reason = "never reported"],
     [Text("flash", 1, 0) EXCEPT !.unit = "characters"],
     Speech(3, 0), Speech(2, 2), Speech(2, 3),
     [Speech(0, 0) EXCEPT !.model = "mini"], [Speech(0, 0) EXCEPT !.provider = "nova"]}
LedgerReports ==
    {<<l>> : l \in LedgerLegs}
        \cup {<<>>, <<Text("flash@off", 3, 2), Speech(4, 1), Text("flash@off", 1, 1)>>}

Measured(ttfa, stt) == [ttfa |-> ttfa, stt |-> stt]
LedgerFigures ==
    {Measured(-1, 2), Measured(0, -1), Measured(1, 1), Measured(2, 0)}

-----------------------------------------------------------------------------
(* The shipped catalog, and what is asked of it.                             *)

Cat == INSTANCE Catalog
Keys == UNION {Cat!CATALOG[i].envKeys : i \in DOMAIN Cat!CATALOG}
Environments ==
    {{}, Keys, {"AWS_DEFAULT_REGION"} \cup (Keys \ {"AWS_REGION"})}
        \cup {Keys \ {k} : k \in Keys}

Saved(mode) ==
    [mode |-> mode, voice |-> "natalie", customVoiceId |-> "mine",
     provider |-> [realtime |-> "mock-realtime", stt |-> "mock-stt", llm |-> "mock-llm",
                   tts |-> "mock-tts"],
     model |-> [k \in {"realtime", "stt", "llm", "tts"} |-> ""],
     language |-> [k \in {"realtime", "stt", "llm", "tts"} |-> "hi-IN"]]

\* One leg of each choice there is, also of a model that is gone; and any two vendors
\* of speech in one pipeline, also where one is of another kind.
SavedRigs ==
    UNION {{[Saved(IF p.kind = "realtime" THEN "realtime" ELSE "pipeline")
               EXCEPT !.provider[p.kind] = p.id, !.model[p.kind] = m] :
                  m \in {"", "gone"} \cup {q.id : q \in ToSet(p.models)}} :
           p \in ToSet(Cat!CATALOG)}
    \cup {[Saved("pipeline") EXCEPT !.provider["stt"] = p.id, !.provider["tts"] = q.id] :
             p \in ToSet(Cat!CATALOG), q \in {r \in ToSet(Cat!CATALOG) : r.kind = "tts"}}

\* Two vendors that hear, all that speak in each language some of them has, and a
\* bench that is set to the other turn detection.
Drafts ==
    UNION {{[Saved("pipeline") EXCEPT
                !.provider = [@ EXCEPT !["stt"] = p, !["llm"] = "anthropic-llm",
                                       !["tts"] = q.id],
                !.model["tts"] = m.id, !.language["tts"] = l, !.customVoiceId = id] :
              p \in {"sarvam-stt", "cartesia-stt"}, m \in ToSet(q.models),
              l \in {"en-IN", "or", "hi-IN"}, id \in {"", "mine"}} :
           q \in {r \in ToSet(Cat!CATALOG) : r.kind = "tts"}}
    \cup {Saved("pipeline"), Saved("realtime")}
Benches ==
    {[prompt |-> "p", detection |-> d] : d \in {"server_vad", "manual"}}

\* Four conversations on disk: two of one pipeline, one that ended before its first
\* turn, and a mock that never spoke; a filter of each kind; and what one call may have read and said.
Run(mode, leg, turns, cost, ttfa, stt) ==
    [mode |-> mode, legs |-> <<leg>>, words |-> {leg}, turns |-> turns, cost |-> cost,
     ttfa |-> ttfa, stt |-> stt]
Runs == "a" :> Run("pipeline", "sarvam", 2, 3, 4, 2) @@ "b" :> Run("pipeline", "sarvam", 1, 2, 3, 3)
        @@ "c" :> Run("realtime", "nova", 0, 0, -1, 1) @@ "m" :> Run("realtime", "mock", 1, 0, -1, 1)
Listings == {<<"m", "c", "b", "a">>, <<"b", "a">>}
Filters ==
    {[query |-> q, mode |-> "all", hideMock |-> FALSE] : q \in {"", "sarvam"}}
        \cup {[query |-> "", mode |-> "realtime", hideMock |-> TRUE]}
Counted ==
    [fresh : {1}, read : 0..1, write : {1}, answer : {1}, thinking : 0..1]

-----------------------------------------------------------------------------
GS == INSTANCE GeminiStt WITH MaxTurns <- 2
CS == INSTANCE CartesiaStt
SS == INSTANCE SarvamStt WITH MaxTurns <- 2
ST == INSTANCE SocketTts WITH MaxErrors <- 2
MT == INSTANCE MurfHttpTts
GT == INSTANCE GeminiTts
KT == INSTANCE MockTts
LL == INSTANCE LlmStream
NT == INSTANCE NovaTransport
NS == INSTANCE NovaSonic WITH
          MaxTurns <- 2, MaxCompletions <- 2, MaxUsage <- 1
MR == INSTANCE MockRealtime
\* The vendors that call back late; pipeline_safety has those that do not.
PS == INSTANCE PipelineSession WITH
          MaxTurns <- 2, MaxAudio <- 3, MinTail <- 2,
          AbortedLlmReports <- TRUE, OneShotTts <- TRUE
VS == INSTANCE VoiceSession
CT == INSTANCE ClientTtfa WITH MaxTokens <- 5
RP == INSTANCE RunsPage
AG == INSTANCE AuthGate WITH MaxTokens <- 2
RG == INSTANCE Rigs
UL == INSTANCE UsageLedger WITH
          Rates <- LedgerRates, Base <- LedgerBase, Reports <- LedgerReports,
          Figures <- LedgerFigures, MaxCalls <- 3, MaxDays <- 1
FA == INSTANCE Factory WITH Regions <- {"us-east-1", "elsewhere"}
VX == INSTANCE VoiceStackExport WITH Drafts <- Drafts, Benches <- Benches,
          MaxRows <- 2, MaxEdits <- 2
SE == INSTANCE SpeechEnd WITH
          SilenceLimit <- 2, MinSpeech <- 2, Lengths <- {1, 2}, MaxChunks <- 6
TM == INSTANCE TurnMetrics WITH MaxTicks <- 2, MaxMarks <- 4
RR == INSTANCE RecordingRoute WITH Sizes <- 0..3, Numbers <- 0..4
LW == INSTANCE LlmWire WITH MaxAsks <- 3
CO == INSTANCE Comparison WITH Preselected <- 2, Colours <- 2, Scale <- 2
BV == INSTANCE Bench WITH MaxRigs <- 3, MaxConvs <- 2, MaxTurns <- 1, MaxEdits <- 1

\* The parts whose state is s.
Init1 ==
    \/ part = "geminiStt" /\ GS!Init
    \/ part = "cartesiaStt" /\ CS!Init
    \/ part = "sarvamStt" /\ SS!Init
    \/ part = "socketTts" /\ ST!Init
    \/ part = "murfHttpTts" /\ MT!Init
    \/ part = "geminiTts" /\ GT!Init
    \/ part = "mockTts" /\ KT!Init
    \/ part = "llm" /\ LL!Init
    \/ part = "novaTransport" /\ NT!Init
    \/ part = "mockRealtime" /\ MR!Init
    \/ part = "pipeline" /\ PS!Init
    \/ part = "voiceSession" /\ VS!Init
    \/ part = "clientTtfa" /\ CT!Init
    \/ part = "runsPage" /\ RP!Init
    \/ part = "authGate" /\ AG!Init
    \/ part = "ledger" /\ UL!Init
    \/ part = "factory" /\ FA!Init
    \/ part = "export" /\ VX!Init
    \/ part = "speechEnd" /\ SE!Init
    \/ part = "turnMetrics" /\ TM!Init
    \/ part = "recordingRoute" /\ RR!Init
    \/ part = "llmWire" /\ LW!Init
    \/ part = "comparison" /\ CO!Init
    \/ part = "bench" /\ BV!Init

Next1 ==
    \/ part = "geminiStt" /\ GS!Next
    \/ part = "cartesiaStt" /\ CS!Next
    \/ part = "sarvamStt" /\ SS!Next
    \/ part = "socketTts" /\ ST!Next
    \/ part = "murfHttpTts" /\ MT!Next
    \/ part = "geminiTts" /\ GT!Next
    \/ part = "mockTts" /\ KT!Next
    \/ part = "llm" /\ LL!Next
    \/ part = "novaTransport" /\ NT!Next
    \/ part = "mockRealtime" /\ MR!Next
    \/ part = "pipeline" /\ PS!Next
    \/ part = "voiceSession" /\ VS!Next
    \/ part = "clientTtfa" /\ CT!Next
    \/ part = "runsPage" /\ RP!Next
    \/ part = "authGate" /\ AG!Next
    \/ part = "ledger" /\ UL!Next
    \/ part = "factory" /\ FA!Next
    \/ part = "export" /\ VX!Next
    \/ part = "speechEnd" /\ SE!Next
    \/ part = "turnMetrics" /\ TM!Next
    \/ part = "recordingRoute" /\ RR!Next
    \/ part = "llmWire" /\ LW!Next
    \/ part = "comparison" /\ CO!Next
    \/ part = "bench" /\ BV!Next

Init ==
    \/ /\ Init1
       /\ stream = "none" /\ vendor = "none"
       /\ catalog = "none" /\ rig = "none" /\ typedFor = "none"
    \/ /\ part = "novaSonic" /\ NS!Init
       /\ catalog = "none" /\ rig = "none" /\ typedFor = "none"
    \/ /\ part = "rigs" /\ RG!Init
       /\ s = "none" /\ stream = "none" /\ vendor = "none"

Next ==
    /\ \/ Next1 /\ UNCHANGED rest
       \/ part = "novaSonic" /\ NS!Next /\ UNCHANGED <<catalog, rig, typedFor>>
       \/ part = "rigs" /\ RG!Next /\ UNCHANGED <<s, stream, vendor>>
    /\ UNCHANGED part

Is(p, A) == part = p /\ A /\ UNCHANGED part

\* The timers of the part at work fire, and files are read; in the sessions of Amazon, promises that
\* resolve are seen, and in the Bedrock transport what is pulled is written.
Timers ==
    \/ Is("geminiStt", GS!Timers)
    \/ Is("murfHttpTts", MT!Timers)
    \/ Is("geminiTts", GT!Timers)
    \/ Is("mockTts", KT!Timers)
    \/ Is("mockRealtime", MR!Timers)
    \/ Is("pipeline", PS!DrainTimeouts)
    \/ Is("voiceSession", VS!Timers)
    \/ Is("authGate", AG!Timers)
    \/ Is("recordingRoute", RR!Events)

FairSpec ==
    /\ Init /\ [][Next]_vars
    /\ WF_vars(Timers /\ UNCHANGED rest)
    /\ WF_vars(Is("novaTransport", NT!Pull) /\ UNCHANGED rest)
    /\ WF_vars(Is("novaTransport", NT!Write) /\ UNCHANGED rest)
    /\ WF_vars(Is("novaTransport", NT!StartFails) /\ UNCHANGED rest)
    /\ WF_vars(Is("novaTransport", NT!CloseTimesOut) /\ UNCHANGED rest)
    /\ WF_vars(Is("novaSonic", NS!StartFails) /\ UNCHANGED <<catalog, rig, typedFor>>)
    /\ WF_vars(Is("novaSonic", NS!CloseOut) /\ UNCHANGED <<catalog, rig, typedFor>>)
    \* PS!VendorsAnswer
    /\ \/ []<>(part = "pipeline" => ~PS!SomeAnswerDue)
       \/ []<><<Is("pipeline", PS!SomeAnswers)>>_vars

-----------------------------------------------------------------------------
(* Properties                                                                *)

\* The state of each part has the fields and the ranges its module gives.
TypeOK ==
    CASE part = "geminiStt" -> GS!TypeOK
      [] part = "cartesiaStt" -> CS!TypeOK
      [] part = "sarvamStt" -> SS!TypeOK
      [] part = "socketTts" -> ST!TypeOK
      [] part = "murfHttpTts" -> MT!TypeOK
      [] part = "geminiTts" -> GT!TypeOK
      [] part = "mockTts" -> KT!TypeOK
      [] part = "llm" -> LL!TypeOK
      [] part = "novaTransport" -> NT!TypeOK
      [] part = "novaSonic" -> NS!TypeOK
      [] part = "mockRealtime" -> MR!TypeOK
      [] part = "pipeline" -> PS!TypeOK
      [] part = "voiceSession" -> VS!TypeOK
      [] part = "clientTtfa" -> CT!TypeOK
      [] part = "runsPage" -> RP!TypeOK
      [] part = "authGate" -> AG!TypeOK
      [] OTHER -> TRUE

\* What is on a vendor's wire is what the session asked to send, in order and none
\* of it twice, the handshake's queue included.  The ends of utterances that are asked
\* for during a handshake are the exception: Gemini's is not sent before the socket is
\* open and then overtakes the audio that still waits for the acknowledgement, Sarvam's
\* is not sent at all.  What comes back is not lost or handed on twice: each utterance
\* has one speech end and one final.  In the conversation the next LLM call sees, an
\* answer stands directly behind its question, and the request for that call says all of
\* it, in the form its vendor takes.
StreamsInOrder ==
    CASE part = "geminiStt" ->
              GS!WireInOrder /\ GS!TextConserved /\ GS!TurnsPaired
      [] part = "cartesiaStt" ->
              CS!WireInOrder /\ CS!TextConserved /\ CS!TurnsPaired
      [] part = "sarvamStt" -> SS!WireInOrder
      [] part = "socketTts" -> ST!WireInOrder
      [] part = "murfHttpTts" -> MT!TextInOrder
      [] part = "novaTransport" -> NT!WireInOrder
      [] part = "speechEnd" -> SE!EndsAreHeard
      [] part = "pipeline" -> PS!HistoryCoherent
      [] part = "llmWire" -> LW!TranscriptIsTaken
      [] OTHER -> TRUE

\* A spoken or written answer is ended once, and not before all of it is in; and the
\* answer to a listener who seeks has all the bytes that were asked for, or breaks.
EndsOnce ==
    CASE part = "socketTts" -> ST!EndsOnce
      [] part = "murfHttpTts" -> MT!EndsOnce
      [] part = "geminiTts" -> GT!EndsOnce
      [] part = "mockTts" -> KT!EndsOnce
      [] part = "llm" -> LL!EndsOnce
      [] part = "mockRealtime" -> MR!EndsOnce
      [] part = "recordingRoute" -> RR!RangeIsServed /\ RR!NoDescriptorLeft
      [] OTHER -> TRUE

\* What an adapter bills is what the vendor was asked for, or counted; and what a
\* conversation costs is what its turns cost, whose tokens are priced once each.
BilledAsSent ==
    CASE part = "murfHttpTts" -> MT!BilledAsSent
      [] part = "geminiTts" -> GT!BilledAsSent
      [] part = "llm" -> LL!BilledAsSent /\ LL!UsageFirst
      [] part = "ledger" ->
              UL!RowsAddUp /\ UL!TokensBilledOnce /\ UL!CacheNeverDearer
      [] part = "factory" -> FA!LegsHaveRates
      [] part = "llmWire" -> LW!CountsAreContained
      [] OTHER -> TRUE

Gone ==
    CASE part = "geminiStt" -> GS!Gone
      [] part = "cartesiaStt" -> CS!Gone
      [] part = "sarvamStt" -> SS!Gone
      [] part = "socketTts" -> ST!Gone
      [] part = "murfHttpTts" -> MT!Gone
      [] part = "geminiTts" -> GT!Gone
      [] part = "mockTts" -> KT!Gone
      [] part = "llm" -> LL!Gone
      [] part = "mockRealtime" -> MR!Gone
      [] part = "novaSonic" -> NS!Gone
      [] part = "pipeline" -> s.closed
      [] OTHER -> FALSE

Reports ==
    CASE part = "geminiStt" -> GS!Reports
      [] part = "cartesiaStt" -> CS!Reports
      [] part = "sarvamStt" -> SS!Reports
      [] part = "socketTts" -> ST!Reports
      [] part = "murfHttpTts" -> MT!Reports
      [] part = "geminiTts" -> GT!Reports
      [] part = "mockTts" -> KT!Reports
      [] part = "llm" -> LL!Reports
      [] part = "mockRealtime" -> MR!Reports
      [] part = "novaSonic" -> NS!Reports
      [] part = "pipeline" -> PS!Reports
      [] OTHER -> <<>>

\* A stream that was cancelled, closed or aborted says nothing more, nor does a
\* session whose record is filed: a late answer of the vendor must not reach the
\* turn after the one it belongs to.
QuietAfterCancel == [][Gone => UNCHANGED Reports]_vars

\* The number on a turn's row is from that turn's own transcript to that turn's
\* own audio, unless the page began a turn over one that was under way; the figures
\* and the bands of a turn are between its first events; and what a record says of a
\* conversation are ranks of the figures of its own turns.
TtfaIsOwn ==
    CASE part = "clientTtfa" -> CT!TtfaIsOwn
      [] part = "ledger" -> UL!FiguresAreRanks /\ UL!PanelAgrees
      [] part = "turnMetrics" -> TM!FiguresAreOfFirst /\ TM!BandsAreInPlace
      [] OTHER -> TRUE

\* The listing on the page is the one that was asked for last, in whatever order
\* answers come; a selected record is there, was asked for once, or failed, and is as
\* the last refresh found it unless it was on its way then.  Runs and rigs that are
\* shown together have colours of their own; a run that is said to be best at
\* something is, but that the first is called the fastest where none has a time; a run
\* the page selects by itself is in the table, unless the words or the mode of a filter
\* it was left with hide it.  A rig keeps the rows, the scores and the report of its own
\* conversation, and the rows are of the rig as it ran, but for those that come in when
\* an error, or a bill that is late, has taken the lock off and the rig has changed.
PageIsCurrent ==
    CASE part = "runsPage" -> RP!ListIsNewest /\ RP!RecordsAreFresh /\ RP!AskedForOnce
      [] part = "bench" ->
              /\ BV!ColoursAreFresh /\ BV!RigIsPinned /\ BV!ScoresAreOwn
              /\ BV!ReportIsOfLast
      [] part = "comparison" ->
              CO!SeriesApart /\ CO!VerdictIsBest /\ CO!PreselectionIsShown
      [] OTHER -> TRUE

\* After any changes and reloads a rig names a voice the vendor has for its model
\* and language; a typed voice is one typed against the list that is shown; and a
\* reload with the same catalog changes nothing.
RigIsValid ==
    CASE part = "rigs" -> RG!VoiceIsOffered /\ RG!TypedIsCurrent /\ RG!RestoredAsSaved
      [] part = "factory" ->
              FA!BlockerIsRefusal /\ FA!ListsMirrored /\ FA!CommandReproduces
      [] part = "export" ->
              /\ VX!StacksKeptApart /\ VX!RowIsAsSent /\ VX!CitesItsOwn
              /\ VX!OpensReady /\ VX!RowsAreDistinct
      [] part = "llmWire" -> LW!RequestIsTaken
      [] OTHER -> TRUE

Owes ==
    CASE part = "geminiStt" -> GS!Owes
      [] part = "murfHttpTts" -> MT!Owes
      [] part = "geminiTts" -> GT!Owes
      [] part = "mockTts" -> KT!Owes
      [] part = "novaTransport" -> NT!Owes
      [] part = "mockRealtime" -> MR!Owes
      [] part = "novaSonic" -> NS!Owes
      [] part = "pipeline" -> PS!Owes
      [] part = "voiceSession" -> VS!Owes
      [] part = "authGate" -> AG!Owes
      [] part = "recordingRoute" -> RR!Owes
      [] OTHER -> FALSE

\* What a part owes comes, whatever the vendor, the server or the user does: the
\* final of an utterance, the end and the bill of an answer, the write of a queued
\* event, the end of a start() and a close(), of a conversation that is ending,
\* and of a page that is open on an expired token.
AllSettle == Owes ~> ~Owes
=============================================================================
