------------------------------ MODULE Factory ------------------------------
(***************************************************************************)
(* From a saved rig to a session, or to the reason why there is none: the  *)
(* backend's answer of GET /api/catalog (index.ts), the rig that the page  *)
(* heals against it and its readiness marks (rigs.ts), createSession() of  *)
(* src/backend/src/providers/factory.ts, and the command that repeats the  *)
(* rig by scripts/smoke.mjs.                                               *)
(*                                                                         *)
(* The catalog and the rates are those that are shipped.  A field that is  *)
(* not set is "".                                                          *)
(***************************************************************************)
EXTENDS Integers, Catalog

CONSTANTS
    Environments,  \* sets of variables that are set when the backend starts
    Regions,       \* what AWS_REGION or its alias may name
    SavedRigs,     \* what the page may find in its storage
    Renamed        \* RENAMED_MODELS

VARIABLE s

-----------------------------------------------------------------------------
(* RATES of src/backend/src/pricing/rates.ts, in thousandths of a dollar per  *)
(* million of its unit.  The two vendors that publish in rupees are converted *)
(* at 94.43; what a rate is quoted as is left out.                            *)

Absent == -1
NoFallback == [unit |-> "none"]

PlainRate(unit, input, output) ==
    [unit |-> unit, input |-> input, output |-> output, cachedInput |-> Absent,
     audioInput |-> Absent, audioOutput |-> Absent, cachedAudioInput |-> Absent,
     until |-> Absent]

Fallback(rate) == [models |-> [m \in {} |-> rate], fallback |-> rate]
ByModel(models) == [models |-> models, fallback |-> NoFallback]

FreeRate(unit) == PlainRate(unit, 0, 0)

\* gemini(), openaiText() and anthropic()
TextRate(input, output, cached) ==
    [PlainRate("tokens", input, output) EXCEPT !.cachedInput = cached]

\* The promotion of the Flash tier doubles on its day.
FlashPromo(lastDay) ==
    [TextRate(750, 3750, 75) EXCEPT !.until = lastDay]
        @@ [step |-> [input |-> 1500, output |-> 7500, cachedInput |-> 150]]

SpokenRate(audio, text) ==
    [TextRate(text.input, text.output, text.cached) EXCEPT
        !.audioInput = audio.input, !.audioOutput = audio.output,
        !.cachedAudioInput = audio.cached]

Per(input, cached, output) == [input |-> input, cached |-> cached, output |-> output]

\* Speech and text, of the regions that are priced.
NovaSonicRegions ==
    "ap-northeast-1" :> [speech |-> <<3630, 14520>>, text |-> <<396, 3311>>]
    @@ "eu-north-1" :> [speech |-> <<2910, 11650>>, text |-> <<363, 2992>>]
    @@ "us-east-1" :> [speech |-> <<3000, 12000>>, text |-> <<330, 2750>>]
    @@ "us-west-2" :> [speech |-> <<3000, 12000>>, text |-> <<319, 2651>>]

NovaSonicRate(region) ==
    LET r == NovaSonicRegions[region]
    IN  [PlainRate("tokens", r.text[1], r.text[2]) EXCEPT !.audioInput = r.speech[1],
                                                     !.audioOutput = r.speech[2]]

ElevenLabs(perThousand) == PlainRate("characters", 0, perThousand)
GeminiTtsRate(input, output) == PlainRate("tokens", input, output)
CartesiaSttRate(credits) == PlainRate("audio_seconds", credits * 50000, 0)

GoogleModels(lastDay) ==
    [m \in {"gemini-3.8-flash", "gemini-3.7-flash", "gemini-3.6-flash"} |->
        FlashPromo(lastDay)]
    @@ "gemini-3.5-flash" :> TextRate(1500, 9000, 150)
    @@ "gemini-3.5-flash-lite" :> TextRate(300, 2500, 30)
    @@ "gemini-3.1-flash-lite" :> TextRate(250, 1500, 25)

OpenAiModels ==
    "gpt-5.6-sol" :> TextRate(4000, 20000, 400) @@ "gpt-5.6-terra" :> TextRate(2000, 12000, 200)
    @@ "gpt-5.6-luna" :> TextRate(200, 1200, 20) @@ "gpt-5.4-mini" :> TextRate(750, 4500, 75)
    @@ "gpt-5.4-nano" :> TextRate(200, 1250, 20) @@ "gpt-4.1-mini" :> TextRate(400, 1600, 100)
    @@ "gpt-4o-mini" :> TextRate(150, 600, 75)

AnthropicModels ==
    "claude-haiku-5-5" :> TextRate(100, 500, 10) @@ "claude-haiku-4-5" :> TextRate(1000, 5000, 100)

OpenAiRealtimeModels ==
    "gpt-realtime-2.1" :>
        SpokenRate(Per(32000, 400, 64000), Per(4000, 400, 24000))
    @@ "gpt-realtime-2.1-mini" :>
        SpokenRate(Per(10000, 300, 20000), Per(600, 60, 2400))

\* An unknown region has no rate rather than another's.
NovaModels(region) ==
    IF region \in DOMAIN NovaSonicRegions
    THEN "amazon.nova-2-sonic-v1:0" :> NovaSonicRate(region) ELSE [m \in {} |-> Absent]

ElevenLabsEntry ==
    [models |-> [m \in {"eleven_flash_v2_5", "eleven_flash_v2", "eleven_turbo_v2_5"} |->
                    ElevenLabs(50000)]
                @@ "eleven_multilingual_v2" :> ElevenLabs(100000),
     fallback |-> ElevenLabs(100000)]

GeminiTtsModels ==
    "gemini-2.5-flash-preview-tts" :> GeminiTtsRate(500, 10000)
    @@ "gemini-2.5-pro-preview-tts" :> GeminiTtsRate(1000, 20000)

GeminiSttRate == PlainRate("audio_seconds", 150000, 0)
SarvamSttRate == PlainRate("audio_seconds", 88249, 0)

SarvamTtsEntry ==
    [models |-> "bulbul:v4-flash" :> PlainRate("characters", 0, 21180),
     fallback |-> PlainRate("characters", 0, 31770)]

CartesiaTtsRate == PlainRate("characters", 0, 50000)

CartesiaSttEntry ==
    [models |-> "ink-2" :> CartesiaSttRate(3) @@ "ink-whisper" :> CartesiaSttRate(1),
     fallback |-> CartesiaSttRate(3)]

MurfRate == PlainRate("characters", 0, 30000)

RATES(region, lastDay) ==
    "mock-stt" :> Fallback(FreeRate("audio_seconds"))
    @@ "mock-llm" :> Fallback(FreeRate("tokens"))
    @@ "mock-tts" :> Fallback(FreeRate("characters"))
    @@ "mock-realtime" :> Fallback(FreeRate("audio_seconds"))
    @@ "google-llm" :> ByModel(GoogleModels(lastDay)) @@ "openai-llm" :> ByModel(OpenAiModels)
    @@ "anthropic-llm" :> ByModel(AnthropicModels)
    @@ "openai-realtime" :> ByModel(OpenAiRealtimeModels)
    @@ "aws-nova-sonic" :> ByModel(NovaModels(region))
    @@ "gemini-stt" :> Fallback(GeminiSttRate) @@ "gemini-tts" :> ByModel(GeminiTtsModels)
    @@ "elevenlabs-tts" :> ElevenLabsEntry
    @@ "sarvam-stt" :> Fallback(SarvamSttRate) @@ "sarvam-tts" :> SarvamTtsEntry
    @@ "cartesia-tts" :> Fallback(CartesiaTtsRate) @@ "cartesia-stt" :> CartesiaSttEntry
    @@ "murf-tts" :> Fallback(MurfRate)

-----------------------------------------------------------------------------
(* The backend                                                               *)

Kinds == {"realtime", "stt", "llm", "tts"}

Registry ==
    [k \in Kinds |->
        CASE k = "realtime" -> {"mock-realtime", "openai-realtime", "aws-nova-sonic"}
          [] k = "stt" -> {"mock-stt", "sarvam-stt", "cartesia-stt", "gemini-stt"}
          [] k = "llm" -> {"mock-llm", "google-llm", "openai-llm", "anthropic-llm"}
          [] k = "tts" -> {"mock-tts", "sarvam-tts", "cartesia-tts", "murf-tts",
                           "gemini-tts", "elevenlabs-tts"}]

\* catalogWithReadiness(), and what the route adds.
CatalogAnswer(env) ==
    [i \in DOMAIN CATALOG |->
        CATALOG[i] @@ [missingEnv |-> MissingEnvFor(CATALOG[i], env),
                       registered |-> \E k \in Kinds : CATALOG[i].id \in Registry[k]]]

\* The legs of a mode, in the order the wire has them.
Legs(mode) == IF mode = "realtime" THEN <<"realtime">> ELSE <<"stt", "llm", "tts">>

\* requireFrom() and requireModel(): why they throw, or "none".
RefusedProvider(k, id, env) ==
    IF id = "" THEN "none selected"
    ELSE IF ~Known(CATALOG, id) THEN "not in the catalog"
    ELSE IF id \notin Registry[k] THEN "not wired up"
    ELSE IF MissingEnvFor(FindProvider(id), env) # {} THEN "needs a key"
    ELSE "none"

RequireModel(id, model) == IF model = "" THEN Head(FindProvider(id).models).id ELSE model
RefusedModel(id, model) ==
    IF model = "" \/ Known(FindProvider(id).models, model) THEN "none" ELSE "no such model"

\* The first leg that is refused and why: providers before models.  Or a session,
\* with the model of each leg.
CreateSession(config, env) ==
    LET legs == Legs(config.mode)
        By(refused) == SelectSeq(legs, LAMBDA k : refused[k] # "none")
        provider == [k \in Kinds |-> RefusedProvider(k, config.provider[k], env)]
        model == [k \in Kinds |-> RefusedModel(config.provider[k], config.model[k])]
    IN  IF By(provider) # <<>> THEN <<Head(By(provider)), provider[Head(By(provider))]>>
        ELSE IF By(model) # <<>> THEN <<Head(By(model)), model[Head(By(model))]>>
        ELSE <<"session", [k \in ToSet(legs) |->
                              RequireModel(config.provider[k], config.model[k])]>>

-----------------------------------------------------------------------------
(* The page                                                                  *)

Answer == CatalogAnswer(s.env)
Page == INSTANCE Rigs WITH Catalogs <- {}, TypedIds <- {}, catalog <- Answer,
                           rig <- s.rig, typedFor <- ""

\* slotsOf(): the mark on a leg of the rig.
Blocker(k) ==
    IF ~Known(Answer, s.rig.provider[k]) THEN "not in the catalog"
    ELSE LET entry == Find(Answer, s.rig.provider[k])
         IN  IF ~entry.registered THEN "not wired up"
             ELSE IF entry.missingEnv # {} THEN "needs a key"
             ELSE "none"

\* startConfigOf()
StartConfig ==
    [mode |-> s.rig.mode, provider |-> s.rig.provider, model |-> s.rig.model,
     language |-> s.rig.language,
     voice |-> IF Page!TypedVoiceId(Answer, s.rig) # "" THEN s.rig.customVoiceId
               ELSE s.rig.voice]

\* envCommandOf(): the variables the command sets.
EnvCommand ==
    LET x == s.rig
        voice == StartConfig.voice
        Spoken == IF voice = "" THEN NoTable ELSE "VOICE" :> voice
    IN  Spoken @@
        IF x.mode = "realtime"
        THEN "REALTIME" :> x.provider["realtime"] @@ "REALTIME_MODEL" :> x.model["realtime"]
             @@ "LANG_CODE" :> x.language["realtime"]
        ELSE "STT" :> x.provider["stt"] @@ "STT_MODEL" :> x.model["stt"]
             @@ "STT_LANG" :> x.language["stt"]
             @@ "LLM" :> x.provider["llm"] @@ "LLM_MODEL" :> x.model["llm"]
             @@ "TTS" :> x.provider["tts"] @@ "TTS_MODEL" :> x.model["tts"]
             @@ "TTS_LANG" :> x.language["tts"]

\* What smoke.mjs reads for a leg, and the mock that stands for what is not set.
Knobs ==
    [realtime |-> <<"REALTIME", "mock-realtime", "REALTIME_MODEL", "mock-s2s", "LANG_CODE">>,
     stt |-> <<"STT", "mock-stt", "STT_MODEL", "mock-asr", "STT_LANG">>,
     llm |-> <<"LLM", "mock-llm", "LLM_MODEL", "mock-chat", "no knob">>,
     tts |-> <<"TTS", "mock-tts", "TTS_MODEL", "mock-voice", "TTS_LANG">>]

SmokeConfig(mode, env) ==
    LET Get(name, default) == IF name \in DOMAIN env THEN env[name] ELSE default
        Read(k) == [provider |-> Get(Knobs[k][1], Knobs[k][2]),
                    model |-> Get(Knobs[k][3], Knobs[k][4]),
                    language |-> Get(Knobs[k][5],
                                     IF k = "llm" THEN "" ELSE Get("LANG_CODE", ""))]
    IN  [legs |-> [k \in ToSet(Legs(mode)) |-> Read(k)], voice |-> Get("VOICE", "")]

-----------------------------------------------------------------------------
Init ==
    \E env \in Environments, region \in Regions, saved \in SavedRigs :
        s = [env |-> env, region |-> region, rig |-> saved, by |-> "storage",
             outcome |-> <<>>]

\* The page loads, and heals what it has stored.
Load ==
    /\ s.by = "storage" /\ s.outcome = <<>>
    /\ s' = [s EXCEPT !.rig = Page!WithDefaults(Answer, @), !.by = "page"]

\* A start message; that of another client names what it likes.
Start ==
    /\ s.outcome = <<>>
    /\ s' = [s EXCEPT !.outcome = CreateSession(s.rig, s.env)]

Next == Load \/ Start

-----------------------------------------------------------------------------
(* What a session of these models is billed by                               *)

\* PipelineSession.emitUsage(), and the usage rows of the three realtime sessions.
MeteredIn(k, providerId) ==
    CASE k = "stt" -> "audio_seconds"
      [] k = "llm" -> "tokens"
      [] k = "tts" -> "characters"
      [] k = "realtime" -> IF providerId = "mock-realtime" THEN "audio_seconds" ELSE "tokens"

ModelIds == {m.id : m \in UNION {ToSet(CATALOG[i].models) : i \in DOMAIN CATALOG}}
BaseOf ==
    [id \in ModelIds |->
        (CHOOSE m \in UNION {ToSet(CATALOG[i].models) : i \in DOMAIN CATALOG} :
            m.id = id).base]

\* Where Nova is called, and what it is priced for.
NovaRegion ==
    IF s.env \cap {"AWS_REGION", "AWS_DEFAULT_REGION"} # {} THEN s.region ELSE "us-east-1"

Price == INSTANCE Pricing WITH Rates <- RATES("us-east-1", 0), Base <- BaseOf

-----------------------------------------------------------------------------
(* Properties                                                                *)

\* The page marks the legs for which a session is refused, with the reason of the
\* refusal; and a rig without a mark gets a session of the models it shows.
BlockerIsRefusal ==
    s.by = "page" /\ s.outcome # <<>> =>
        LET blocked == SelectSeq(Legs(s.rig.mode), LAMBDA k : Blocker(k) # "none")
        IN  s.outcome = IF blocked # <<>> THEN <<Head(blocked), Blocker(Head(blocked))>>
                        ELSE <<"session", [k \in ToSet(Legs(s.rig.mode)) |->
                                              s.rig.model[k]]>>

\* Of whatever session is granted, each leg has a rate in the unit it is metered in,
\* but for the two that are unpriced by design: Google's speech, which it prices in
\* tokens, and a region of Amazon that is not in the table.
LegsHaveRates ==
    s.outcome # <<>> => (s.outcome[1] = "session" =>
        \A k \in ToSet(Legs(s.rig.mode)) :
            LET id == s.rig.provider[k]
                rates == RATES(NovaRegion, 0)
                rate == IF id \in DOMAIN rates
                        THEN Price!RateOf(rates[id], s.outcome[2][k]) ELSE NoFallback
            IN  rate.unit # MeteredIn(k, id)
                  <=> id = "gemini-tts"
                      \/ (id = "aws-nova-sonic" /\ NovaRegion \notin DOMAIN NovaSonicRegions))

\* The copy of the lookup rules in the page finds the lists the backend's does.
ListsMirrored ==
    s.by = "page" =>
        \A k \in Kinds :
            LET p == s.rig.provider[k]
                m == s.rig.model[k]
                languages == LanguagesFor(p, m)
            IN  /\ Page!LanguagesFor(Answer, p, m) = languages
                /\ \A l \in {"", "zz"} \cup {languages[i].id : i \in DOMAIN languages} :
                       Page!VoicesFor(Answer, p, m, l) = VoicesFor(p, m, l)

\* The command that is shown with a rig measures that rig.
CommandReproduces ==
    s.by = "page" =>
        SmokeConfig(s.rig.mode, EnvCommand) =
            [legs |-> [k \in ToSet(Legs(s.rig.mode)) |->
                          [provider |-> s.rig.provider[k], model |-> s.rig.model[k],
                           language |-> s.rig.language[k]]],
             voice |-> StartConfig.voice]
=============================================================================
