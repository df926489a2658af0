------------------------------ MODULE Catalog ------------------------------
(***************************************************************************)
(* The catalog of the backend, src/backend/src/providers/catalog.ts, with  *)
(* the voice tables it imports, and the rules by which a list is found.    *)
(*                                                                         *)
(* Names, notes and links are left out.  Of the variants of a model, which *)
(* differ behind the '@', a few stand for all; of the voices on the same   *)
(* lists, one; of the languages that the same models take and that have    *)
(* voices alike, one or two.  The head of a list, which is what is picked  *)
(* by default, stays its head.  A list that is not given is empty.         *)
(***************************************************************************)
EXTENDS Naturals, Sequences, SequencesExt, TLC

Named(id) == [id |-> id, voices |-> <<>>]
Voiced(id, voices) == [id |-> id, voices |-> voices]

\* A model id, and what stands before and behind its '@'.
Variant(base, variant, id) ==
    [id |-> id, base |-> base, variant |-> variant, languages |-> <<>>, voices |-> <<>>]
Model(id) == Variant(id, "", id)
Models(ids) == [i \in DOMAIN ids |-> Model(ids[i])]
NoTable == [x \in {} |-> <<>>]
NoAlias == [x \in {} |-> {}]

Provider(kind, id, envKeys, models) ==
    [kind |-> kind, id |-> id, implemented |-> TRUE, envKeys |-> envKeys,
     envAliases |-> NoAlias, models |-> models, languages |-> <<>>,
     voices |-> <<>>, voicesByLanguage |-> NoTable, acceptsVoiceId |-> FALSE]

Queued(p) == [p EXCEPT !.implemented = FALSE]
WithVoices(p, voices) == [p EXCEPT !.voices = voices]
WithLanguages(p, ids) == [p EXCEPT !.languages = [i \in DOMAIN ids |-> Named(ids[i])]]

-----------------------------------------------------------------------------
(* Realtime                                                                  *)

MockRealtime ==
    WithVoices(Provider("realtime", "mock-realtime", {}, Models(<<"mock-s2s">>)), <<"beep">>)

OpenAiRealtime ==
    WithVoices(Provider("realtime", "openai-realtime", {"OPENAI_API_KEY"},
                        Models(<<"gpt-realtime-2.1", "gpt-realtime-2.1-mini">>)),
               <<"marin", "alloy">>)

GeminiLive ==
    Queued(WithVoices(Provider("realtime", "gemini-live", {"GOOGLE_API_KEY"},
                               Models(<<"gemini-2.5-flash-native-audio-preview",
                                        "gemini-live-2.5-flash-preview">>)), <<"Puck">>))

ElevenLabsAgents ==
    Queued(Provider("realtime", "elevenlabs-agents",
                    {"ELEVENLABS_API_KEY", "ELEVENLABS_AGENT_ID"}, Models(<<"agent">>)))

\* Two speak every language, the others that of their list; India's two share one.
NovaLanguages ==
    <<Voiced("en-US", <<"tiffany">>), Voiced("en-GB", <<"amy", "tiffany">>),
      Voiced("en-IN", <<"kiara", "tiffany">>), Voiced("hi-IN", <<"kiara", "tiffany">>),
      Voiced("fr-FR", <<"ambre", "tiffany">>)>>

NovaSonic ==
    LET sonic == [Model("amazon.nova-2-sonic-v1:0") EXCEPT !.languages = NovaLanguages]
        p == Provider("realtime", "aws-nova-sonic",
                      {"AWS_ACCESS_KEY_ID", "AWS_SECRET_ACCESS_KEY", "AWS_REGION"},
                      <<sonic>>)
    IN  [WithVoices(p, <<"tiffany", "amy", "kiara", "ambre">>)
            EXCEPT !.envAliases = "AWS_REGION" :> {"AWS_DEFAULT_REGION"}]

-----------------------------------------------------------------------------
(* Speech to text                                                            *)

MockStt == Provider("stt", "mock-stt", {}, Models(<<"mock-asr">>))

SarvamStt ==
    WithLanguages(Provider("stt", "sarvam-stt", {"SARVAM_API_KEY"},
                           <<Variant("saaras:v3-realtime", "fast", "saaras:v3-realtime@fast"),
                             Variant("saaras:v3-realtime", "balanced",
                                     "saaras:v3-realtime@balanced"),
                             Variant("saaras:v4", "fast", "saaras:v4@fast"),
                             Variant("saaras:v4", "balanced", "saaras:v4@balanced")>>),
                  <<"auto", "en-IN", "hi-IN", "or-IN">>)

CartesiaStt ==
    WithLanguages(Provider("stt", "cartesia-stt", {"CARTESIA_API_KEY"},
                           Models(<<"ink-2", "ink-whisper">>)), <<"en", "hi">>)

GeminiSttLocales == <<"auto", "hi-IN">>
GeminiStt ==
    WithLanguages(Provider("stt", "gemini-stt", {"GOOGLE_API_KEY"},
                           Models(<<"gemini-3.5-transcribe-live">>)), GeminiSttLocales)

DeepgramStt ==
    Queued(Provider("stt", "deepgram-stt", {"DEEPGRAM_API_KEY"}, Models(<<"nova-3", "nova-2">>)))
AssemblyAiStt ==
    Queued(Provider("stt", "assemblyai-stt", {"ASSEMBLYAI_API_KEY"},
                    Models(<<"universal-streaming">>)))
OpenAiStt ==
    Queued(Provider("stt", "openai-stt", {"OPENAI_API_KEY"},
                    Models(<<"gpt-4o-transcribe", "gpt-4o-mini-transcribe", "whisper-1">>)))
ElevenLabsStt ==
    Queued(Provider("stt", "elevenlabs-stt", {"ELEVENLABS_API_KEY"}, Models(<<"scribe_v1">>)))

-----------------------------------------------------------------------------
(* Language models                                                           *)

MockLlm == Provider("llm", "mock-llm", {}, Models(<<"mock-chat">>))

AnthropicLlm ==
    Provider("llm", "anthropic-llm", {"ANTHROPIC_API_KEY"},
             <<Variant("claude-haiku-5-5", "off", "claude-haiku-5-5@off"),
               Variant("claude-haiku-5-5", "low", "claude-haiku-5-5@low"),
               Model("claude-haiku-4-5")>>)

OpenAiLlm ==
    Provider("llm", "openai-llm", {"OPENAI_API_KEY"},
             <<Variant("gpt-5.6-luna", "none", "gpt-5.6-luna@none"),
               Variant("gpt-5.6-luna", "low", "gpt-5.6-luna@low"),
               Variant("gpt-5.6-terra", "none", "gpt-5.6-terra@none"),
               Variant("gpt-5.6-sol", "none", "gpt-5.6-sol@none"),
               Variant("gpt-5.4-mini", "none", "gpt-5.4-mini@none"),
               Variant("gpt-5.4-nano", "none", "gpt-5.4-nano@none")>>
                \o Models(<<"gpt-4.1-mini", "gpt-4o-mini">>))

GoogleLlm ==
    Provider("llm", "google-llm", {"GOOGLE_API_KEY"},
             <<Variant("gemini-3.1-flash-lite", "minimal", "gemini-3.1-flash-lite@minimal"),
               Variant("gemini-3.5-flash-lite", "minimal", "gemini-3.5-flash-lite@minimal"),
               Variant("gemini-3.5-flash", "off", "gemini-3.5-flash@off"),
               Variant("gemini-3.6-flash", "minimal", "gemini-3.6-flash@minimal"),
               Variant("gemini-3.8-flash", "off", "gemini-3.8-flash@off"),
               Variant("gemini-3.7-flash", "low", "gemini-3.7-flash@low")>>)

GroqLlm ==
    Queued(Provider("llm", "groq-llm", {"GROQ_API_KEY"},
                    Models(<<"llama-3.3-70b-versatile", "llama-3.1-8b-instant">>)))

-----------------------------------------------------------------------------
(* Text to speech                                                            *)

MockTts ==
    WithVoices(Provider("tts", "mock-tts", {}, Models(<<"mock-voice">>)), <<"beep">>)

\* Personas hang off the language; the code-mixed ones are filed under two.
SarvamV4FlashLanguages ==
    <<Voiced("en-IN", <<"shubh_enhi_ads", "aditi_en_stories">>),
      Voiced("hi-IN", <<"aayan_hi_conversational", "shubh_enhi_ads">>),
      Voiced("bn-IN", <<"persona_bn">>)>>

SarvamTts ==
    LET v4 == [Model("bulbul:v4-flash") EXCEPT !.languages = SarvamV4FlashLanguages]
        v2 == [Model("bulbul:v2") EXCEPT !.voices = <<"anushka">>]
        p == Provider("tts", "sarvam-tts", {"SARVAM_API_KEY"},
                      <<Model("bulbul:v3"), v4, Model("bulbul:v3-beta"), v2>>)
    IN  WithLanguages(WithVoices(p, <<"shubh">>), <<"en-IN", "hi-IN", "od-IN">>)

\* "en" is taken by all models, "hi" by all but sonic-2, and so on.
CartesiaModelLanguages ==
    "sonic-3.6" :> <<"en", "hi", "ta", "or">> @@ "sonic-3.5" :> <<"en", "hi", "ta">>
    @@ "sonic-3" :> <<"en", "hi", "ta">> @@ "sonic-turbo" :> <<"en", "hi">>
    @@ "sonic-2" :> <<"en">>

\* One library for all models, each voice filed under one language.
CartesiaVoicesByLanguage ==
    "en" :> <<"aarav">> @@ "hi" :> <<"voice_hi">> @@ "ta" :> <<"voice_ta">>
    @@ "or" :> <<"voice_or">>

CartesiaLanguages(model) ==
    LET ids == CartesiaModelLanguages[model]
    IN  [i \in DOMAIN ids |-> Named(ids[i])]

CartesiaTts ==
    LET ids == <<"sonic-3.6", "sonic-3.5", "sonic-3", "sonic-turbo", "sonic-2">>
        p == Provider("tts", "cartesia-tts", {"CARTESIA_API_KEY"},
                      [i \in DOMAIN ids |->
                          [Model(ids[i]) EXCEPT !.languages = CartesiaLanguages(ids[i])]])
    IN  [p EXCEPT !.acceptsVoiceId = TRUE, !.voicesByLanguage = CartesiaVoicesByLanguage]

\* A voice both models have, and one that is a model's own.
MurfFalconVoices == <<"en-US-natalie", "falcon_only">>
MurfGen2Voices == <<"en-US-natalie", "gen2_only">>
MurfFalconLocales == <<Named("en-US"), Named("as-IN")>>
MurfGen2Locales == <<Named("en-US"), Named("bg-BG")>>

MurfTts ==
    LET falcon == [Model("falcon-2") EXCEPT !.voices = MurfFalconVoices,
                                            !.languages = MurfFalconLocales]
        gen2 == [Model("gen2") EXCEPT !.voices = MurfGen2Voices,
                                      !.languages = MurfGen2Locales]
    IN  [Provider("tts", "murf-tts", {"MURF_API_KEY"}, <<falcon, gen2>>)
            EXCEPT !.acceptsVoiceId = TRUE]

GeminiTtsLocales == <<Named("en-US"), Named("hi-IN")>>
GeminiVoices == <<"Zephyr">>
GeminiTts ==
    LET ids == <<"gemini-3.1-flash-tts-preview", "gemini-2.5-flash-preview-tts",
                 "gemini-2.5-pro-preview-tts">>
    IN  WithVoices(Provider("tts", "gemini-tts", {"GOOGLE_API_KEY"},
                            [i \in DOMAIN ids |->
                                [Model(ids[i]) EXCEPT !.languages = GeminiTtsLocales]]),
                   GeminiVoices)

ElevenLabsTts ==
    [WithVoices(Provider("tts", "elevenlabs-tts", {"ELEVENLABS_API_KEY"},
                         Models(<<"eleven_flash_v2_5", "eleven_multilingual_v2",
                                  "eleven_turbo_v2_5">>)), <<"george">>)
        EXCEPT !.acceptsVoiceId = TRUE]

OpenAiTts ==
    Queued(WithVoices(Provider("tts", "openai-tts", {"OPENAI_API_KEY"},
                               Models(<<"gpt-4o-mini-tts", "tts-1">>)), <<"alloy">>))
DeepgramTts ==
    Queued(Provider("tts", "deepgram-tts", {"DEEPGRAM_API_KEY"},
                    Models(<<"aura-2-thalia-en", "aura-2-apollo-en">>)))

CATALOG ==
    <<MockRealtime, OpenAiRealtime, GeminiLive, ElevenLabsAgents, NovaSonic,
      MockStt, SarvamStt, CartesiaStt, GeminiStt, DeepgramStt, AssemblyAiStt, OpenAiStt,
      ElevenLabsStt,
      MockLlm, AnthropicLlm, OpenAiLlm, GoogleLlm, GroqLlm,
      MockTts, SarvamTts, CartesiaTts, MurfTts, GeminiTts, ElevenLabsTts, OpenAiTts,
      DeepgramTts>>

-----------------------------------------------------------------------------
Known(list, id) == \E i \in DOMAIN list : list[i].id = id
Find(list, id) == list[CHOOSE i \in DOMAIN list : list[i].id = id]
FindProvider(id) == Find(CATALOG, id)

\* voicesFor() and languagesFor(), for a provider and a model of the catalog.
FiledUnder(p, language) ==
    IF language.voices # <<>> THEN language.voices
    ELSE IF language.id \in DOMAIN p.voicesByLanguage THEN p.voicesByLanguage[language.id]
    ELSE <<>>

VoicesFor(providerId, modelId, languageId) ==
    LET p == FindProvider(providerId)
        m == Find(p.models, modelId)
        voiced == SelectSeq(m.languages, LAMBDA l : FiledUnder(p, l) # <<>>)
        own == IF Known(m.languages, languageId)
                   THEN FiledUnder(p, Find(m.languages, languageId))
               ELSE IF voiced # <<>> THEN FiledUnder(p, Head(voiced))
               ELSE <<>>
    IN  IF own # <<>> THEN own ELSE IF m.voices # <<>> THEN m.voices ELSE p.voices

LanguagesFor(providerId, modelId) ==
    LET p == FindProvider(providerId)
        own == Find(p.models, modelId).languages
    IN  IF own # <<>> THEN own ELSE p.languages

MissingEnvFor(p, env) ==
    {key \in p.envKeys :
        ({key} \cup IF key \in DOMAIN p.envAliases THEN p.envAliases[key] ELSE {})
            \cap env = {}}
=============================================================================
