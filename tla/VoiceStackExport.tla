-------------------------- MODULE VoiceStackExport --------------------------
(***************************************************************************)
(* The dialog that turns a rig into the code of a voice stack, which       *)
(* MagickVoice imports: src/frontend/src/components/CreateCodeDialog.tsx   *)
(* and the translation in src/frontend/src/lib/voice-stack/export.ts.      *)
(*                                                                         *)
(* The code itself, its text and its checksum, is left out: it is the      *)
(* legs, the rows and the sessions that are cited.  Of what those measured *)
(* only the languages are kept, and of the checklist what blocks.          *)
(***************************************************************************)
EXTENDS Catalog, FiniteSets

CONSTANTS
    Drafts,     \* the rigs the dialog may be opened on
    Benches,    \* the prompt and the turn detection the bench is set to
    TypedIds,   \* what the user types into a voice id field
    MaxRows,    \* bound: languages of a stack
    MaxEdits    \* bound: clicks in the dialog

VARIABLE s

Page == INSTANCE Rigs WITH Catalogs <- {}, Renamed <- NoAlias, catalog <- CATALOG,
                           rig <- s.rig, typedFor <- ""

-----------------------------------------------------------------------------
(* Languages                                                                 *)

\* normaliseLanguageCode(): the base code of a vendor's spelling; "auto" has none.
Spellings ==
    "en" :> {"en", "en-US", "en-GB", "en-IN"} @@ "hi" :> {"hi", "hi-IN"}
    @@ "or" :> {"or", "or-IN", "od-IN"} @@ "ta" :> {"ta"} @@ "fr" :> {"fr-FR"}
    @@ "bn" :> {"bn-IN"} @@ "as" :> {"as-IN"} @@ "bg" :> {"bg-BG"}

Normalise(id) ==
    IF \E code \in DOMAIN Spellings : id \in Spellings[code]
    THEN CHOOSE code \in DOMAIN Spellings : id \in Spellings[code] ELSE ""

Listed(k) == Page!LanguagesFor(CATALOG, s.rig.provider[k], s.rig.model[k])

\* The spellings of a language on a leg, in the vendor's order.
SpelledAs(code, k) ==
    LET own == SelectSeq(Listed(k), LAMBDA l : Normalise(l.id) = code)
    IN  [i \in DOMAIN own |-> own[i].id]

\* sharedLanguages(): the base codes that both legs list.
Shared ==
    {code \in DOMAIN Spellings : SpelledAs(code, "stt") # <<>> /\ SpelledAs(code, "tts") # <<>>}

-----------------------------------------------------------------------------
(* Legs                                                                      *)

SpecLegs == <<"stt", "llm", "tts">>

CanonicalProviderIds ==
    [stt |-> "sarvam-stt" :> "sarvam" @@ "gemini-stt" :> "gemini"
             @@ "cartesia-stt" :> "cartesia" @@ "deepgram-stt" :> "deepgram",
     llm |-> "openai-llm" :> "openai" @@ "google-llm" :> "google"
             @@ "anthropic-llm" :> "anthropic",
     tts |-> "sarvam-tts" :> "sarvam" @@ "cartesia-tts" :> "cartesia"
             @@ "elevenlabs-tts" :> "elevenlabs" @@ "murf-tts" :> "murf"
             @@ "gemini-tts" :> "gemini"]

ReasoningLevels == {"off", "none", "minimal", "low", "medium", "high"}

\* The variants that have an option in a spec.
VariantRules ==
    "sarvam-stt" :> {"fast", "balanced"} @@ "google-llm" :> ReasoningLevels
    @@ "openai-llm" :> ReasoningLevels @@ "anthropic-llm" :> {"off", "low", "medium"}

NoCounterpart == [provider |-> "none"]

\* One leg as the importing side names it: an unknown vendor or variant is refused.
MapLeg(leg, p, model) ==
    LET option == IF p = "anthropic-llm" /\ model.variant = "none" THEN "off"
                  ELSE model.variant
    IN  IF p \in DOMAIN CanonicalProviderIds[leg]
           /\ (option # "" => p \in DOMAIN VariantRules /\ option \in VariantRules[p])
        THEN [provider |-> CanonicalProviderIds[leg][p], model |-> model.base,
              option |-> option]
        ELSE NoCounterpart

Mapped(k) ==
    LET p == FindProvider(s.rig.provider[k])
    IN  MapLeg(k, p.id, Find(p.models, s.rig.model[k]))

LegBlocked(k) ==
    LET p == FindProvider(s.rig.provider[k])
    IN  \/ p.id \in {"mock-stt", "mock-llm", "mock-tts"}
        \/ ~p.implemented
        \/ ~Known(p.models, s.rig.model[k])
        \/ Mapped(k) = NoCounterpart

-----------------------------------------------------------------------------
(* Rows                                                                      *)

VoicesOf(ttsLang) ==
    Page!VoicesFor(CATALOG, s.rig.provider["tts"], s.rig.model["tts"], ttsLang)
Typed == Page!TypedVoiceId(CATALOG, s.rig)

ResolvedVoice(ttsLang, voice) ==
    Page!ResolveVoice(CATALOG, s.rig.provider["tts"], s.rig.model["tts"], ttsLang, voice)

PickedVoiceFor(ttsLang) ==
    IF ttsLang = s.rig.language["tts"] /\ s.rig.voice # "" THEN s.rig.voice
    ELSE ResolvedVoice(ttsLang, s.rig.voice)

\* The rig's own spelling if it names the language, or the vendor's first.
OwnOr(list, own) == IF Contains(list, own) THEN own ELSE Head(list)

\* The one builder of rows, the rig's own and those that are added.
RowFor(code) ==
    LET ttsLang == OwnOr(SpelledAs(code, "tts"), s.rig.language["tts"])
    IN  [code |-> code, ttsLang |-> ttsLang,
         sttLang |-> OwnOr(SpelledAs(code, "stt"), s.rig.language["stt"]),
         voice |-> IF Typed # "" THEN Typed ELSE PickedVoiceFor(ttsLang)]

\* The typed id is split out of the voice again; `edited` is kept for the properties.
Editable(row) ==
    [row EXCEPT !.voice = IF Typed # "" /\ @ = Typed THEN PickedVoiceFor(row.ttsLang) ELSE @]
        @@ [custom |-> IF Typed # "" /\ row.voice = Typed THEN Typed ELSE "",
            edited |-> FALSE]

InitialRows ==
    LET own == Normalise(s.rig.language["tts"])
        code == IF own # "" THEN own ELSE Normalise(s.rig.language["stt"])
    IN  IF s.rig.mode # "pipeline" \/ code = "" THEN <<>>
        ELSE IF code \in Shared THEN <<Editable(RowFor(code))>>
        ELSE <<Editable([code |-> code, sttLang |-> s.rig.language["stt"],
                         ttsLang |-> s.rig.language["tts"],
                         voice |-> IF Typed # "" THEN Typed ELSE s.rig.voice])>>

ExportedVoice(row) == IF row.custom # "" THEN row.custom ELSE row.voice

\* What keeps a row out of a stack; `before` are the codes of the rows above it.
RowBlocked(row, before) ==
    \/ row.code \in before
    \/ \E k \in {"stt", "tts"} :
          LET id == IF k = "stt" THEN row.sttLang ELSE row.ttsLang
          IN  \/ Normalise(id) # row.code
              \/ Listed(k) # <<>> /\ ~Known(Listed(k), id)
    \/ ExportedVoice(row) = ""
    \/ /\ ~Contains(VoicesOf(row.ttsLang), ExportedVoice(row))
       /\ ~FindProvider(s.rig.provider["tts"]).acceptsVoiceId

\* checkExportable()
Blocked ==
    \/ s.rig.mode = "realtime"
    \/ s.bench.detection # "server_vad"
    \/ \E k \in ToSet(SpecLegs) : LegBlocked(k)
    \/ s.rows = <<>>
    \/ \E i \in DOMAIN s.rows : RowBlocked(s.rows[i], {s.rows[j].code : j \in 1..(i - 1)})

-----------------------------------------------------------------------------
(* Recorded sessions                                                         *)

\* What a session of the rig sends when it speaks as the row says.
SessionOf(row) ==
    [legs |-> [k \in ToSet(SpecLegs) |-> <<s.rig.provider[k], s.rig.model[k]>>],
     detection |-> s.bench.detection, prompt |-> s.bench.prompt,
     ttsLang |-> row.ttsLang, voice |-> ExportedVoice(row), turns |-> 1]

\* What may be on disk: sessions of the rows in the dialog, in any of their
\* spellings, and each of them with one thing about it changed.
Recorded ==
    LET own == {[SessionOf(row) EXCEPT !.ttsLang = id] :
                   row \in ToSet(s.rows), id \in {"en-US", "en-IN", "hi", "od-IN", "auto"}}
    IN  own \cup UNION {{[e EXCEPT !.turns = 0], [e EXCEPT !.detection = "manual"],
                         [e EXCEPT !.prompt = "another"], [e EXCEPT !.prompt = "not listed"],
                         [e EXCEPT !.voice = "another"], [e EXCEPT !.voice = s.rig.voice],
                         [e EXCEPT !.legs["llm"] = <<"mock-llm", "mock-chat">>]} : e \in own}

MatchingSessions(sessions) ==
    {e \in sessions :
        /\ e.turns > 0 /\ e.detection = "server_vad"
        /\ \A k \in ToSet(SpecLegs) : e.legs[k] = <<s.rig.provider[k], s.rig.model[k]>>}

\* citeSessions(): of two rows with one code the first counts.
Cited(sessions) ==
    {e \in MatchingSessions(sessions) :
        /\ e.prompt = s.bench.prompt
        /\ LET rows == SelectSeq(s.rows, LAMBDA row : row.code = Normalise(e.ttsLang))
           IN  rows # <<>> /\ e.voice # "" /\ e.voice = ExportedVoice(Head(rows))}

\* provenanceFrom()
Provenance ==
    LET cited == IF s.sessions = "read" THEN Cited(Recorded) ELSE {}
    IN  [sessions |-> cited, languages |-> {Normalise(e.ttsLang) : e \in cited}]

\* produce() and buildVoiceStackSpec()
Output ==
    IF Blocked THEN <<"blocked">>
    ELSE IF s.sessions = "loading" THEN <<"pending">>
    ELSE <<"code", [legs |-> [k \in ToSet(SpecLegs) |-> Mapped(k)],
                    rows |-> [i \in DOMAIN s.rows |->
                                 [code |-> s.rows[i].code, stt |-> s.rows[i].sttLang,
                                  tts |-> s.rows[i].ttsLang,
                                  voice |-> ExportedVoice(s.rows[i])]],
                    provenance |-> Provenance]>>

-----------------------------------------------------------------------------
Init ==
    \E draft \in Drafts, bench \in Benches :
        s = [rig |-> Page!WithDefaults(CATALOG, draft), bench |-> bench, open |-> FALSE,
             rows |-> <<>>, sessions |-> "loading", edits |-> 0]

\* The dialog opens with the row the rig itself speaks, and asks for the sessions.
Open ==
    /\ ~s.open
    /\ s' = [s EXCEPT !.open = TRUE, !.rows = InitialRows]

SessionsArrive ==
    /\ s.open /\ s.sessions = "loading"
    /\ s' = [s EXCEPT !.sessions = "read"]

\* Losing the measurements does not cost the user the code.
SessionsFail ==
    /\ s.open /\ s.sessions = "loading"
    /\ s' = [s EXCEPT !.sessions = "failed"]

Edit(rows) ==
    /\ s.open /\ s.edits < MaxEdits
    /\ s' = [s EXCEPT !.edits = @ + 1, !.rows = rows]

Add(code) ==
    /\ \A i \in DOMAIN s.rows : s.rows[i].code # code
    /\ Len(s.rows) < MaxRows
    /\ Edit(Append(s.rows, Editable(RowFor(code))))

Drop(i) == Edit(RemoveAt(s.rows, i))

MakeDefault(i) == Edit(<<s.rows[i]>> \o RemoveAt(s.rows, i))

Update(i, row) == Edit([s.rows EXCEPT ![i] = [row EXCEPT !.edited = TRUE]])

UpdateRow(i) ==
    LET row == s.rows[i]
    IN  \/ \E id \in ToSet(SpelledAs(row.code, "stt")) :
              Update(i, [row EXCEPT !.sttLang = id])
        \/ \E id \in ToSet(SpelledAs(row.code, "tts")) :
              Update(i, [row EXCEPT !.ttsLang = id, !.voice = ResolvedVoice(id, @)])
        \/ \E v \in ToSet(VoicesOf(row.ttsLang)) :
              row.custom = "" /\ Update(i, [row EXCEPT !.voice = v])
        \/ \E id \in TypedIds \cup {""} :
              /\ FindProvider(s.rig.provider["tts"]).acceptsVoiceId
              /\ Update(i, [row EXCEPT !.custom = id])

Next ==
    \/ Open \/ SessionsArrive \/ SessionsFail
    \/ s.rig.mode = "pipeline" /\ \E code \in Shared : Add(code)
    \/ \E i \in DOMAIN s.rows : Drop(i) \/ MakeDefault(i) \/ UpdateRow(i)

-----------------------------------------------------------------------------
(* Properties                                                                *)

\* Of any two stacks that can be run and exported, the codes differ: no variant of a
\* model, and no vendor, is lost on the way.
StacksKeptApart ==
    ~s.open =>
      \A k \in ToSet(SpecLegs) :
          \A p, q \in {r \in ToSet(CATALOG) : r.kind = k} :
              \A m \in ToSet(p.models), n \in ToSet(q.models) :
                  MapLeg(k, p.id, m) = MapLeg(k, q.id, n)
                      => MapLeg(k, p.id, m) = NoCounterpart \/ (p.id = q.id /\ m.id = n.id)

\* A row the user has not changed carries the voice that a session of this rig sends
\* for that spelling of the language, a typed id before a listed voice.
RowIsAsSent ==
    \A i \in DOMAIN s.rows :
        ~s.rows[i].edited =>
            ExportedVoice(s.rows[i]) =
                IF Typed # "" THEN Typed ELSE PickedVoiceFor(s.rows[i].ttsLang)

\* A code cites the sessions that measured it and no other: on its legs, under server
\* VAD and this prompt, in the voice of the row whose language they spoke.
CitesItsOwn ==
    Output[1] = "code" =>
        LET code == Output[2]
        IN  code.provenance.sessions =
                {e \in (IF s.sessions = "read" THEN Recorded ELSE {}) :
                    \E row \in ToSet(s.rows) :
                        /\ [e EXCEPT !.ttsLang = row.ttsLang] = SessionOf(row)
                        /\ Normalise(e.ttsLang) = row.code}

\* When the dialog opens on a rig whose vendors can be exported and whose languages
\* are one that both legs list, nothing has to be put right by hand.
OpensReady ==
    /\ s.open /\ s.edits = 0
    /\ s.rig.mode = "pipeline" /\ s.bench.detection = "server_vad"
    /\ \A k \in ToSet(SpecLegs) : ~LegBlocked(k)
    /\ Normalise(s.rig.language["tts"]) \in Shared
    => ~Blocked

\* The rows are of different languages, each as some leg lists it, whatever was added,
\* dropped or made the default.
RowsAreDistinct ==
    \A i, j \in DOMAIN s.rows : s.rows[i].code = s.rows[j].code => i = j
=============================================================================
