-------------------------------- MODULE Rigs --------------------------------
(***************************************************************************)
(* A rig, the provider combination that is benched: the rules of           *)
(* src/frontend/src/lib/rigs.ts and lib/catalog.ts for changing a part of  *)
(* it, in the order the controls of RigBuilder.tsx allow, and its healing  *)
(* against the catalog when the page is loaded again.  It is saved after   *)
(* each change.                                                            *)
(*                                                                         *)
(* A catalog is a sequence of providers, its order that of the lists on    *)
(* the page.  A list that is not given is empty, and a field that is not   *)
(* set is "".  The four slots of a rig are functions of the kind, where    *)
(* the code has four names.                                                *)
(***************************************************************************)
EXTENDS Naturals, Sequences, SequencesExt

CONSTANTS
    Catalogs,      \* what the backend may offer, from one load to the next
    Renamed,       \* model ids that were renamed: a function, old to new
    TypedIds       \* what the user types into the voice id field

VARIABLES catalog, rig, typedFor

vars == <<catalog, rig, typedFor>>

Kind == {"realtime", "stt", "llm", "tts"}
Unset == ""

-----------------------------------------------------------------------------
(* The catalog                                                               *)

Has(list, id) == \E i \in DOMAIN list : list[i].id = id
Offers(list, id) == \E i \in DOMAIN list : list[i] = id
HeadOr(list) == IF list = <<>> THEN Unset ELSE Head(list)
HeadId(list) == IF list = <<>> THEN Unset ELSE Head(list).id

Entry(list, id) == list[CHOOSE i \in DOMAIN list : list[i].id = id]

\* The model of that id, or the provider's first.
ModelOf(p, id) == IF Has(p.models, id) THEN Entry(p.models, id) ELSE Head(p.models)

LanguagesFor(cat, pid, mid) ==
    IF ~Has(cat, pid) THEN <<>>
    ELSE LET p == Entry(cat, pid)
             own == ModelOf(p, mid).languages
         IN  IF own # <<>> THEN own ELSE p.languages

\* The voices of a language: its own, or the provider's under its name.
Filed(p, language) ==
    IF language.voices # <<>> THEN language.voices
    ELSE IF language.id \in DOMAIN p.voicesByLanguage THEN p.voicesByLanguage[language.id]
    ELSE <<>>

\* Narrowest list wins: the language's voices, the model's, the provider's.  A
\* language the model does not have gives way to its first with voices.
VoicesFor(cat, pid, mid, lid) ==
    IF ~Has(cat, pid) THEN <<>>
    ELSE LET p == Entry(cat, pid)
             m == ModelOf(p, mid)
             voiced == SelectSeq(m.languages, LAMBDA l : Filed(p, l) # <<>>)
             byLanguage ==
                 IF Has(m.languages, lid) THEN Filed(p, Entry(m.languages, lid))
                 ELSE IF voiced # <<>> THEN Filed(p, Head(voiced)) ELSE <<>>
         IN  IF byLanguage # <<>> THEN byLanguage
             ELSE IF m.voices # <<>> THEN m.voices ELSE p.voices

ResolveVoice(cat, pid, mid, lid, voice) ==
    LET voices == VoicesFor(cat, pid, mid, lid)
    IN  IF Offers(voices, voice) THEN voice ELSE HeadOr(voices)

ResolveLanguage(cat, pid, mid, lid) ==
    LET languages == LanguagesFor(cat, pid, mid)
    IN  IF Has(languages, lid) THEN lid ELSE HeadId(languages)

-----------------------------------------------------------------------------
(* The rig                                                                   *)

\* The slot that owns the voice
Owner(x) == IF x.mode = "realtime" THEN "realtime" ELSE "tts"

VoiceOf(cat, x, k) == ResolveVoice(cat, x.provider[k], x.model[k], x.language[k], x.voice)

BlankRig ==
    [mode |-> "pipeline", provider |-> [k \in Kind |-> Unset],
     model |-> [k \in Kind |-> Unset], language |-> [k \in Kind |-> Unset],
     voice |-> Unset, customVoiceId |-> Unset]

OfKind(cat, k) == SelectSeq(cat, LAMBDA p : p.kind = k)

First(cat, k) ==
    LET wired == SelectSeq(OfKind(cat, k), LAMBDA p : p.registered)
    IN  IF wired # <<>> THEN Head(wired).id ELSE HeadId(OfKind(cat, k))

\* pick(): a slot keeps what is known, follows a renamed model, or falls back.
PickProvider(cat, x, k) ==
    IF Has(OfKind(cat, k), x.provider[k]) THEN x.provider[k] ELSE First(cat, k)

PickModel(cat, x, k) ==
    LET models == Entry(cat, PickProvider(cat, x, k)).models
        old == x.model[k]
    IN  IF Has(models, old) THEN old
        ELSE IF old \in DOMAIN Renamed /\ Has(models, Renamed[old]) THEN Renamed[old]
        ELSE HeadId(models)

\* Language settles before voice.
WithDefaults(cat, x) ==
    LET y == [x EXCEPT !.provider = [k \in Kind |-> PickProvider(cat, x, k)],
                       !.model = [k \in Kind |-> PickModel(cat, x, k)]]
        z == [y EXCEPT !.language =
                 [k \in Kind |-> IF k = "llm" THEN Unset
                                 ELSE ResolveLanguage(cat, y.provider[k], y.model[k], @[k])]]
    IN  [z EXCEPT !.voice = VoiceOf(cat, z, Owner(z))]

\* What startConfigOf() sends: a typed id counts only where the vendor takes one.
TypedVoiceId(cat, x) ==
    IF Entry(cat, x.provider[Owner(x)]).acceptsVoiceId THEN x.customVoiceId ELSE Unset

\* The list that a voice id is typed against
Against(x) ==
    LET k == Owner(x) IN [provider |-> x.provider[k], model |-> x.model[k],
                          language |-> x.language[k]]
Stored == [provider |-> Unset, model |-> Unset, language |-> Unset]

-----------------------------------------------------------------------------
Init ==
    /\ catalog \in Catalogs
    /\ rig = WithDefaults(catalog, BlankRig)
    /\ typedFor = Stored

\* A change in the page: the catalog stays.
Change(x) == rig' = x /\ UNCHANGED <<catalog, typedFor>>

\* The legs of the mode are the ones on the page.
Shown(k) == k = "realtime" <=> rig.mode = "realtime"

\* Mutant: the id that was typed is left.
SwitchProvider_KeepsTyped(k, p) ==
    LET m == HeadId(p.models)
        l == HeadId(LanguagesFor(catalog, p.id, m))
        x == [rig EXCEPT !.provider[k] = p.id, !.model[k] = m,
                         !.language[k] = IF k = "llm" THEN Unset ELSE l]
    IN  /\ Shown(k) /\ p.kind = k /\ p.registered
        /\ Change(IF k \in {"stt", "llm"} THEN x
                  ELSE [x EXCEPT !.voice = HeadOr(VoicesFor(catalog, p.id, m, l))])

\* Model, language and voice start over.
SwitchProvider(k, p) ==
    LET m == HeadId(p.models)
        l == HeadId(LanguagesFor(catalog, p.id, m))
        x == [rig EXCEPT !.provider[k] = p.id, !.model[k] = m,
                         !.language[k] = IF k = "llm" THEN Unset ELSE l]
    IN  /\ Shown(k) /\ p.kind = k /\ p.registered
        /\ Change(IF k \in {"stt", "llm"} THEN x
                  ELSE [x EXCEPT !.voice = HeadOr(VoicesFor(catalog, p.id, m, l)),
                                 !.customVoiceId = Unset])

\* The voice has another owner.
SwitchMode(mode) ==
    LET x == [rig EXCEPT !.mode = mode, !.customVoiceId = Unset]
    IN  /\ mode # rig.mode
        /\ Change([x EXCEPT !.voice = VoiceOf(catalog, x, Owner(x))])

\* switchVoicedModel() and switchSttModel(); an LLM's model is only set.
SwitchModel(k, m) ==
    LET x == [rig EXCEPT !.model[k] = m.id]
        y == [x EXCEPT !.language[k] = ResolveLanguage(catalog, x.provider[k], m.id, @)]
    IN  /\ Shown(k)
        /\ Change(CASE k = "llm" -> x
                    [] k = "stt" -> y
                    [] OTHER -> [y EXCEPT !.voice = VoiceOf(catalog, y, k),
                                          !.customVoiceId = Unset])

SwitchLanguage(k, l) ==
    LET x == [rig EXCEPT !.language[k] = l.id]
    IN  /\ Shown(k) /\ k # "llm"
        /\ Change(IF k = "stt" THEN x
                  ELSE [x EXCEPT !.voice = VoiceOf(catalog, x, k), !.customVoiceId = Unset])

\* The picker is disabled while a typed id wins.
PickVoice(v) == TypedVoiceId(catalog, rig) = Unset /\ Change([rig EXCEPT !.voice = v])

TypeVoiceId(id) ==
    /\ Entry(catalog, rig.provider[Owner(rig)]).acceptsVoiceId
    /\ rig' = [rig EXCEPT !.customVoiceId = id]
    /\ typedFor' = Against(rig)
    /\ UNCHANGED catalog

\* The page is loaded again, and the saved rig healed.  A typed id is kept.
Reload ==
    /\ catalog' \in Catalogs
    /\ rig' = WithDefaults(catalog', rig)
    /\ typedFor' = Stored

Shows(k) ==
    LET pid == rig.provider[k]
    IN  \/ \E i \in DOMAIN catalog : SwitchProvider(k, catalog[i])
        \/ \E m \in ToSet(Entry(catalog, pid).models) : SwitchModel(k, m)
        \/ \E l \in ToSet(LanguagesFor(catalog, pid, rig.model[k])) : SwitchLanguage(k, l)

Next ==
    \/ \E k \in Kind : Shows(k)
    \/ \E mode \in {"pipeline", "realtime"} : SwitchMode(mode)
    \/ LET k == Owner(rig)
       IN  \E v \in ToSet(VoicesFor(catalog, rig.provider[k], rig.model[k],
                                    rig.language[k])) : PickVoice(v)
    \/ \E id \in TypedIds \cup {Unset} : TypeVoiceId(id)
    \/ Reload

Spec == Init /\ [][Next]_vars

-----------------------------------------------------------------------------
(* Properties                                                                *)

\* The voice of the list that is sent is one the vendor has for that model and
\* language, after any sequence of changes and across both architectures.
VoiceIsOffered ==
    LET k == Owner(rig)
        voices == VoicesFor(catalog, rig.provider[k], rig.model[k], rig.language[k])
    IN  Offers(voices, rig.voice) \/ (voices = <<>> /\ rig.voice = Unset)

\* A typed id that is sent was typed against the list that is shown, or came with
\* a rig that was restored.
TypedIsCurrent ==
    TypedVoiceId(catalog, rig) # Unset => typedFor \in {Against(rig), Stored}

\* Reloading the page with the same catalog changes nothing of a rig: no slot of it
\* names what the factory would refuse.
RestoredAsSaved == WithDefaults(catalog, rig) = rig
=============================================================================
