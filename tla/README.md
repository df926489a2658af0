# GrindleWall: a TLA+ model of the voice bench

GrindleWall compares voice stacks. A browser streams microphone audio over a
WebSocket to a Node backend, which runs it through a speech-to-text vendor, a
language model and a text-to-speech vendor (or one speech-to-speech vendor),
streams the answer back, times every leg, bills every turn and keeps a record
and a stereo recording of every conversation. Its claims are about numbers: a
turn that is billed twice, from an estimate when the vendor did report, or not
at all, is a wrong result of the bench, and so is a latency that belongs to
another turn or a report that belongs to another rig. This directory models the
parts of the code that decide whether the numbers are right.

Paths below are relative to `src/`; `B` is `backend/src`, `F` is `frontend/src`.

## 1. The system

Everything on the server runs on one Node event loop, and the page on another.
Nothing is preempted: the interleavings are those of callbacks (vendor sockets,
timers, file operations), of message handlers, and of the code before and after
an `await`. The `ws` library does not serialise async message handlers, so two
messages of one socket interleave at every `await`.

| Component | State it keeps | Operations | Hard behaviour | Module |
|---|---|---|---|---|
| Pipeline session `B/pipeline/PipelineSession.ts` | the open turn, STT/TTS/LLM handles, history, audio not yet billed | start, pushAudio, commitAudio, sendText, interrupt, close; callbacks of three vendors; a grace timer | barge-in, late and synchronous callbacks, the two awaits of `open()`, one usage report per turn | `PipelineSession`, `TurnBilling` |
| LLM adapters `B/providers/llm` | one streamed response; the counts so far | stream, abort; the request and the counts | order of error, counts and end; aborts out of a callback; two names for one count | `LlmStream`, `LlmWire` |
| TTS adapters `B/providers/tts` | one socket, or a queue of requests, per turn | open, pushText, flush, cancel | text before the handshake, an end that is told twice or never, what is billed of a cancelled request | `SocketTts`, `MurfHttpTts`, `GeminiTts`, `MockTts` |
| STT adapters `B/providers/stt`, `B/audio/vad.ts` | one socket; text banked for a final; a detector | open, push, finalize, close | who ends an utterance; a socket that dies in one | `GeminiStt`, `CartesiaStt`, `SarvamStt`, `VendorSocket`, `SpeechEnd` |
| OpenAI realtime `B/providers/realtime/OpenAiRealtimeProvider.ts` | turns and responses in flight | as VoiceSession | responses correlated by the vendor; the handshake | `OpenAiRealtime` |
| Nova Sonic `B/providers/realtime/NovaSonicProvider.ts` | turns by completion; a queue of events | as VoiceSession | a completion announced seconds late, usage of old turns, a close that waits | `NovaSonic`, `NovaTransport` |
| Mock realtime `B/providers/realtime/MockRealtimeProvider.ts` | a pump of frames | as VoiceSession | two pumps at once | `MockRealtime` |
| Turn metrics `B/metrics/TurnMetrics.ts`; bands `F/lib/legs.ts` | marks of one turn | mark, finish | marks repeated by the vendor; marks out of order | `TurnMetrics` |
| Session socket `B/server/session-socket.ts`, drain in `B/index.ts` | session, ledger, recorder of one WebSocket | start, end_conversation, stop, start_recording, audio; close; SIGTERM | overlapping handlers, shared closures, restart over a live conversation | `SessionSocket` |
| Session recorder `B/audio/SessionRecorder.ts` | two channels (file, head, chain of operations), flags | start, writeMic, writeAssistant, interrupt, stop | writes that do not await, stop during start, the cap, partial failure | `SessionRecorder` |
| Session store `B/store/SessionStore.ts` | chain of saves, init promise, index cache | save, list, get, prune, sweep | serialisation, atomic rename, prune across awaits, crashes | `SessionStore` |
| Recording route `B/index.ts` | one response | GET with a range | seeking, a reader that leaves, a file that fails | `RecordingRoute` |
| Ledger, rates `B/pricing`; `F/lib/stats.ts` | turns of one conversation | record, noteLatency, summary; priceLeg | overlapping counts, dated steps, order of turns, two copies of one statistic | `Pricing`, `Factory`, `UsageLedger` |
| Auth `B/auth.ts`, `F/hooks/useAuth.ts` | tokens and their expiry; the page's session | login, check, logout; timer, other tabs | expiry against use, late answers | `AuthGate` |
| Catalog, factory `B/providers/{catalog,factory}.ts` | tables | look-up, readiness, createSession | page and server reading one table by different rules | `Catalog`, `Factory` |
| Voice session hook `F/hooks/useVoiceSession.ts`, audio `F/audio` | connection, player, microphone | connect, start and stop mic, end, disconnect | stale sockets after an await, the end timer against the summary, a prompt answered late | `VoiceSession`, `ClientTtfa` |
| Rigs `F/lib/{rigs,catalog}.ts` | a saved provider combination | edits, restore | a catalog that has changed since | `Rigs` |
| Export `F/lib/voice-stack`, `CreateCodeDialog.tsx` | rows of a voice stack | add, save, open | two vendors' spellings of a language or a model | `VoiceStackExport` |
| Bench and Runs pages `F/App.tsx`, `F/components/ComparePage.tsx` | rigs, scores, reports; listing, records, selection | connect, edit; refresh, filter, select | results of an earlier conversation, answers out of order | `Bench`, `RunsPage`, `Comparison` |

How they interact: the browser hook sends messages to the session socket; the
socket creates a session through the factory and hands it one `events` object;
the session calls back with audio, events and usage; the socket writes audio to
the recorder, usage to the ledger, and the ledger's summary to the store after
every turn and at the end. The recorder's WAV lies beside the store's JSON under
the same id, and the store prunes both. A pipeline session owns one stream of
each kind of adapter.

What makes each part correct:

* pipeline: audio is billed once, a turn is billed once and from the vendor's
  counts if there are any, its events pair up, nobody else speaks during it,
  nothing is reported after the record is filed, and every turn ends;
* adapters: what was handed in reaches the vendor in order and once, an answer or
  an utterance ends once, what is billed is what was sent or counted, and a
  cancelled stream is silent;
* realtime sessions: a response is billed on one turn, its sound is heard in that
  turn only, and what was begun is ended and billed however the session ends;
* socket: a session, its bill, its record and its recording belong to one
  conversation, and none of them outlives it or is lost with it;
* recorder: each side is heard where it was said, the cap holds, and files are
  released on every path;
* store: what was saved stays saved, the cap deletes the oldest and only those,
  and the index tells what the files say;
* money: each token is priced once, a row has a cost or a reason, totals are the
  sums of the turns, in any order;
* pages: a number, a colour, a verdict or a report is that of the run it stands
  beside, the microphone can be stopped, and a rig that is shown as ready is one
  the server takes.

## 2. Modules

A definition `X_Y` that stands before a definition `X` and starts with
"Mutant:" is a plausible bug in `X`; it is not part of the specification and is
used to see that a property would notice.

Every state machine keeps one record (`s` in nearly all modules) with a field
for each variable of the code that matters. A private method is an operator from a
state to a state with the method's name, and an action is the chain of methods
that one call, message or callback runs, so a handler is one step as it is in the
code; a function is split at its `await`s and nowhere else. Integers that only
grow are bounded in the guards, by the constants whose comment says "bound".

### PipelineSession, TurnBilling

`runTurn()` and `start()` are split at their `await`. The vendors' streams are
fields of `s` (`tts`, `llm`): which callbacks a stream may still make follows from
what has been called on it. Text, tokens and characters are abstracted to one
question, from which source a turn is billed. Audio is counted in units. Vendor
behaviour that differs between providers is open or chosen by constants:

* a broken LLM stream reports its counts before its error (Anthropic,
  `CountsThenError`) or after it (OpenAI, Gemini, `ErrorThenCounts`): `LlmFails` may
  do either, at every call;
* `AbortedLlmReports`: an aborted LLM may still call back. No provider does; the
  session is checked against it all the same, because it guards against it;
* `OneShotTts`: flush() of a stream without text ends it before it returns.

`TurnBilling` is the abstract specification, a meter with four variables: audio
owed, audio paid, the turn that runs and the ids billed. `PipelineSession!Billing`
instantiates it with audio waiting or held as owed.

### SessionSocket

A message handler that sleeps in an `await` is a task in one of `MaxHandlers`
slots, with its local variables (`conv`, the summary it has computed); `finish()`
has a slot of its own because it is memoised. A conversation is the number of the
session, ledger, recorder and record that one `start` creates: reading `ledger`
where the code's closure reads a variable that another handler may have replaced
is then visible as a wrong number. A session's `close()` resolves at once (pipeline,
OpenAI) or awaits its vendor and may report usage then (`AwaitVendor`,
`VendorClosed`, Nova Sonic). The recorder and the store appear with the steps that
decide who runs when; their own modules have the rest.

Assumptions: a client waits for the answer to `start` before it sends the next
message, and does not send `end_conversation` after `stop`. A stop, the closing of the
socket and SIGTERM come at any time. One variable is history: `crossed`, whether one of
them (or an `end_conversation`) came while a handler waited for a vendor to drain, or in
the middle of a restart.

### SessionRecorder

Time and positions are counted in samples; a sample is the number of the chunk it
came in, or silence. `WriteChunk` and `Interrupt` are synchronous as in the code
and append to a channel's chain; `OpDone` and `OpFails` are the chain's next file
operation. `start()` is split at mkdir and at the two opens, `stop()` at the wait
for both chains, each of the three opens of `interleave()`, every single `read()`
of `readFully()` (which may return less than asked), every block written, rename
and clean-up. Each of these may fail, one of the two opens of `start()` as well as
both, except close and unlink. Three variables are history: `heard` is what a channel ought to carry (a chunk never replaces
what is there, an interrupt removes what lies after the clock), `ahead` what was
accepted since the last cut, `faults` whether any file operation failed.

### SessionStore

`queue` and `job` are the chain of saves and the save that runs; `lists` are the
listing prune() makes and one that list() makes at the same time, file by file
(stat, then read unless the index can be used); `ready` is the init promise. A
record's content is the number of the save that wrote it. `Crash` empties memory
and keeps the directory. Either unlink of prune() may fail, and is swallowed, the one
of the WAV after the record is gone (`UnlinkWavFails`); `stray` is history, the WAVs
that such a failure or a crash has left. The conversations that use the store follow
`SessionSocket`: saves while live, then the WAV, then the last save. Two writes of
a file never have the same mtime and size: with equal ones the index could be
stale until the next write, and the module does not cover that.

### OpenAiRealtime

`out` and `inbox` are the frames in flight in either direction, and `vendor` is
what the handlers and their comments say of the other side: it answers in order,
generates one response at a time, always sends `response.done` (with counts or
without), cancels on request and, with its own turn detection, when the user
speaks. A refused request is answered by an error that changes nothing, so only
the error that refuses the configuration is a frame. Client calls may come while
`start()` waits, because `session-socket` assigns the session before it awaits.
The module does not refine `TurnBilling`: here a turn ends first and is billed
when its counts arrive. Audio is counted in deltas; transcripts, metrics and
frames without a response id are left out.

### NovaSonic, NovaTransport, MockRealtime

`NovaSonic` is the session: turns opened by the local detector or a text, bound to a
completion when the vendor announces it, completions that end, barge-ins, usage events
that name any completion, stream errors, and close(). The vendor may open a completion
at any time, sends sound and usage of any completion it has announced, and ends each at
most once. Whether it labels its events (`labelled`) and whether sound has ever come
before the announcement of its completion (`early`) is part of its state: what needs a
vendor that keeps to the protocol is stated for those that do (`InOrder`), and the rest
for any. `NovaTransport` is the input half: the event queue, the generator the SDK
pulls, the write that is signed later, and an endInput() that races the writes against
half a second. `MockRealtime` has both timers of the mock, including the pump that
respond() over a live answer leaves running.

### The adapters

`VendorSocket` is what the `ws` package does as far as the adapters rely on it; it
is the one external module. `SocketTts` is one module for the four TTS adapters
over a socket: they are one protocol, and the state says which adapter it is where
they differ. `MurfHttpTts`, `GeminiTts` and `MockTts` have protocols of their own.
`GeminiStt`, `CartesiaStt` and `SarvamStt` differ in who ends an utterance: a
timer, an acknowledgement, or the vendor. The frame that asks for an end is on the
modelled wire beside the audio: Gemini's `audioStreamEnd` goes past the handshake queue,
Sarvam's is dropped until the socket is open. `asked` is history, what the session asked
to send, with what of it came before `open` and before the acknowledgement. `SpeechEnd` is the detector for vendors
without one. `LlmStream` is the reading of a streamed response, one event a step;
`LlmWire` what is asked (the conversation in the form each vendor takes, the knobs
of the request) and what the counts of the answer are turned into.

### Money and figures

`Pricing` is `rates.ts` as operators over a table that is a parameter (`Factory` has
the table that is shipped), `UsageLedger` the turns of a conversation, the rows they
add up to, the latency figures, and the page's copy of these (`stats.ts`).
`TurnMetrics` is the stop watch of a turn with the bands the page draws of it.
Amounts are whole numbers of a small unit; rounding and the second currency, which
is a factor, are left out.

### Catalog, Factory, Rigs, VoiceStackExport

`Catalog` is the shipped catalog, its long lists cut to what the rules tell apart.
`Factory` puts a saved rig through every rule that reads it: what the page marks as
missing, what the factory refuses, what price its legs have, and the command line
that is offered to repeat it. `Rigs` edits, saves and restores a rig against two
catalogs that disagree. `VoiceStackExport` is the dialog that turns rigs into rows
of a voice stack.

### The page

`VoiceSession` is the hook: connections, recorders and the promises it sleeps in,
against a server that admits, refuses, answers and drops, and a user who answers the
microphone prompt or does not. Two fields are history: `overtook`, whether a disconnect()
that slept has woken while a connect() did, and `madeFor`, the socket a recorder was made
on. `ClientTtfa` is the clock between a turn's
transcript and its first audible sample. `AuthGate` composes the page's session, other
tabs and the server's book of tokens. `RunsPage` has the requests of the Runs page,
`Comparison` what it makes of the answers, `Bench` the rigs, scores and reports of the
bench page.

### Instances

The runs of the pipeline, the recorder, the socket, the store, the two realtime
sessions and the page's hook name the specification itself, as their `.cfg` files give
all there is to give. `MCParts` instantiates the twenty-six machines that share no
state side by side: `part` names the one at work. What several parts
promise alike (what is handed in stays in order, an end comes once, a cancelled
stream is silent, what is owed comes) is then one property with a case per part,
and one run asks it of all of them. Each part is explored through all of its own
states; the number of states is the sum over the parts and not their product.

## 3. What TLC checks

"Bounds" says what the instance is; the numbers of distinct states are TLC's.

| Run | Bounds | Result |
|---|---|---|
| `pipeline_safety` | 3 turns, 4 units of audio, vendors as the adapters are, in either order of error and counts | 1,013,572 states, holds |
| `socket_safety` | 2 conversations of up to 2 turns, 2 handlers | 3,462,020 states, holds |
| `socket_recording` | 1 conversation of 1 turn, 2 handlers at once, socket may close at any time | `RecordingKept` violated |
| `socket_orphan` | the same with 2 conversations | `ClosedSocketHoldsNothing` violated |
| `recorder_safety` | 3 chunks of one or two samples, cap 4 of 5 configured, blocks of 2, clock to 3; fairness | 391,393 states, holds |
| `store_safety` | 2 conversations of 2 saves, cap 1, one listing beside those of prune, one crash or failure; fairness | 360,438 states, holds |
| `realtime_safety` | 3 turns, 2 responses of one unit of audio; fairness | 696,551 states, holds |
| `realtime_truncate` | 2 turns, 2 responses of two units | `TruncateWithinItem` violated |
| `nova_safety` | 3 turns, 2 completions of one usage event | 806,444 states, holds |
| `page_safety` | 3 connections, 1 recorder | 520,287 states, holds |
| `parts` | the sizes in `parts.cfg` and `MCParts`; fairness | 1,254,735 states, holds |
| `browser_mic` | 1 connection, 2 recorders | `MicIsStoppable` violated |

Why the bounds are enough. Three turns are what it takes for a late callback of
the first to arrive while the third is open behind a second that was abandoned;
audio enough for one unit per turn and one for the tail reaches each branch of
the minimum tail. Two conversations and two handlers besides `finish()` are the
least with which a handler of the old conversation resumes in the new one while a
third closes the socket. With a cap of 4 samples and blocks of 2 a recording has
one, one and a half or two blocks, ends on, before and past the cap, and has a
gap, a backlog and a cut on either side of a block's edge. In the store two
records and a cap of one make every second save delete something, and two saves
of each show an older snapshot landing last; one fault at any point covers each
single crash and each single failing operation, but not two in one history. Two
responses and three turns let a response be created after its turn was cut
off and replaced, be bound to the next turn, and push the response after it onto
a turn of its own.

A third turn of Nova is the one that a late completion of the first would be bound to
by mistake while the second is still owed. Three connections are what it takes for a
disconnect of the first to wake while the second connects and the third is clicked: with
two, `NoOrphanSocket` holds.

In `parts`: three texts or frames let one be sent, one wait in the queue and one
come too late; a queue of two overflows with three. Two completions of two turns
of Nova are the least with which late sound of the first meets the second. Two
connections and two recorders of the page are an old one and a new one. The ledger
takes three calls from ten kinds of legs on either side of a dated step. `Factory`
starts from every leg of every provider and model of the shipped catalog, from the
server with all keys, none, and each key missing; `RecordingRoute` from every range
of numbers to 4 on files of up to 3 bytes; `LlmWire` from conversations of three
questions, answered, interrupted or failed. Four records with one of each kind of
figure, and two listings, are on disk for the Runs page; with two colours a third
selected run has to take one again. These small worlds do not speak of quantities
(a queue of 300 frames is a queue of two), only of orders of events.

What the properties say, by run (the comment above each gives it in full):

* `pipeline_safety`: `AudioConserved` (audio sent is pending, held or billed),
  `BilledOnce`, `EventsPaired` (turn_start and turn_end), `OneVoice` (a live vendor
  stream belongs to the turn that speaks and can be stopped), `VendorCountsBilled` (a
  turn whose counts were reported is billed from them, unless its LLM broke with the
  error first; finding 5),
  `ClosedIsSettled`, `HistoryCoherent` (an answer stands behind its question) and
  `ImplementsBilling` (refinement of `TurnBilling`). The last two are proved for
  vendors that call back late as well, and `parts` has such vendors.
* `socket_safety`: `NoOrphanSession`, `UsageInOwnLedger` (no turn in a foreign bill; a
  turn is lost from its own only once something crossed a drain or a restart; finding
  6), `AllTurnsFiled`, `SummaryIsFinal` (at most one summary, with all turns),
  `RecordersAreClosed`
  (stated where nothing runs any more: each wake-up stays enabled until it is taken,
  so a handler that is fair to the disk gets there).
* `recorder_safety`: `WavFaithful` (both channels, sample for sample), `CapHolds`,
  `LatenessBounded` (a barge-in displaces nothing later), `AllReleased` (no handle and
  no temp file stays, but those of a `Lone` channel, finding 7), `StopSettles`
  (liveness).
* `store_safety`: `ResolvedSavesLast` (durability across crash, failure and
  prune), `CapHolds` (records, and recordings but those the disk would not delete or a
  crash left, finding 8), `IndexIsFresh`, `SavesSettle` (liveness).
* `realtime_safety`: `EventsPaired`, `OwedIsAwaited` (the list of unbilled turns is
  exact, and empty at the end), `RanIsBilled` (a response the session saw is on one
  row, whichever turn it was bound to), `ClosedIsSilent`, `StartSettles` (liveness).
* `nova_safety`: `CompletionsKeptApart` (sound and tokens stay with their completion,
  one turn each, and no usage event of a running completion is lost), `RanIsBilled` (a
  session that is over has ended every turn once and billed those that ran).
* `page_safety`: `SpokenIsRecorded` (of every recorder whose frames a session hears, also
  one that was let go of while it was hot, its server was told to record; but for one
  that was let go of and was made for an earlier socket, which is finding 4 carried into
  the next conversation),
  `SocketIsHeld` (an open socket is the one the page holds, unless a disconnect has
  overtaken a connect; `NoOrphanSocket` is the statement without the condition).
* `parts`:
  `StreamsInOrder` (STT, TTS, Nova's queue; in STT with the ends of utterances, of which
  those asked for in a handshake are treated as finding 9 says; the detector hears each
  end of speech once;
  an answer stands behind its question in the pipeline, whole and in the vendor's form
  in the request), `EndsOnce` (spoken and written answers; and each answer of the
  recording route has the bytes that were asked for and keeps no descriptor),
  `BilledAsSent` (adapters; rows and totals of the ledger; tokens in one class
  each; a rate for every leg the factory can build; counts contained in each other),
  `QuietAfterCancel` (every stream and session),
  `TtfaIsOwn` (the page's clock, the stop watch and its bands, the ledger's ranks),
  `PageIsCurrent` (Runs page, verdicts and colours, bench; findings 10 to 13 are in it
  as what may happen, and nothing else of the kind may),
  `RigIsValid` (rigs, factory, command line, export, requests), and
  `AllSettle` (liveness: whatever a part owes comes), with one type invariant.

The type invariants of `PipelineSession`, `OpenAiRealtime`, `SessionSocket`,
`SessionStore`, `NovaSonic` and `VoiceSession` are proved, and the recorder's types are
part of its proved invariant; those of the first sixteen parts are in `TypeOK` of
`MCParts`. The parts that evaluate rules over data have properties that name every field
that matters, and no run is spent on their types.

Deadlock is not checked: a session that was closed, a recorder that was stopped
and a process that exited do stop.

### Fairness

* Timers fire (`Timers`, `DrainTimeouts`): Node and the browser run a due timer. The
  timers are fair as a disjunction: a behaviour is of one part, whose bounds limit how
  often a timer can be armed again, so none can hold up another for ever.
* Pipeline in `parts`: vendors answer a call that is open (`VendorsAnswer`): every
  adapter ends a stream by its end, an error or the closing of its connection. This
  is weak fairness of the union of the answers with the enabling condition written
  out (`SomeAnswerDue`), which TLC evaluates much faster than ENABLED. The union is
  enough because each answer is given at most once per call and calls are bounded
  by turns.
* Nova: promises of the transport resolve or time out, and the SDK pulls and writes
  what is queued while the stream is up. Nothing is assumed of the vendor.
* OpenAI realtime: the handshake timer fires. Nothing is assumed of the vendor.
* Recorder, store, recording route: a file operation that was asked for completes or
  fails, and a response that drains is told so. In the store, `SavesSettle` does not
  assume that other listings end.
* Nothing is assumed of a client or a user anywhere: no message, click, answer to a
  prompt, close or signal is ever bound to come.

### Findings

The first four are runs whose property quotes the repository; `PROJECT.json` has the
quotes.

1. `socket_recording`. Start, record, `end_conversation` (awaiting `rec.stop()`),
   `stop`: the second handler finds no recorder, files the record and clears the
   ledger; the first resumes, sees no ledger, takes the conversation for empty and
   deletes its WAV. The browser's Disconnect sends `stop` and closes the socket at
   once, which is the same race.
2. `socket_orphan`. A `start` over a live conversation with a recording is in
   `rec.stop()`, the socket closes and `finish()` runs to its end; the start resumes
   and creates a session that nothing will close.
3. `realtime_truncate`. A text typed while an answer is still arriving opens a turn
   without a response id. Until its own `response.created` comes, `ownerOf()` takes
   the old answer's audio for it: it is played and counted there. A barge-in then
   sends `truncate` with the audio of both answers for the item of the second,
   more than the vendor made of it.
4. `browser_mic`. The user presses the microphone button, the prompt is up, the
   socket closes: stopMic() stops a recorder that has nothing yet and lets go of it.
   The prompt is answered, the microphone is live, and the page holds no recorder.

The others are what a property has to say to hold: each is reached in the run named, and
the property allows it, where it says when it happens, and nothing beyond. Taking the
exception out of the property shows the trace.

5. `VendorCountsBilled` (`pipeline_safety`). OpenAI's and Gemini's LLM providers raise
   `onError` before they report counts they already have
   (`OpenAiLlmProvider.ts:216-222`, `GeminiLlmProvider.ts:161-167`). Turn starts, LLM
   fails before any text, `onError` flushes a TTS that ends at once, the turn is billed
   from the estimate, the counts arrive. Anthropic's provider has a comment that calls
   exactly this order a billing bug.
6. `UsageInOwnLedger` (`socket_safety`). A Nova session's last usage is lost on
   Disconnect, which sends `stop` and closes the socket: the close() of the session waits
   for its vendor, a second close() resolves at once, `finish()` drops the ledger, and
   the flush reports to a closure without a ledger (`NovaSonicProvider.ts:831-861`). The
   comment at `session-socket.ts:82-83` says that it "must not vanish"; it is logged, and
   neither billed nor filed.
7. `AllReleased` (`recorder_safety`). `start()` opens two files with `Promise.all`; if
   one fails, the other's handle and temp file stay (`SessionRecorder.ts:169-172`).
   `interleave()` avoids this on purpose and says why.
8. `CapHolds` (`store_safety`). prune() deletes the record, then the WAV, and swallows a
   failure of the second: the WAV has no record then, no prune sees it again, and it
   counts against no cap. `SessionStore.ts:64-68` says that leaving the WAV "would
   quietly turn the cap into a no-op". A crash between the two does the same.
9. `StreamsInOrder` (`parts`). Gemini's `audioStreamEnd` (`GeminiSttProvider.ts:231`) asks
   only whether the socket is open: during the handshake it overtakes the audio it ends,
   which waits for `setupComplete`, and before `open` it is lost. Sarvam's finalize()
   returns before the socket is open (`SarvamSttProvider.ts:149`), while the audio it
   ends is kept and sent.
10. `PageIsCurrent` (`parts`, Runs page). A record that is on its way at a refresh lands
    after it as it was before and is not fetched again, though
    `ComparePage.tsx:213-218` has the refresh discard what is stale.
11. The same, verdicts. Where no selected run has a first-audio figure the first is called
    fastest (`ComparePage.tsx:886`, `undefined === undefined`).
12. The same, preselection. The page selects runs which a filter it was left with hides;
    `ComparePage.tsx:227-229` says why it should not.
13. The same, bench. An error of the server unlocks the rig and leaves the socket attached,
    as does the end of the wait for the bill: the rig can be edited or deleted, and later
    turns land on it. `App.tsx:97-98` says that a live session pins its rig because
    "swapping config under an open socket would attribute the numbers to a combination
    that never produced them".
14. `SocketIsHeld` (`page_safety`). Disconnect waits for the microphone to stop, the socket
    drops, and the user connects again. While that connect() waits for the audio device,
    disconnect() wakes and sets the page to `idle`, which gives the Connect button back: a
    second click in that wait opens a second socket over the first, and the first stays,
    with a session nobody can close. `BenchView.tsx` disables the button against just
    that. `NoOrphanSocket` is the property without the exception; with two connections it
    holds: it was the attempt to prove it for any number that showed the third.

Seen while reading or checking, and not run, because a run would say what the line
says:

* Socket and process: `drainLiveSockets()` waits for `finish()` only, so a recording
  that another handler is finalizing is cut off by `process.exit()`
  (`session-socket.ts:27`). The catch of a failed `start` can leave a WAV without a
  record (`session-socket.ts:223-231`).
* Recorder: audio ahead of the clock when the cap was reached is no longer cut by a
  barge-in (`SessionRecorder.ts:222`).
* Recording route: a client that leaves while stat() is awaited has closed before
  sendFile() listens; the stream is created for a dead response, pauses at the first
  write, and keeps its descriptor (`index.ts:166,200`). `NoDescriptorLeft` is stated
  for responses somebody listens to.
* Pipeline: a barge-in aborts the LLM and then waits out the grace period for counts
  an aborted LLM never reports.
* OpenAI realtime: a `response.created` after a barge-in is bound to the next turn, or
  opens one (`OpenAiRealtimeProvider.ts:616`); a text sent while `start()` waits opens
  a turn that `settle()` does not end when the handshake fails (`:778`); a
  `response.done` sent twice would bill a turn that is not its own (`:730`).
* Nova: sound before its `completionStart` would be heard in the turn before; `start()`
  arms its timers after a close() during the handshake; a start that fails leaves a
  typed turn unbilled; a FINAL block clears a whole draft.
* Adapters: Cartesia's STT has neither a fallback timer nor a salvage when its
  socket dies; texts pushed
  between a close frame and the close event are dropped; sound or an error may be
  reported after `onDone` by some; `GeminiTts` bills all text once it was asked for
  where `MurfTts` takes a refused segment back; an LLM without a key reports
  `onError` and no `onDone`; a last SSE event without a blank line is dropped; the mock
  has two pumps when a text comes over a live answer.
* Page: a second close() of an audio context rejects, so an end during a pending
  stopMic() never arms its timer; the end timer of one conversation may fire in the
  next; the continuation of an old disconnect can detach a new connection;
  scores are not cleared by an edit.
* Auth: a backend that was down when the page loaded leads to a login page where
  signIn() throws; a late 401 of an old token clears a new one.
* Rigs and export: a typed voice id outlives its vendor's catalog; a model id is cut
  at its first `@` by `rateFor()` and at its last by the export; the command line
  omits an empty system prompt, for which `smoke.mjs` has a default of its own.

## 4. What TLAPS proves

For every value of the constants under the assumptions named in the modules
(bounds are naturals, the vendor choices are Booleans, `MinTail` is positive, a
block is not empty, chunk sizes are naturals).

**PipelineSessionProofs.** `Invariance`, `TypeCorrect`, `AudioIsConserved` and
`TurnsAreBilledOnce`: `Spec => []` of `IInv`, `TypeOK`, `AudioConserved` and
`BilledOnce`. None of these is inductive alone. That a turn is billed once
depends on the turn object: an id above the counter is blank, a pending turn is
the newest and has not been reported, a running one is the open one until it is
drained, a drained one has one report, and a timer runs only for a turn that
runs and is not drained. `IInv` says this of every id (`Entry`), of the open turn
(`OpenOk`) and of `speaking` (`Voice`), with conservation of audio beside it
because emitting usage moves audio and id together. The proof follows the
methods: a lemma per private method says that it keeps `Core` or leaves the books
alone (`SameBooks`), and each action cites the methods it calls.

The second part of the module is about the vendors' streams: `EventsArePaired`,
`HistoryIsCoherent`, `ClosedSessionsAreSettled`, `ClosedSessionsAreSilent` and
`LiveStreamsAreHeld`, without an assumption on the vendors; `OneVoiceOnly` where an
aborted LLM is silent, which all shipped adapters are, and so is `VendorCountsAreBilled`,
for either order of error and counts: the exception that finding 5 is about is in the
property. The invariant `VInv` adds to
`IInv`: `Lines` (the session holds one pair of streams, for the turn that speaks, and
every live stream is one it holds), `Events` (a turn that started has ended, but for the
one that speaks), `Talk` (while the open turn's LLM has not ended, its question is the
last word of the history), `Counts`, and `Shut` for close(). They are one invariant
because each needs the others: a late callback does nothing since its stream is not live
(`Lines`), a turn ends once since only a speaking turn has streams that end it
(`Events`), an answer lands behind its question since nothing else was said meanwhile
(`Talk`). The methods that only bill are one kind (`Meter`), what interrupt() and
finishTurn() do to the streams another (`Hush`), so an action cites few facts.

The third is the refinement: `SessionImplementsBilling`, `Spec => ImplementsBilling`: the
session is the meter of `TurnBilling` under the mapping of `PipelineSession!Billing`.
An action runs callbacks inside callbacks (a flush that ends the turn, a barge-in that
bills one turn and opens the next), and all of it has to be one step of the meter.
Since audio is conserved, what a step does to the owed audio follows from what it
bills; so each method says what it bills and whether the turn still runs, the actions
put these together, and each comes out as one of idle, hear, start, settle or close
out (`MeterStep`).

**SessionRecorderProofs.** `CapIsKept`, `LatenessIsBounded`, `FilesAreReleased` and
`WavIsFaithful`. `CapHolds` says of heads, files and queued operations that they fit; to
be inductive it needs their types and nothing else, but the queue must be in it: the
file grows by what was queued when the clock stood elsewhere. An interrupt moves a head
back to a clock that is below it, hence below the cap. Lateness is inductive with the
type of `ahead`.

Which handles and temp files there are follows from how far start() and stop() are
(`Phases`, `Disk`). `FilesAreReleased` (`AllReleased`) has no condition: when both have
settled, what is left is exactly what a channel holds that opened in a start() that
failed on the other one (`Lone`, finding 7), and there is none unless an open failed.

`WavIsFaithful` (`WavFaithful`) has no condition: any cap, block size and chunk sizes,
any sequence of short reads. A chain of operations determines what its file will carry
at a position: the effect of the last one that touches it (`Says`). `Lands` says that
this is what was heard there, as long as no operation failed; it is kept by one more
write or cut at the end of a chain (`SaysAppend`) and by performing its first
(`SaysTail`). While a WAV is made nothing else moves (`OnlyStopMoves`), so `Blocks` (each
buffer carries its file as far as it was read, and silence from there on) and `Frames`
(the frames written are the files' samples, block after block) are about files at
rest. A channel that ends inside a block is the case that matters: its buffer is silent
from there because it was blank, and the file is because it has ended. The header is
never refused, since the cap is at most what a header can describe. `Excused` is why
there may be no WAV.

**OpenAiRealtimeProofs.** `TypeCorrect`, `EventsPairUp`, `NothingOwedIsLost` and
`SilentOnceClosed`: `Spec => []` of `TypeOK`, `EventsPaired`, `OwedIsAwaited`, and
`Spec => ClosedIsSilent`, for any number of turns and responses and queues of any
length. The invariant says of every turn id how its phase, its reports and its
place in the list agree (`Entry`), that a session that was closed has no turn open
or owed and that a rejected start has closed it (`Quiet`), and that frames in
flight are well formed (`Wire`): a handler takes the response id from the frame.
`WhatRanIsBilled` (`RanIsBilled`) needs more, the books and the wire together (`BInv`):
a response that was seen is bound to exactly one turn, a bound turn that is billed has
a row for that response, and a turn whose response is done is billed (`Book`,
`Reported`); and the creations and reports in flight are those after the last one
handled, each once and in order (`InOrder`). Without the last, a second creation or a
report of a response never seen would put a response on two turns or none. The order
is what the vendor module says of the other side and what a socket keeps.
Silence follows from `Quiet`: what a closed session can still run finds no active
turn or is dropped by the guard.

**NovaSonicProofs.** `TypesHold` (`TypeOK`, where a turn's events and reports are
counted up to one), `CompletionsStayApart` (`CompletionsKeptApart`), `EveryRunIsBilled`
(`RanIsBilled`) and `SilentOnceGone` (`ClosedIsSilent`), for any number of turns,
completions and usage events. `IInv` has two layers. `Core` says of each turn how its
phase, its events, its bill and its place among the awaited ones agree, and `Over` how a
session ends; they hold whatever the vendor sends, so `RanIsBilled` and silence need
nothing of it. `Books` binds completions to turns: a completion that was seen has exactly
one turn, which has its sound and all of its tokens, and is billed exactly when the
completion is over. It holds only if the vendor labels its events and announces its
completions, since the code gives an unlabelled event to the open turn or else to the
oldest one that is owed: the theorem has that hypothesis and the run has both kinds of
vendor. Among several turns the code takes the oldest, the smallest number of a set, and
that there is one comes from `WellFoundedInduction`. The methods are lemmas that
say what they leave alone (`SameLife`, `SameBooks`, `SameShare`), as in the pipeline.

**VoiceSessionProofs.** `TypesHold`, `SpeechIsRecorded` (`SpokenIsRecorded`) and
`SocketsAreHeld` (`SocketIsHeld`), for any number of connections and recorders. The
inductive invariant `Inv` says that there is at most one socket that lives, the one the
page holds, or else one connect() that sleeps while the page says `connecting` and
offers no second one (`Sole`); that sockets were made one after the other (`Made`); and
that the handlers of the socket the page holds are in place, and its server knows of the
recorder the page holds (`Heard`) and of each that was made on it, held or not (`Told`).
`Sole` fails when a disconnect() wakes while a connect() sleeps: that is finding 14, and
the reason for the condition `~overtook`. `Heard` and `Told` need no condition; what they
leave out is a recorder that was let go of on an earlier socket.

**PricingProofs.** `SplitIsExact`, `CostOrReason` and `CacheNeverDearer`, about the
operators of `Pricing` for all counts and all tables of rates, where the run has ten
legs. The vendor says how many tokens were cached and how many were audio, and not
always how many were both: `SplitIsExact` says that whatever it says, if it does not
contradict itself, the four classes add up to the totals. The step that needs care
is that what the text cannot hold of the cached tokens fits into the audio, which
follows from the totals. `CostOrReason` needs only that rates are not negative.
`CacheNeverDearer` is about `Amount`, in text and in speech: where cached text is no dearer
than text and cached audio no dearer than audio, a cache never makes a leg dearer. Both
conditions are needed, and the split too: priced by what the vendor says of the cached
audio alone, cached turns were once billed dearer (`rates.ts:715-721`).

**SessionStoreProofs.** `StoreIsTyped`, `ResolvedSavesStay`, `TheCapHolds` and
`IndexStaysFresh`, for any number of conversations, saves, listings, crashes and
failures, and any cap. `SInv` says which step of a listing and of prune() goes with
which step of the save that runs (`Stage`); that a save which has not been renamed yet
is ahead of everything known of its record: the file, the cache's stamp, and the
stamps a listing holds (`Order`, by way of `Ahead`); and that while prune() deletes, each
of its victims has `Cap` newer records that it will leave (`Pruning`), whence a record
that is gone was taken by the cap (`Keeping`). Durability then survives a crash because
the statement is about the directory only, and the index is fresh because a rename
never gives a file a stamp the cache has. `TheCapHolds` needs the same of recordings: a
WAV without a record is one whose last save is still to come, one prune() is about to
delete, or one of `stray`. The arithmetic of the
stamps and the cardinalities of sets of records are lemmas of their own.

**SessionSocketProofs.** `SocketIsTyped`, `SessionsAreHeld`, `TurnsAreFiled` and
`RecordersEnd` for every behaviour of the socket, for any number of handlers,
conversations and turns; `UsageIsOwn` as well, whose exception is part of the property: a
ledger may lack a turn only once `crossed`, and findings 2 and 6 are behaviours in
which it is. `SummariesAreFinal` is `crossed \/ SummaryIsFinal`: the run checks
`SummaryIsFinal` without that, for two conversations, and the proof has it where nothing
crosses. The invariant `Inv` has one part for what the socket holds (`Held`), one for what
the queue of saves will leave (`Filed`), one for each sleeping handler, by the `await` it
sleeps in: what it may still rely on when it wakes (`Waits`), which two may sleep side by
side (`Beside`), and that each recorder that opens or stops, and each awaited save, has
one handler that sees to it (`Tended`, `Queue`). A handler runs several of the code's
functions between two awaits, and in the middle it is in no slot; so `Base(x, J)` states
the invariant of the handlers in `J`, a wake-up is the step from all slots to all but
one, each function is a lemma about `Base` without the handler that runs, and going to
sleep restores it. `Own` is what holds besides until something crosses a handler that
puts a conversation away.

**Model-checked only.** All liveness, since the prover has neither fairness nor ENABLED:
`StopSettles`, `SavesSettle`, `StartSettles`, `AllSettle`. The other properties of
`MCParts` as they stand there, each a case for each part: of what they gather, the
history of the pipeline, its refinement of the meter, the split of the tokens and the
silence of Nova are proved above, and nothing about the adapters is. What sums and folds
over sequences compute (`RowsAddUp`, `FiguresAreRanks`) would need induction over data,
which the installed provers cannot do.

## 5. What is not modelled, and why

* Text, JSON, SSE and WebSocket framing, wording, logging, rendering, static files:
  I/O or layout.
* Samples: resampling, loudness and encoding (`pcm.ts`) are numeric code without
  state; floating point is out of TLC's reach, so amounts are whole numbers.
* The renewal warning of Nova's eight minutes, transcripts and drafts of text.
* The code an export generates, its checksum and schema; charts.
* A client that sends `start` before the last one was answered; two sockets at once
  (they share the store, which has a module with two conversations, and nothing else).
* `get()` and the fields of an index row; record ids that are not the store's own.
* Failing close() and unlink() of temp files, which the code ignores and the
  sweep is there for. The sweep's age limit leaves the files of a process that is
  restarted at once to a later restart, as its test says it should.
* The self-tests and the render check: programs that drive the code above.

## 6. Where to go on

Modelling, in this order:

1. The hook and the socket composed: `VoiceSession`'s server replaced by
   `SessionSocket`, to carry `RecordingKept` from the button to the disk.
2. The adapters as refinements of the streams that `PipelineSession` assumes, one
   mapping per adapter in place of the common properties of `parts`.
3. Two sockets over one store, with the drain of both.

Proving:

1. The adapters: `EndsOnce` of `SocketTts` and `MurfHttpTts`, by one invariant about what
   a stream may still report.
2. `RecordingRoute`: the bytes that are sent are those that were asked for, for every
   size of file.
3. Liveness, when the prover has it: `AllSettle` of the pipeline first.
