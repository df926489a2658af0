-------------------------- MODULE SessionRecorder --------------------------
(***************************************************************************)
(* src/backend/src/audio/SessionRecorder.ts: one conversation's recording. *)
(* Two mono channels are placed on the server's clock, each through its    *)
(* own chain of file operations; stop() waits for both chains and          *)
(* interleaves the two files into a WAV, block by block.                   *)
(*                                                                         *)
(* Time and positions are counted in samples.  A sample is the number of   *)
(* the chunk it came in, or Silence: that is what tells a sample that was  *)
(* kept, displaced, overwritten or repeated from one that was not.         *)
(* close() and unlink() of a temp file are taken to work; every other file *)
(* operation may fail.                                                     *)
(***************************************************************************)
EXTENDS Naturals, Sequences

CONSTANTS
    Minutes,     \* the configured cap (maxMinutes), in samples
    HeaderLimit, \* samples per channel that a 32-bit RIFF size can describe
    Block,       \* INTERLEAVE_SAMPLES
    ChunkBytes,  \* the sizes of a chunk, in bytes
    MaxChunks,   \* bound: chunks written
    MaxNow       \* bound: time passes until then

ASSUME CapAssumption == Minutes \in Nat /\ HeaderLimit \in Nat

ASSUME BlockAssumption == Block \in Nat \ {0} /\ ChunkBytes \subseteq Nat

ASSUME BoundsAssumption ==
    /\ MaxChunks \in Nat
    /\ MaxNow \in Nat

VARIABLES
    now,        \* elapsed()
    phase,      \* how far start() is
    opens,      \* the two opens of start()
    stopped,
    truncated,
    failed,
    chan,       \* this.mic and this.bot
    handles,    \* file handles that are open
    temps,      \* temp files on disk
    final,      \* stop() and its locals
    wav,        \* <recordId>.wav
    chunks,     \* chunks written so far
    heard,      \* the audio each channel should carry: position -> chunk
    ahead,      \* samples accepted on a channel since it was last cut
    faults      \* a file operation has failed

start  == <<phase, opens>>
flags  == <<stopped, truncated, failed>>
disk   == <<handles, temps>>
ghosts == <<chunks, heard, ahead>>
vars   == <<now, start, flags, chan, disk, final, wav, ghosts, faults>>

Channel == {"mic", "bot"}
Silence == 0
Sample  == 0..MaxChunks
NoWav   == [total |-> 0, frames |-> << >>]

Bigger(a, b)  == IF a > b THEN a ELSE b
Smaller(a, b) == IF a < b THEN a ELSE b

MaxSamples == Smaller(Minutes, HeaderLimit)

\* A channel's file after an operation of its chain.  Positions are from 0;
\* what lies between the old end of a file and a write, or a truncate, is a hole.
At(file, p) == IF p < Len(file) THEN file[p + 1] ELSE Silence

Write(file, op) ==
    [i \in 1..Bigger(Len(file), op.at + op.count) |->
        IF op.at < i /\ i <= op.at + op.count THEN op.chunk ELSE At(file, i - 1)]

Truncate(file, op) == [i \in 1..op.at |-> At(file, i - 1)]

Perform(file, op) ==
    IF op.does = "write" THEN Write(file, op) ELSE Truncate(file, op)

Op == [does : {"write", "truncate"}, at : Nat, count : Nat, chunk : Sample]

NewChannel == [held |-> FALSE, head |-> 0, queue |-> << >>, file |-> << >>]

NotStopping ==
    [at |-> "idle", total |-> 0, done |-> 0, side |-> "mic", got |-> 0,
     left |-> << >>, right |-> << >>, frames |-> << >>]

Init ==
    /\ now = 0
    /\ phase = "new"
    /\ opens = [c \in Channel |-> "none"]
    /\ stopped = FALSE /\ truncated = FALSE /\ failed = FALSE
    /\ chan = [c \in Channel |-> NewChannel]
    /\ handles = {} /\ temps = {}
    /\ final = NotStopping
    /\ wav = NoWav
    /\ chunks = 0
    /\ heard = [c \in Channel |-> << >>]
    /\ ahead = [c \in Channel |-> 0]
    /\ faults = FALSE

IsRecording == phase # "new" /\ ~stopped

\* Nothing reads the clock once stop() has been called.
Tick ==
    /\ phase # "new" /\ final.at = "idle"
    /\ now < MaxNow
    /\ now' = now + 1
    /\ UNCHANGED <<start, flags, chan, disk, final, wav, ghosts, faults>>

-----------------------------------------------------------------------------
(* start(): mkdir, then both channels at once *)

Start ==
    /\ phase = "new"
    /\ phase' = "mkdir"
    /\ UNCHANGED <<now, opens, flags, chan, disk, final, wav, ghosts, faults>>

DirectoryMade ==
    /\ phase = "mkdir"
    /\ phase' = "opening"
    /\ opens' = [c \in Channel |-> "pending"]
    /\ UNCHANGED <<now, flags, chan, disk, final, wav, ghosts, faults>>

DirectoryFails ==
    /\ phase = "mkdir"
    /\ phase' = "failed"
    /\ failed' = TRUE /\ stopped' = TRUE /\ faults' = TRUE
    /\ UNCHANGED <<now, opens, truncated, chan, disk, final, wav, ghosts>>

\* The second open to succeed resolves the Promise.all.
ChannelOpens(c) ==
    /\ opens[c] = "pending"
    /\ opens' = [opens EXCEPT ![c] = "open"]
    /\ handles' = handles \cup {c}
    /\ temps' = temps \cup {c}
    /\ LET ready == phase = "opening" /\ \A d \in Channel : opens'[d] = "open"
       IN  /\ phase' = CASE ~ready -> phase
                         [] ready /\ stopped -> "discarding"
                         [] ready /\ ~stopped -> "open"
           /\ chan' = [d \in Channel |->
                          [chan[d] EXCEPT !.held = ready /\ ~stopped]]
    /\ UNCHANGED <<now, flags, final, wav, ghosts, faults>>

\* The first open to fail rejects it: this.mic and this.bot are still undefined.
ChannelFails(c) ==
    /\ opens[c] = "pending"
    /\ opens' = [opens EXCEPT ![c] = "failed"]
    /\ phase' = "failed"
    /\ failed' = TRUE /\ stopped' = TRUE /\ faults' = TRUE
    /\ UNCHANGED <<now, truncated, chan, disk, final, wav, ghosts>>

StartDiscards ==
    /\ phase = "discarding"
    /\ phase' = "discarded"
    /\ handles' = handles \ Channel
    /\ temps' = temps \ Channel
    /\ UNCHANGED <<now, opens, flags, chan, final, wav, ghosts, faults>>

-----------------------------------------------------------------------------
(* writeMic(), writeAssistant(), interrupt(): synchronous, never await *)

Enqueue(c, head, op) ==
    chan' = [chan EXCEPT ![c].head = head,
                         ![c].queue = Append(chan[c].queue, op)]

\* Mutant: the cap is only checked after the write.
Room_Unclamped(at, bytes) == bytes \div 2

\* The whole samples of a chunk that the cap leaves room for.
Room(at, bytes) == Smaller(bytes \div 2, MaxSamples - at)

Place(c) == Bigger(chan[c].head, now)

WriteChunk(c, bytes) ==
    /\ chunks < MaxChunks
    /\ chan[c].held /\ IsRecording /\ bytes \div 2 > 0
    /\ LET at    == Place(c)
           count == Room(at, bytes)
           id    == chunks + 1
       IN  IF at >= MaxSamples
           THEN /\ stopped' = TRUE /\ truncated' = TRUE
                /\ UNCHANGED <<chan, ghosts>>
           ELSE /\ Enqueue(c, at + count,
                       [does |-> "write", at |-> at, count |-> count, chunk |-> id])
                /\ stopped' = (at + count >= MaxSamples)
                /\ truncated' = (truncated \/ at + count >= MaxSamples)
                /\ chunks' = id
                \* what is already there stays there
                /\ heard' = [heard EXCEPT ![c] =
                       [p \in DOMAIN heard[c] \cup at..(at + count - 1) |->
                           IF p \in DOMAIN heard[c] THEN heard[c][p] ELSE id]]
                /\ ahead' = [ahead EXCEPT ![c] = @ + count]
    /\ UNCHANGED <<now, start, failed, disk, final, wav, faults>>

\* Mutant: interrupt() truncates the file and leaves the head where it was.
Interrupt_KeepsHead ==
    /\ chan["bot"].held /\ IsRecording
    /\ IF chan["bot"].head <= now
       THEN UNCHANGED chan
       ELSE Enqueue("bot", chan["bot"].head,
                [does |-> "truncate", at |-> now, count |-> 0, chunk |-> Silence])
    /\ heard' = [heard EXCEPT !["bot"] =
                    [p \in DOMAIN @ \cap 0..(now - 1) |-> heard["bot"][p]]]
    /\ ahead' = [ahead EXCEPT !["bot"] = 0]
    /\ UNCHANGED <<now, start, flags, disk, final, wav, chunks, faults>>

\* What the user cut off was never heard.
Interrupt ==
    /\ chan["bot"].held /\ IsRecording
    /\ IF chan["bot"].head <= now
       THEN UNCHANGED chan
       ELSE Enqueue("bot", now,
                [does |-> "truncate", at |-> now, count |-> 0, chunk |-> Silence])
    /\ heard' = [heard EXCEPT !["bot"] =
                    [p \in DOMAIN @ \cap 0..(now - 1) |-> heard["bot"][p]]]
    /\ ahead' = [ahead EXCEPT !["bot"] = 0]
    /\ UNCHANGED <<now, start, flags, disk, final, wav, chunks, faults>>

\* The head of a channel's chain; an error is kept and the chain goes on.
OpDone(c) ==
    /\ chan[c].queue # << >>
    /\ chan' = [chan EXCEPT ![c].file = Perform(@, Head(chan[c].queue)),
                            ![c].queue = Tail(@)]
    /\ UNCHANGED <<now, start, flags, disk, final, wav, ghosts, faults>>

OpFails(c) ==
    /\ chan[c].queue # << >>
    /\ chan' = [chan EXCEPT ![c].queue = Tail(@)]
    /\ failed' = TRUE /\ stopped' = TRUE /\ faults' = TRUE
    /\ UNCHANGED <<now, start, truncated, disk, final, wav, ghosts>>

-----------------------------------------------------------------------------
(* stop(): drain both chains, interleave, rename, discard *)

Stop ==
    /\ phase # "new" /\ final.at = "idle"
    /\ stopped' = TRUE
    /\ final' = [final EXCEPT !.at =
                    IF \A c \in Channel : chan[c].held THEN "draining"
                    ELSE IF failed THEN "threw" ELSE "nothing"]
    /\ chan' = [c \in Channel |-> [chan[c] EXCEPT !.held = FALSE]]
    /\ UNCHANGED <<now, start, truncated, failed, disk, wav, ghosts, faults>>

Total == Bigger(chan["mic"].head, chan["bot"].head)

ChainsDrained == \A c \in Channel : chan[c].queue = << >>

\* What stop() does once nothing is queued: the WAV, or only the clean-up.
Drained ==
    /\ final.at = "draining" /\ ChainsDrained
    /\ final' = [final EXCEPT !.total = Total,
                    !.at = CASE failed -> "discardThrow"
                             [] ~failed /\ Total = 0 -> "discardNothing"
                             [] ~failed /\ Total > 0 -> "openMic"]
    /\ UNCHANGED <<now, start, flags, chan, disk, wav, ghosts, faults>>

\* The three opens of interleave(), one at a time.
Opening ==
    [openMic |-> [handle |-> "micRead", next |-> "openBot"],
     openBot |-> [handle |-> "botRead", next |-> "openOut"],
     openOut |-> [handle |-> "out",     next |-> "header"]]

InterleaveOpens ==
    /\ final.at \in DOMAIN Opening
    /\ handles' = handles \cup {Opening[final.at].handle}
    /\ temps' = IF final.at = "openOut" THEN temps \cup {"out"} ELSE temps
    /\ final' = [final EXCEPT !.at = Opening[final.at].next]
    /\ UNCHANGED <<now, start, flags, chan, wav, ghosts, faults>>

\* Both buffers start as silence; the count of a block's samples.
Count == Smaller(Block, final.total - final.done)

\* Mutant: the buffers are not cleared between blocks.
NextBlock_NotCleared(f) ==
    [f EXCEPT !.at = IF f.done < f.total THEN "read" ELSE "close",
              !.side = "mic", !.got = 0,
              !.left  = IF @ = << >> THEN [i \in 1..Block |-> Silence] ELSE @,
              !.right = IF @ = << >> THEN [i \in 1..Block |-> Silence] ELSE @]

NextBlock(f) ==
    [f EXCEPT !.at = IF f.done < f.total THEN "read" ELSE "close",
              !.side = "mic", !.got = 0,
              !.left  = [i \in 1..Block |-> Silence],
              !.right = [i \in 1..Block |-> Silence]]

HeaderWritten ==
    /\ final.at = "header"
    /\ final' = IF final.total <= HeaderLimit THEN NextBlock(final)
                ELSE [final EXCEPT !.at = "closeThrow"]
    /\ UNCHANGED <<now, start, flags, chan, disk, wav, ghosts, faults>>

\* One read() of readFully(): some of the samples asked for, none at the end.
Fill(buffer, n) ==
    [i \in 1..Block |->
        IF final.got < i /\ i <= final.got + n
        THEN At(chan[final.side].file, final.done + i - 1)
        ELSE buffer[i]]

Unread == Len(chan[final.side].file) - (final.done + final.got)

ReadSome ==
    /\ final.at = "read" /\ final.got < Count
    /\ \E n \in 1..(Count - final.got) :
          /\ final.done + final.got + n <= Len(chan[final.side].file)
          /\ final' = IF final.side = "mic"
                      THEN [final EXCEPT !.got = @ + n, !.left  = Fill(@, n)]
                      ELSE [final EXCEPT !.got = @ + n, !.right = Fill(@, n)]
    /\ UNCHANGED <<now, start, flags, chan, disk, wav, ghosts, faults>>

\* Mutant: readFully() goes on at the end of the file.
SideRead_NoEof ==
    /\ final.at = "read"
    /\ final.got = Count
    /\ final' = IF final.side = "mic"
                THEN [final EXCEPT !.side = "bot", !.got = 0]
                ELSE [final EXCEPT !.at = "frame"]
    /\ UNCHANGED <<now, start, flags, chan, disk, wav, ghosts, faults>>

\* readFully() returns: the buffer is full, or read() reported the end.
SideRead ==
    /\ final.at = "read"
    /\ final.got = Count \/ final.done + final.got >= Len(chan[final.side].file)
    /\ final' = IF final.side = "mic"
                THEN [final EXCEPT !.side = "bot", !.got = 0]
                ELSE [final EXCEPT !.at = "frame"]
    /\ UNCHANGED <<now, start, flags, chan, disk, wav, ghosts, faults>>

FrameWritten ==
    /\ final.at = "frame"
    /\ final' = NextBlock([final EXCEPT
                    !.done = @ + Block,
                    !.frames = @ \o [i \in 1..Count |->
                        [mic |-> final.left[i], bot |-> final.right[i]]]])
    /\ UNCHANGED <<now, start, flags, chan, disk, wav, ghosts, faults>>

Readers == {"micRead", "botRead", "out"}

InterleaveCloses ==
    /\ final.at \in {"close", "closeThrow"}
    /\ handles' = handles \ Readers
    /\ final' = [final EXCEPT !.at = IF @ = "close" THEN "rename" ELSE "unlink"]
    /\ UNCHANGED <<now, start, flags, chan, temps, wav, ghosts, faults>>

InterleaveFails ==
    /\ final.at \in DOMAIN Opening \cup {"header", "read", "frame"}
    /\ final' = [final EXCEPT !.at = "closeThrow"]
    /\ faults' = TRUE
    /\ UNCHANGED <<now, start, flags, chan, disk, wav, ghosts>>

Renamed ==
    /\ final.at = "rename"
    /\ wav' = [total |-> final.total, frames |-> final.frames]
    /\ temps' = temps \ {"out"}
    /\ final' = [final EXCEPT !.at = "discardResult"]
    /\ UNCHANGED <<now, start, flags, chan, handles, ghosts, faults>>

RenameFails ==
    /\ final.at = "rename"
    /\ final' = [final EXCEPT !.at = "unlink"]
    /\ faults' = TRUE
    /\ UNCHANGED <<now, start, flags, chan, disk, wav, ghosts>>

TempUnlinked ==
    /\ final.at = "unlink"
    /\ temps' = temps \ {"out"}
    /\ final' = [final EXCEPT !.at = "discardThrow"]
    /\ UNCHANGED <<now, start, flags, chan, handles, wav, ghosts, faults>>

Outcome ==
    [discardResult |-> "result", discardNothing |-> "nothing",
     discardThrow |-> "threw"]

\* Mutant: the channels are discarded after a rename, not in a finally.
StopDiscards_OnSuccess ==
    /\ final.at \in DOMAIN Outcome
    /\ handles' = IF final.at = "discardThrow" THEN handles ELSE handles \ Channel
    /\ temps' = IF final.at = "discardThrow" THEN temps ELSE temps \ Channel
    /\ final' = [final EXCEPT !.at = Outcome[@]]
    /\ UNCHANGED <<now, start, flags, chan, wav, ghosts, faults>>

StopDiscards ==
    /\ final.at \in DOMAIN Outcome
    /\ handles' = handles \ Channel
    /\ temps' = temps \ Channel
    /\ final' = [final EXCEPT !.at = Outcome[@]]
    /\ UNCHANGED <<now, start, flags, chan, wav, ghosts, faults>>

-----------------------------------------------------------------------------
Completes ==
    \/ DirectoryMade \/ StartDiscards
    \/ \E c \in Channel : ChannelOpens(c) \/ OpDone(c)
    \/ Drained \/ InterleaveOpens \/ HeaderWritten
    \/ ReadSome \/ SideRead \/ FrameWritten \/ InterleaveCloses
    \/ Renamed \/ TempUnlinked \/ StopDiscards

Fails ==
    \/ DirectoryFails
    \/ \E c \in Channel : ChannelFails(c) \/ OpFails(c)
    \/ InterleaveFails \/ RenameFails

Caller ==
    \/ Start \/ Interrupt \/ Stop
    \/ \E c \in Channel, bytes \in ChunkBytes : WriteChunk(c, bytes)

Next == Tick \/ Caller \/ Completes \/ Fails

Spec == Init /\ [][Next]_vars

\* A file operation that can complete does, or fails.
FairSpec == Spec /\ WF_vars(Completes)

-----------------------------------------------------------------------------
Stage ==
    {"idle", "draining", "openMic", "openBot", "openOut", "header", "read",
     "frame", "close", "closeThrow", "rename", "unlink", "discardResult",
     "discardNothing", "discardThrow", "result", "nothing", "threw"}

\* The shape of the state; a channel the recorder holds is an open file.
TypeOK ==
    /\ now \in 0..MaxNow
    /\ phase \in {"new", "mkdir", "opening", "open", "failed", "discarding",
                  "discarded"}
    /\ opens \in [Channel -> {"none", "pending", "open", "failed"}]
    /\ {stopped, truncated, failed, faults} \subseteq BOOLEAN
    /\ chan \in [Channel -> [held : BOOLEAN, head : 0..MaxSamples,
                             queue : Seq(Op), file : Seq(Sample)]]
    /\ handles \subseteq Channel \cup Readers
    /\ temps \subseteq Channel \cup {"out"}
    /\ final \in [at : Stage, total : 0..MaxSamples, done : Nat,
                  side : Channel, got : 0..Block, left : Seq(Sample),
                  right : Seq(Sample), frames : Seq([Channel -> Sample])]
    /\ wav \in [total : 0..MaxSamples, frames : Seq([Channel -> Sample])]
    /\ chunks \in Sample
    /\ \A c \in Channel : /\ DOMAIN heard[c] \subseteq Nat
                          /\ \A p \in DOMAIN heard[c] : heard[c][p] \in Sample
    /\ ahead \in [Channel -> Nat]
    /\ \A c \in Channel : chan[c].held => c \in handles

\* Neither channel grows past the cap, on disk or in what is still queued for
\* it, however late a chunk arrives: the gap before it counts too.
CapHolds ==
    \A c \in Channel :
        /\ chan[c].head <= MaxSamples
        /\ Len(chan[c].file) <= MaxSamples
        /\ \A i \in 1..Len(chan[c].queue) :
              chan[c].queue[i].at + chan[c].queue[i].count <= MaxSamples

HeardAt(c, p) == IF p \in DOMAIN heard[c] THEN heard[c][p] ELSE Silence

Finished == {"result", "nothing", "threw"}

\* A WAV carries on each side exactly what that side said and the user was not
\* spared by an interrupt, at its place and to the last sample, and silence in
\* between: no chunk cut into another, no cut audio, no sample of another block.
\* There is one whenever something was recorded and no file operation failed, also
\* when the cap ended the recording and whatever the cap is configured to.
WavFaithful ==
    /\ final.at \in Finished /\ ~faults /\ (\E c \in Channel : DOMAIN heard[c] # {})
         => final.at = "result" /\ wav # NoWav
    /\ wav # NoWav =>
        /\ Len(wav.frames) = wav.total
        /\ \A c \in Channel : DOMAIN heard[c] \subseteq 0..(wav.total - 1)
        /\ \A p \in 0..(wav.total - 1) :
              wav.frames[p + 1] = [c \in Channel |-> HeardAt(c, p)]

\* A channel runs ahead of the clock by no more than was written since the user
\* last cut in: one barge-in does not displace what comes after it.
LatenessBounded ==
    \A c \in Channel : chan[c].head <= now + ahead[c]

\* start() and stop() have settled, and so have the opens.
Settled ==
    /\ final.at \in Finished
    /\ phase \in {"open", "failed", "discarded"}
    /\ \A c \in Channel : opens[c] # "pending"

\* A channel that opened although start() failed: Promise.all has lost its handle.
Lone == {c \in Channel : phase = "failed" /\ opens[c] = "open"}

\* When start() and stop() have settled, in whatever order and with whatever error,
\* no file handle is open and no temp file is left, but for those of a channel that
\* opened when the other one failed to: start() awaits both opens at once (:169-172)
\* and has neither in hand when it gives up.
AllReleased ==
    Settled => /\ handles = Lone
               /\ temps = Lone
               /\ Lone # {} => \E c \in Channel : opens[c] = "failed"

\* stop() settles.
StopSettles == final.at = "draining" ~> final.at \in Finished
=============================================================================
