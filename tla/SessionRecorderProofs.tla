----------------------- MODULE SessionRecorderProofs -----------------------
(***************************************************************************)
(* Proofs about SessionRecorder, for every cap, clock, chunk size, block   *)
(* size and failure: the cap holds, a barge-in leaves nothing displaced,   *)
(* what is opened is released, and a WAV carries what was said.            *)
(*                                                                         *)
(* The first two are statements about the timeline of a channel: its head, *)
(* what is queued for its file and the file.  Only write(), interrupt()    *)
(* and the chain of file operations change it; start() and stop() only     *)
(* take hold of the channel and let go of it.  The third is one about how  *)
(* far start() and stop() are, which decides what is open.                 *)
(*                                                                         *)
(* The last needs both.  A chain of operations determines what its file    *)
(* will carry at a position, once they are done: the effect of the last    *)
(* one that touches it.  That is what was heard there (Lands), and when    *)
(* the chains are drained the file has it; nothing moves from then on, and *)
(* each block read and each frame written repeats a part of it (Blocks,    *)
(* Frames).                                                                *)
(***************************************************************************)
EXTENDS SessionRecorder, SequenceTheorems, TLAPS

ChannelType ==
    [held : BOOLEAN, head : Nat, queue : Seq(Op), file : Seq(Sample)]

TimelineType ==
    /\ now \in Nat
    /\ chunks \in Sample
    /\ chan \in [Channel -> ChannelType]
    /\ ahead \in [Channel -> Nat]

\* Where a write begins it adds to the file; a truncate adds nothing.
OpFits(op) == op.at + op.count <= MaxSamples

CapOn(c) ==
    /\ chan[c].head <= MaxSamples
    /\ Len(chan[c].file) <= MaxSamples
    /\ \A i \in 1..Len(chan[c].queue) : OpFits(chan[c].queue[i])

IInv ==
    /\ TimelineType
    /\ \A c \in Channel : CapOn(c)
    /\ LatenessBounded

timeline == <<now, chunks, chan, ahead>>

-----------------------------------------------------------------------------
(* What a file operation does to a file.                                     *)

LEMMA CapIsNat == MaxSamples \in Nat
BY CapAssumption DEF MaxSamples, Smaller

\* A sample read at a position, in the file or past its end, is a sample.
LEMMA AtIsSample ==
    ASSUME NEW file \in Seq(Sample), NEW p \in Nat
    PROVE  At(file, p) \in Sample
<1>1. CASE p < Len(file)
  <2>1. p + 1 \in 1..Len(file)
    BY <1>1, LenProperties
  <2>. QED
    BY <1>1, <2>1, ElementOfSeq DEF At
<1>2. CASE ~(p < Len(file))
  BY <1>2, BoundsAssumption DEF At, Sample, Silence
<1>. QED
  BY <1>1, <1>2

\* A function on 1..n is a sequence of length n.
LEMMA FunctionIsSeq ==
    ASSUME NEW n \in Nat, NEW S, NEW f \in [1..n -> S]
    PROVE  f \in Seq(S) /\ Len(f) = n
<1>1. f \in Seq(S)
  BY SeqDef
<1>. QED
  BY <1>1, LenProperties

LEMMA WriteFits ==
    ASSUME NEW file \in Seq(Sample), NEW op \in Op,
           Len(file) <= MaxSamples, OpFits(op)
    PROVE  Write(file, op) \in Seq(Sample) /\ Len(Write(file, op)) <= MaxSamples
<1>. DEFINE n == Bigger(Len(file), op.at + op.count)
<1>1. n \in Nat /\ n <= MaxSamples
  BY LenProperties, CapIsNat DEF Bigger, Op, OpFits
<1>2. Write(file, op) \in [1..n -> Sample]
  <2>1. \A i \in 1..n : At(file, i - 1) \in Sample
    <3>. SUFFICES ASSUME NEW i \in 1..n PROVE At(file, i - 1) \in Sample
      OBVIOUS
    <3>1. i - 1 \in Nat
      BY <1>1
    <3>. QED
      BY <3>1, AtIsSample
  <2>. HIDE DEF n
  <2>2. Write(file, op) = [i \in 1..n |->
            IF op.at < i /\ i <= op.at + op.count
            THEN op.chunk ELSE At(file, i - 1)]
    BY DEF Write, n
  <2>. QED
    BY <2>1, <2>2 DEF Op
<1>. QED
  <2>. HIDE DEF n
  <2>. QED
    BY <1>1, <1>2, FunctionIsSeq

LEMMA TruncateFits ==
    ASSUME NEW file \in Seq(Sample), NEW op \in Op, OpFits(op)
    PROVE  /\ Truncate(file, op) \in Seq(Sample)
           /\ Len(Truncate(file, op)) <= MaxSamples
<1>1. op.at \in Nat /\ op.at <= MaxSamples
  BY CapIsNat DEF Op, OpFits
<1>2. Truncate(file, op) \in [1..op.at -> Sample]
  <2>1. \A i \in 1..op.at : At(file, i - 1) \in Sample
    <3>. SUFFICES ASSUME NEW i \in 1..op.at PROVE At(file, i - 1) \in Sample
      OBVIOUS
    <3>1. i - 1 \in Nat
      BY <1>1
    <3>. QED
      BY <3>1, AtIsSample
  <2>. QED
    BY <2>1 DEF Truncate
<1>. QED
  BY <1>1, <1>2, FunctionIsSeq

LEMMA PerformFits ==
    ASSUME NEW file \in Seq(Sample), NEW op \in Op,
           Len(file) <= MaxSamples, OpFits(op)
    PROVE  /\ Perform(file, op) \in Seq(Sample)
           /\ Len(Perform(file, op)) <= MaxSamples
BY WriteFits, TruncateFits DEF Perform

-----------------------------------------------------------------------------
(* What the steps do to a timeline.                                          *)

\* The first operation of a chain fits, and so does the rest of the chain.
LEMMA ChainFits ==
    ASSUME NEW q \in Seq(Op), q # << >>,
           \A i \in 1..Len(q) : OpFits(q[i])
    PROVE  /\ Head(q) \in Op /\ OpFits(Head(q))
           /\ Tail(q) \in Seq(Op)
           /\ \A i \in 1..Len(Tail(q)) : OpFits(Tail(q)[i])
<1>1. Len(q) \in Nat \ {0}
  BY EmptySeq
<1>2. Head(q) \in Op /\ Head(q) = q[1]
  BY HeadTailProperties
<1>3. /\ Tail(q) \in Seq(Op) /\ Len(Tail(q)) = Len(q) - 1
      /\ \A i \in 1..Len(Tail(q)) : Tail(q)[i] = q[i + 1]
  BY HeadTailProperties
<1>4. \A i \in 1..Len(Tail(q)) : i + 1 \in 1..Len(q)
  BY <1>1, <1>3
<1>. QED
  BY <1>1, <1>2, <1>3, <1>4

\* A channel that gets one more operation that fits, and a head within the cap.
LEMMA EnqueueFits ==
    ASSUME TimelineType, \A d \in Channel : CapOn(d),
           NEW c \in Channel, NEW head \in Nat, head <= MaxSamples,
           NEW op \in Op, OpFits(op), Enqueue(c, head, op)
    PROVE  /\ chan' \in [Channel -> ChannelType]
           /\ \A d \in Channel : CapOn(d)'
           /\ \A d \in Channel :
                 chan'[d].head = IF d = c THEN head ELSE chan[d].head
<1>. DEFINE q == chan[c].queue
<1>1. q \in Seq(Op)
  BY DEF TimelineType, ChannelType
<1>2. /\ Append(q, op) \in Seq(Op)
      /\ Len(Append(q, op)) = Len(q) + 1
      /\ \A i \in 1..Len(q) : Append(q, op)[i] = q[i]
      /\ Append(q, op)[Len(q) + 1] = op
  BY <1>1, AppendProperties
<1>3. \A i \in 1..Len(Append(q, op)) : OpFits(Append(q, op)[i])
  <2>1. Len(q) \in Nat
    BY <1>1, LenProperties
  <2>2. \A i \in 1..(Len(q) + 1) : i \in 1..Len(q) \/ i = Len(q) + 1
    BY <2>1
  <2>. QED
    BY <1>2, <2>2 DEF CapOn
<1>4. chan' = [chan EXCEPT ![c] =
                  [chan[c] EXCEPT !.head = head, !.queue = Append(q, op)]]
  BY DEF Enqueue, TimelineType, ChannelType
<1>5. chan'[c].head = head /\ chan'[c].queue = Append(q, op)
      /\ chan'[c].file = chan[c].file
  BY <1>4 DEF TimelineType, ChannelType
<1>6. \A d \in Channel \ {c} : chan'[d] = chan[d]
  BY <1>4 DEF TimelineType
<1>7. chan' \in [Channel -> ChannelType]
  BY <1>2, <1>4 DEF TimelineType, ChannelType
<1>8. \A d \in Channel : CapOn(d)'
  <2>1. CapOn(c)'
    BY <1>3, <1>5 DEF CapOn
  <2>2. \A d \in Channel \ {c} : CapOn(d)'
    BY <1>6 DEF CapOn
  <2>. QED
    BY <2>1, <2>2
<1>. QED
  BY <1>5, <1>6, <1>7, <1>8

LEMMA WriteChunkKeeps ==
    ASSUME IInv, NEW c \in Channel, NEW bytes \in ChunkBytes,
           WriteChunk(c, bytes)
    PROVE  IInv'
<1>. DEFINE at == Place(c)
            count == Room(at, bytes)
            op == [does |-> "write", at |-> at, count |-> count,
                   chunk |-> chunks + 1]
<1>1. at \in Nat /\ chan[c].head <= at /\ at <= now + ahead[c]
  BY DEF IInv, TimelineType, ChannelType, LatenessBounded, Place, Bigger
<1>2. CASE at >= MaxSamples
  BY <1>2 DEF IInv, WriteChunk, TimelineType, ghosts, CapOn, LatenessBounded,
              Place
<1>3. CASE ~(at >= MaxSamples)
  <2>1. bytes \div 2 \in Nat
    BY BlockAssumption
  <2>2. count \in Nat /\ at + count <= MaxSamples
    BY <1>1, <1>3, <2>1, CapIsNat DEF Room, Smaller
  <2>3. /\ Enqueue(c, at + count, op)
        /\ chunks' = chunks + 1 /\ chunks < MaxChunks
        /\ ahead' = [ahead EXCEPT ![c] = @ + count]
        /\ now' = now
    BY <1>3 DEF WriteChunk
  <2>. HIDE DEF at, count
  <2>4. chunks + 1 \in Sample
    BY <2>3, BoundsAssumption DEF IInv, TimelineType, Sample
  <2>5. op \in Op /\ OpFits(op)
    BY <1>1, <2>2, <2>4 DEF Op, OpFits
  <2>6. at + count \in Nat
    BY <1>1, <2>2
  <2>. HIDE DEF op
  <2>7. /\ chan' \in [Channel -> ChannelType]
        /\ \A d \in Channel : CapOn(d)'
        /\ \A d \in Channel :
              chan'[d].head = IF d = c THEN at + count ELSE chan[d].head
    BY <2>2, <2>3, <2>5, <2>6, EnqueueFits DEF IInv
  <2>8. ahead' \in [Channel -> Nat]
    BY <2>2, <2>3 DEF IInv, TimelineType
  <2>9. LatenessBounded'
    BY <1>1, <2>2, <2>3, <2>7 DEF IInv, TimelineType, LatenessBounded
  <2>. QED
    BY <2>3, <2>4, <2>7, <2>8, <2>9 DEF IInv, TimelineType
<1>. QED
  BY <1>2, <1>3

LEMMA InterruptKeeps ==
    ASSUME IInv, Interrupt
    PROVE  IInv'
<1>. DEFINE op == [does |-> "truncate", at |-> now, count |-> 0,
                   chunk |-> Silence]
<1>1. /\ "bot" \in Channel /\ now' = now /\ chunks' = chunks
      /\ ahead' = [ahead EXCEPT !["bot"] = 0]
  BY DEF Interrupt, Channel
<1>2. ahead' \in [Channel -> Nat]
  BY <1>1 DEF IInv, TimelineType
<1>3. CASE chan["bot"].head <= now
  <2>1. chan' = chan
    BY <1>3 DEF Interrupt
  <2>2. LatenessBounded'
    BY <1>1, <1>3, <2>1 DEF IInv, TimelineType, LatenessBounded
  <2>. QED
    BY <1>1, <1>2, <2>1, <2>2 DEF IInv, TimelineType, CapOn
<1>4. CASE ~(chan["bot"].head <= now)
  <2>1. Enqueue("bot", now, op)
    BY <1>4 DEF Interrupt
  <2>2. now \in Nat /\ now <= MaxSamples
    BY <1>1, <1>4, CapIsNat DEF IInv, TimelineType, ChannelType, CapOn
  <2>3. op \in Op /\ OpFits(op)
    BY <2>2, BoundsAssumption DEF Op, OpFits, Silence, Sample
  <2>. HIDE DEF op
  <2>4. /\ chan' \in [Channel -> ChannelType]
        /\ \A d \in Channel : CapOn(d)'
        /\ \A d \in Channel :
              chan'[d].head = IF d = "bot" THEN now ELSE chan[d].head
    BY <1>1, <2>1, <2>2, <2>3, EnqueueFits DEF IInv
  <2>5. LatenessBounded'
    BY <1>1, <2>2, <2>4 DEF IInv, TimelineType, LatenessBounded
  <2>. QED
    BY <1>1, <1>2, <2>4, <2>5 DEF IInv, TimelineType
<1>. QED
  BY <1>3, <1>4

\* An operation leaves the head of its chain, done or failed.
LEMMA OpKeeps ==
    ASSUME IInv, NEW c \in Channel, OpDone(c) \/ OpFails(c)
    PROVE  IInv'
<1>1. /\ chan[c].queue \in Seq(Op) /\ chan[c].queue # << >>
      /\ chan[c].file \in Seq(Sample) /\ Len(chan[c].file) <= MaxSamples
      /\ \A i \in 1..Len(chan[c].queue) : OpFits(chan[c].queue[i])
  BY DEF IInv, TimelineType, ChannelType, CapOn, OpDone, OpFails
<1>. DEFINE op == Head(chan[c].queue)
            rest == Tail(chan[c].queue)
<1>2. /\ op \in Op /\ OpFits(op) /\ rest \in Seq(Op)
      /\ \A i \in 1..Len(rest) : OpFits(rest[i])
  BY <1>1, ChainFits
<1>3. /\ Perform(chan[c].file, op) \in Seq(Sample)
      /\ Len(Perform(chan[c].file, op)) <= MaxSamples
  BY <1>1, <1>2, PerformFits
<1>4. now' = now /\ chunks' = chunks /\ ahead' = ahead
  BY DEF OpDone, OpFails, ghosts
<1>5. PICK file \in Seq(Sample) :
         /\ Len(file) <= MaxSamples
         /\ chan' = [chan EXCEPT ![c] =
                        [chan[c] EXCEPT !.file = file, !.queue = rest]]
  <2>1. CASE OpDone(c)
    <3>1. chan' = [chan EXCEPT ![c] = [chan[c] EXCEPT
                      !.file = Perform(chan[c].file, op), !.queue = rest]]
      BY <2>1 DEF OpDone, IInv, TimelineType, ChannelType
    <3>. QED
      BY <1>3, <3>1
  <2>2. CASE OpFails(c)
    <3>1. chan' = [chan EXCEPT ![c] = [chan[c] EXCEPT
                      !.file = chan[c].file, !.queue = rest]]
      BY <2>2 DEF OpFails, IInv, TimelineType, ChannelType
    <3>. QED
      BY <1>1, <3>1
  <2>. QED
    BY <2>1, <2>2
<1>. HIDE DEF op, rest
<1>6. /\ chan'[c].head = chan[c].head /\ chan'[c].file = file
      /\ chan'[c].queue = rest
      /\ \A d \in Channel \ {c} : chan'[d] = chan[d]
  BY <1>5 DEF IInv, TimelineType, ChannelType
<1>7. chan' \in [Channel -> ChannelType]
  BY <1>2, <1>5 DEF IInv, TimelineType, ChannelType
<1>8. \A d \in Channel : CapOn(d)'
  <2>1. CapOn(c)'
    BY <1>2, <1>5, <1>6 DEF IInv, CapOn
  <2>2. \A d \in Channel \ {c} : CapOn(d)'
    BY <1>6 DEF IInv, CapOn
  <2>. QED
    BY <2>1, <2>2
<1>9. \A d \in Channel : chan'[d].head = chan[d].head
  BY <1>6
<1>10. LatenessBounded'
  BY <1>4, <1>9 DEF IInv, LatenessBounded
<1>. QED
  BY <1>4, <1>7, <1>8, <1>10 DEF IInv, TimelineType

\* start() and stop() take hold of the channels and let go of them.
LEMMA HoldKeeps ==
    ASSUME IInv, now' = now, chunks' = chunks, ahead' = ahead,
           NEW held \in [Channel -> BOOLEAN],
           chan' = [d \in Channel |-> [chan[d] EXCEPT !.held = held[d]]]
    PROVE  IInv'
<1>1. \A d \in Channel : /\ chan'[d].head = chan[d].head
                         /\ chan'[d].queue = chan[d].queue
                         /\ chan'[d].file = chan[d].file
  BY DEF IInv, TimelineType, ChannelType
<1>2. chan' \in [Channel -> ChannelType]
  BY DEF IInv, TimelineType, ChannelType
<1>. QED
  BY <1>1, <1>2 DEF IInv, TimelineType, CapOn, LatenessBounded

-----------------------------------------------------------------------------
LEMMA Initially == Init => IInv
<1>. SUFFICES ASSUME Init PROVE IInv
  OBVIOUS
<1>1. << >> \in Seq(Op) /\ << >> \in Seq(Sample) /\ Len(<< >>) = 0
  BY EmptySeq
<1>2. TimelineType
  BY <1>1, BoundsAssumption
  DEF Init, TimelineType, ChannelType, NewChannel, Sample
<1>. QED
  BY <1>1, <1>2, CapIsNat
  DEF Init, IInv, NewChannel, CapOn, LatenessBounded

LEMMA Inductive == IInv /\ [Next]_vars => IInv'
<1>. SUFFICES ASSUME IInv, [Next]_vars PROVE IInv'
  OBVIOUS
<1>1. ASSUME UNCHANGED timeline PROVE IInv'
  BY <1>1 DEF IInv, TimelineType, CapOn, LatenessBounded, timeline
<1>2. CASE Tick
  BY <1>2 DEF Tick, ghosts, IInv, TimelineType, ChannelType, CapOn,
              LatenessBounded
<1>3. CASE Caller
  <2>1. CASE Start
    BY <1>1, <2>1 DEF Start, ghosts, timeline
  <2>2. CASE Interrupt
    BY <2>2, InterruptKeeps
  <2>3. CASE Stop
    <3>1. chan' = [d \in Channel |->
                      [chan[d] EXCEPT !.held = [e \in Channel |-> FALSE][d]]]
      BY <2>3 DEF Stop
    <3>2. [e \in Channel |-> FALSE] \in [Channel -> BOOLEAN]
      OBVIOUS
    <3>. QED
      BY <2>3, <3>1, <3>2, HoldKeeps DEF Stop, ghosts
  <2>4. CASE \E c \in Channel, bytes \in ChunkBytes : WriteChunk(c, bytes)
    BY <2>4, WriteChunkKeeps
  <2>. QED
    BY <1>3, <2>1, <2>2, <2>3, <2>4 DEF Caller
<1>4. CASE Completes
  <2>1. CASE \E c \in Channel : ChannelOpens(c)
    <3>1. PICK c \in Channel : ChannelOpens(c)
      BY <2>1
    <3>. DEFINE ready == phase = "opening" /\ \A d \in Channel : opens'[d] = "open"
                held == [e \in Channel |-> ready /\ ~stopped]
    <3>2. held \in [Channel -> BOOLEAN]
      BY Zenon
    <3>3. chan' = [d \in Channel |-> [chan[d] EXCEPT !.held = held[d]]]
      BY <3>1 DEF ChannelOpens
    <3>4. now' = now /\ chunks' = chunks /\ ahead' = ahead
      BY <3>1 DEF ChannelOpens, ghosts
    <3>. HIDE DEF held
    <3>. QED
      BY <3>2, <3>3, <3>4, HoldKeeps
  <2>2. CASE \E c \in Channel : OpDone(c)
    BY <2>2, OpKeeps
  <2>3. CASE \/ DirectoryMade \/ StartDiscards \/ Drained \/ InterleaveOpens
             \/ HeaderWritten \/ ReadSome \/ SideRead \/ FrameWritten
             \/ InterleaveCloses \/ Renamed \/ TempUnlinked \/ StopDiscards
    <3>1. UNCHANGED timeline
      BY <2>3
      DEF DirectoryMade, StartDiscards, Drained, InterleaveOpens,
          HeaderWritten, ReadSome, SideRead, FrameWritten, InterleaveCloses,
          Renamed, TempUnlinked, StopDiscards, ghosts, timeline
    <3>. QED
      BY <1>1, <3>1
  <2>. QED
    BY <1>4, <2>1, <2>2, <2>3 DEF Completes
<1>5. CASE Fails
  <2>1. CASE \E c \in Channel : OpFails(c)
    BY <2>1, OpKeeps
  <2>2. CASE \/ DirectoryFails \/ InterleaveFails \/ RenameFails
             \/ \E c \in Channel : ChannelFails(c)
    <3>1. UNCHANGED timeline
      BY <2>2
      DEF DirectoryFails, InterleaveFails, RenameFails, ChannelFails, ghosts,
          timeline
    <3>. QED
      BY <1>1, <3>1
  <2>. QED
    BY <1>5, <2>1, <2>2 DEF Fails
<1>6. CASE UNCHANGED vars
  BY <1>1, <1>6 DEF vars, ghosts, timeline
<1>. QED
  BY <1>2, <1>3, <1>4, <1>5, <1>6 DEF Next

-----------------------------------------------------------------------------
\* The timelines keep their type and both statements below, in every reachable
\* state (write(), interrupt() and the chain of file operations).
THEOREM Invariance == Spec => []IInv
BY Initially, Inductive, PTL DEF Spec

\* Neither channel's head, nor its file, nor anything still queued for it, passes
\* the cap (the clamp in write(), and interrupt() only moving a head back).
THEOREM CapIsKept == Spec => []CapHolds
<1>1. IInv => CapHolds
  BY DEF IInv, CapOn, OpFits, CapHolds
<1>. QED
  BY <1>1, Invariance, PTL

\* A channel is ahead of the clock by at most what was written since it was last
\* cut (the head of write(), and interrupt() putting it back on the clock).
THEOREM LatenessIsBounded == Spec => []LatenessBounded
<1>1. IInv => LatenessBounded
  BY DEF IInv
<1>. QED
  BY <1>1, Invariance, PTL

-----------------------------------------------------------------------------
(* Files and handles: which of them are open follows from how far start()   *)
(* and stop() are.                                                          *)

Frame == [Channel -> Sample]

Buffer == {<< >>} \cup [1..Block -> Sample]

FinalType ==
    final \in [at : Stage, total : Nat, done : Nat, side : Channel, got : Nat,
               left : Buffer, right : Buffer, frames : Seq(Frame)]

\* The stages of stop() between taking hold of the channels and letting go.
Stopping == Stage \ ({"idle"} \cup Finished)

\* How start() and stop() go together: the channels are held from the end of one
\* to the beginning of the other, and what stop() does it does to open channels.
Phases ==
    /\ phase \in {"new", "mkdir", "opening", "open", "failed", "discarding",
                  "discarded"}
    /\ opens \in [Channel -> {"none", "pending", "open", "failed"}]
    /\ phase \in {"new", "mkdir"} => \A c \in Channel : opens[c] = "none"
    /\ phase = "opening" =>
          /\ \A c \in Channel : opens[c] \in {"pending", "open"}
          /\ \E c \in Channel : opens[c] = "pending"
    /\ phase \in {"open", "discarding", "discarded"} =>
          \A c \in Channel : opens[c] = "open"
    /\ phase = "failed" =>
          \/ \E c \in Channel : opens[c] = "failed"
          \/ \A c \in Channel : opens[c] = "none"
    /\ phase = "new" => final.at = "idle"
    /\ final.at \in Stopping \cup {"result"} => phase = "open"
    /\ phase \in {"failed", "discarding", "discarded"} \/ final.at # "idle" => stopped
    /\ \A c \in Channel : chan[c].held <=> phase = "open" /\ final.at = "idle"

\* The two channels are open files from their open to their discard; those of
\* interleave() while it runs, and its temp file until it is renamed or unlinked.
Disk ==
    /\ handles \subseteq Channel \cup Readers
    /\ temps \subseteq Channel \cup {"out"}
    /\ \A c \in Channel :
          /\ c \in handles <=> /\ opens[c] = "open"
                               /\ phase # "discarded"
                               /\ ~(phase = "open" /\ final.at \in Finished)
          /\ c \in temps <=> c \in handles
    /\ final.at \notin {"openBot", "openOut", "header", "read", "frame", "close",
                        "closeThrow"} => handles \cap Readers = {}
    /\ final.at \notin {"header", "read", "frame", "close", "closeThrow", "rename",
                        "unlink"} => "out" \notin temps

FInv == IInv /\ FinalType /\ Phases /\ Disk

-----------------------------------------------------------------------------
(* What a WAV carries.  Says: once the operations in q are done, position p *)
(* of the file has v.                                                       *)

Touches(op, p) == op.at <= p /\ (op.does = "write" => p < op.at + op.count)

Effect(op) == IF op.does = "write" THEN op.chunk ELSE Silence

Says(q, file, p, v) ==
    /\ (\A i \in 1..Len(q) : ~Touches(q[i], p)) => At(file, p) = v
    /\ \A i \in 1..Len(q) :
          Touches(q[i], p) /\ (\A j \in (i + 1)..Len(q) : ~Touches(q[j], p))
             => Effect(q[i]) = v

\* While no operation has failed, a channel will carry what it ought to.
Lands ==
    /\ heard = [c \in Channel |-> heard[c]]
    /\ \A c \in Channel : DOMAIN heard[c] \subseteq 0..(chan[c].head - 1)
    /\ ~failed => \A c \in Channel, p \in Nat :
                     Says(chan[c].queue, chan[c].file, p, HeardAt(c, p))

\* The stages of a stop() that ends in a WAV, from its first block on, and all.
Reading == {"read", "frame"}
Mixed   == {"close", "rename", "discardResult", "result"}
Mixing  == {"openMic", "openBot", "openOut", "header"} \cup Reading \cup Mixed

Carries(b, c, n) ==
    \A i \in 1..n : b[i] = At(chan[c].file, final.done + i - 1)

Blank(b, n) == \A i \in (n + 1)..Block : b[i] = Silence

\* The block under way, side by side.
Blocks ==
    final.at \in Reading =>
        /\ final.done < final.total /\ final.got <= Count
        /\ final.left \in [1..Block -> Sample]
        /\ final.right \in [1..Block -> Sample]
        /\ IF final.at = "read" /\ final.side = "mic"
           THEN /\ Carries(final.left, "mic", final.got) /\ Blank(final.left, final.got)
                /\ Blank(final.right, 0)
           ELSE /\ Carries(final.left, "mic", Count)
                /\ IF final.at = "read"
                   THEN /\ Carries(final.right, "bot", final.got)
                        /\ Blank(final.right, final.got)
                   ELSE Carries(final.right, "bot", Count)

\* The blocks before it.
Frames ==
    /\ final.at \in Mixing =>
          /\ ~failed /\ ChainsDrained
          /\ final.total = Total /\ final.total > 0
          /\ Len(final.frames) = Smaller(final.done, final.total)
          /\ \A i \in 1..Len(final.frames) :
                final.frames[i] = [c \in Channel |-> At(chan[c].file, i - 1)]
    /\ final.at \in Mixing \ (Reading \cup Mixed) => final.done = 0
    /\ final.at \in Mixed => final.done >= final.total
    /\ wav = IF final.at \in {"discardResult", "result"}
             THEN [total |-> final.total, frames |-> final.frames] ELSE NoWav
    /\ final.at \in {"idle", "draining"} => final.done = 0 /\ final.frames = << >>

\* Why there is no WAV.
Excused ==
    /\ failed => faults
    /\ final.at \in {"closeThrow", "unlink", "discardThrow", "threw"} => faults
    /\ final.at = "discardNothing" => \A c \in Channel : chan[c].head = 0
    /\ phase # "open" \/ final.at = "nothing" =>
          \A c \in Channel : DOMAIN heard[c] = {}

WInv == FInv /\ Lands /\ Blocks /\ Frames /\ Excused

-----------------------------------------------------------------------------
(* Files and handles: every step.                                           *)

\* What Phases and Disk speak of.
Held == [c \in Channel |-> chan[c].held]

filed == <<phase, opens, stopped, handles, temps, final.at, Held>>

LEMMA FiledKeeps ==
    ASSUME Phases, Disk, UNCHANGED filed
    PROVE  Phases' /\ Disk'
<1>1. \A c \in Channel : chan'[c].held = chan[c].held
  BY DEF filed, Held
<1>2. Phases'
  BY <1>1 DEF Phases, filed
<1>3. Disk'
  BY DEF Disk, filed
<1>. QED
  BY <1>2, <1>3

LEMMA AtSet ==
    ASSUME FinalType, NEW v \in Stage, final' = [final EXCEPT !.at = v]
    PROVE  /\ FinalType' /\ final'.at = v
           /\ final'.total = final.total /\ final'.done = final.done
           /\ final'.side = final.side /\ final'.got = final.got
           /\ final'.left = final.left /\ final'.right = final.right
           /\ final'.frames = final.frames
BY DEF FinalType

\* Nothing is said of the stages of one set but that they are stages.
LEMMA Stages ==
    /\ Stopping \subseteq Stage /\ Finished \subseteq Stage
    /\ "idle" \in Stage /\ "draining" \in Stage
    /\ "idle" \notin Stopping \cup Finished
    /\ \A a \in Stage : a = "idle" \/ a \in Stopping \/ a \in Finished
    /\ Mixing \subseteq Stopping \cup {"result"}
BY DEF Stopping, Finished, Stage, Mixing, Reading, Mixed

LEMMA InitFInv == Init => FinalType /\ Phases /\ Disk
<1>. SUFFICES ASSUME Init PROVE FinalType /\ Phases /\ Disk
  OBVIOUS
<1>1. << >> \in Seq(Frame)
  OBVIOUS
<1>2. FinalType
  BY <1>1 DEF Init, FinalType, NotStopping, Stage, Buffer, Channel
<1>3. final.at = "idle"
  BY DEF Init, NotStopping
<1>4. \A c \in Channel : ~chan[c].held
  BY DEF Init, NewChannel
<1>5. Phases
  BY <1>3, <1>4, Stages DEF Init, Phases
<1>6. Disk
  BY <1>3 DEF Init, Disk, Finished
<1>. QED
  BY <1>2, <1>5, <1>6

LEMMA HeldIs ==
    ASSUME TimelineType, NEW b \in [Channel -> BOOLEAN],
           chan' = [c \in Channel |-> [chan[c] EXCEPT !.held = b[c]]]
    PROVE  \A c \in Channel : chan'[c].held = b[c]
BY DEF TimelineType, ChannelType

LEMMA CallerFiles ==
    ASSUME FInv, Caller
    PROVE  FinalType' /\ Phases' /\ Disk'
<1>. USE DEF FInv, IInv
<1>1. CASE Start
  <2>1. Phases'
    BY <1>1 DEF Start, Phases, flags
  <2>2. Disk'
    BY <1>1 DEF Start, Disk, disk, flags
  <2>. QED
    BY <1>1, <2>1, <2>2 DEF Start, FinalType
<1>2. CASE Interrupt
  <2>1. \A c \in Channel : chan'[c].held = chan[c].held
    BY <1>2 DEF Interrupt, Enqueue, TimelineType, ChannelType, Channel
  <2>2. UNCHANGED filed
    BY <1>2, <2>1 DEF Interrupt, filed, start, flags, disk, Held
  <2>. QED
    BY <1>2, <2>2, FiledKeeps DEF Interrupt, FinalType
<1>3. CASE Stop
  <2>. DEFINE v == IF \A c \in Channel : chan[c].held THEN "draining"
                   ELSE IF failed THEN "threw" ELSE "nothing"
              b == [c \in Channel |-> FALSE]
  <2>1. v \in Stage
    BY DEF Stage
  <2>2. final' = [final EXCEPT !.at = v] /\ final.at = "idle" /\ stopped' = TRUE
    BY <1>3 DEF Stop
  <2>3. v \in Finished \/ v = "draining"
    BY DEF Finished
  <2>4. v = "draining" <=> \A c \in Channel : chan[c].held
    OBVIOUS
  <2>5. v # "result" /\ v # "idle"
    OBVIOUS
  <2>6. \A c \in Channel : ~chan'[c].held
    <3>1. b \in [Channel -> BOOLEAN]
      OBVIOUS
    <3>2. chan' = [c \in Channel |-> [chan[c] EXCEPT !.held = b[c]]]
      BY <1>3 DEF Stop
    <3>. QED
      BY <3>1, <3>2, HeldIs
  <2>. HIDE DEF v, b
  <2>7. FinalType' /\ final'.at = v
    BY <2>1, <2>2, AtSet
  <2>8. phase' = phase /\ opens' = opens /\ handles' = handles /\ temps' = temps
        /\ phase # "new"
    BY <1>3 DEF Stop, start, disk
  <2>9. v = "draining" <=> phase = "open"
    BY <2>2, <2>4 DEF Phases, Channel
  <2>10. v \in Stopping \cup {"result"} => v = "draining"
    BY <2>3, <2>5 DEF Stopping
  <2>11. Phases'
    BY <2>2, <2>5, <2>6, <2>7, <2>8, <2>9, <2>10 DEF Phases
  <2>12. Disk'
    <3>1. ~(phase = "open" /\ v \in Finished)
      BY <2>9 DEF Finished
    <3>2. final.at \notin Finished
      BY <2>2 DEF Finished
    <3>. QED
      BY <2>2, <2>3, <2>7, <2>8, <3>1, <3>2 DEF Disk, Finished
  <2>. QED
    BY <2>7, <2>11, <2>12
<1>4. CASE \E c \in Channel, bytes \in ChunkBytes : WriteChunk(c, bytes)
  <2>1. PICK c \in Channel, bytes \in ChunkBytes : WriteChunk(c, bytes)
    BY <1>4
  <2>2. final' = final /\ phase' = phase /\ opens' = opens /\ handles' = handles
        /\ temps' = temps /\ chan[c].held
    BY <2>1 DEF WriteChunk, start, disk
  <2>3. \A d \in Channel : chan'[d].held = chan[d].held
    <3>1. CASE chan' = chan
      BY <3>1
    <3>2. CASE chan' # chan
      <4>1. PICK h, o : Enqueue(c, h, o)
        BY <2>1, <3>2 DEF WriteChunk
      <4>2. chan' = [chan EXCEPT ![c] =
                        [chan[c] EXCEPT !.head = h, !.queue = Append(chan[c].queue, o)]]
        BY <4>1 DEF Enqueue, TimelineType, ChannelType
      <4>. QED
        BY <4>2 DEF TimelineType, ChannelType
    <3>. QED
      BY <3>1, <3>2
  <2>4. phase = "open" /\ final.at = "idle"
    BY <2>2 DEF Phases
  <2>5. Phases'
    BY <2>2, <2>3, <2>4, Stages DEF Phases
  <2>6. Disk'
    BY <2>2 DEF Disk
  <2>. QED
    BY <2>2, <2>5, <2>6 DEF FinalType
<1>. QED
  BY <1>1, <1>2, <1>3, <1>4 DEF Caller

\* A step of start(), or the failure of one.
LEMMA StartFiles ==
    ASSUME FInv, DirectoryMade \/ DirectoryFails \/ StartDiscards
    PROVE  FinalType' /\ Phases' /\ Disk'
<1>. USE DEF FInv, IInv
<1>1. CASE DirectoryMade
  <2>1. opens' = [c \in Channel |-> "pending"] /\ phase = "mkdir"
        /\ phase' = "opening" /\ final' = final /\ stopped' = stopped
        /\ chan' = chan /\ handles' = handles /\ temps' = temps
    BY <1>1 DEF DirectoryMade, flags, disk
  <2>2. Phases'
    BY <2>1 DEF Phases, Channel
  <2>3. Disk'
    BY <2>1 DEF Disk, Phases
  <2>. QED
    BY <2>1, <2>2, <2>3 DEF FinalType
<1>2. CASE DirectoryFails
  <2>1. opens' = opens /\ phase = "mkdir" /\ phase' = "failed" /\ final' = final
        /\ stopped' = TRUE /\ chan' = chan /\ handles' = handles /\ temps' = temps
    BY <1>2 DEF DirectoryFails, disk
  <2>2. Phases'
    BY <2>1 DEF Phases, Channel
  <2>3. Disk'
    BY <2>1 DEF Disk, Phases
  <2>. QED
    BY <2>1, <2>2, <2>3 DEF FinalType
<1>3. CASE StartDiscards
  <2>1. opens' = opens /\ phase = "discarding" /\ phase' = "discarded"
        /\ final' = final /\ stopped' = stopped /\ chan' = chan
        /\ handles' = handles \ Channel /\ temps' = temps \ Channel
    BY <1>3 DEF StartDiscards, flags
  <2>2. Phases'
    BY <2>1 DEF Phases
  <2>3. Disk'
    BY <2>1 DEF Disk, Channel, Readers
  <2>. QED
    BY <2>1, <2>2, <2>3 DEF FinalType
<1>. QED
  BY <1>1, <1>2, <1>3

LEMMA OpensFiles ==
    ASSUME FInv, NEW c \in Channel, ChannelOpens(c)
    PROVE  FinalType' /\ Phases' /\ Disk'
<1>. USE DEF FInv, IInv
<1>. DEFINE ready == phase = "opening" /\ \A d \in Channel : opens'[d] = "open"
            b == [d \in Channel |-> ready /\ ~stopped]
<1>1. /\ opens[c] = "pending" /\ opens' = [opens EXCEPT ![c] = "open"]
      /\ handles' = handles \cup {c} /\ temps' = temps \cup {c}
      /\ final' = final /\ stopped' = stopped
      /\ chan' = [d \in Channel |-> [chan[d] EXCEPT !.held = b[d]]]
  BY DEF ChannelOpens, flags
<1>2. /\ ~ready => phase' = phase
      /\ ready /\ stopped => phase' = "discarding"
      /\ ready /\ ~stopped => phase' = "open"
  BY DEF ChannelOpens
<1>3. phase \in {"opening", "failed"}
  BY <1>1 DEF Phases
<1>4. b \in [Channel -> BOOLEAN]
  BY Zenon
<1>. HIDE DEF b
<1>5. \A d \in Channel : chan'[d].held = b[d]
  BY <1>1, <1>4, HeldIs
<1>6. \A d \in Channel : b[d] = (ready /\ ~stopped)
  BY Zenon DEF b
<1>7. opens' \in [Channel -> {"none", "pending", "open", "failed"}]
  BY <1>1 DEF Phases
<1>8. \A d \in Channel : opens'[d] = IF d = c THEN "open" ELSE opens[d]
  BY <1>1 DEF Phases
<1>9. final.at \notin Stopping \cup {"result"}
  BY <1>3 DEF Phases
<1>10. CASE ready
  <2>1. \A d \in Channel : opens'[d] = "open"
    BY <1>10
  <2>2. phase = "opening"
    BY <1>10
  <2>. HIDE DEF ready
  <2>3. \A d \in Channel : chan'[d].held <=> phase' = "open" /\ final'.at = "idle"
    BY <1>1, <1>2, <1>5, <1>6, <1>10, <2>2 DEF Phases
  <2>4. Phases'
    BY <1>1, <1>2, <1>7, <1>9, <1>10, <2>1, <2>3, <2>2 DEF Phases
  <2>5. Disk'
    <3>1. phase' = "open" => final.at \notin Finished
      BY <1>1, <1>2, <1>10, <2>2 DEF Phases, Finished
    <3>2. \A d \in Channel :
             /\ d \in handles' <=> opens'[d] = "open"
             /\ d \in temps' <=> d \in handles'
      BY <1>1, <1>8, <2>2 DEF Disk
    <3>3. phase' # "discarded"
      BY <1>2, <1>10
    <3>. QED
      BY <1>1, <3>1, <3>2, <3>3 DEF Disk, Channel, Readers
  <2>. QED
    BY <1>1, <2>4, <2>5 DEF FinalType
<1>11. CASE ~ready
  <2>1. phase = "opening" => \E d \in Channel : opens'[d] # "open"
    BY <1>11
  <2>. HIDE DEF ready
  <2>2. phase' = phase /\ \A d \in Channel : ~chan'[d].held
    BY <1>2, <1>5, <1>6, <1>11
  <2>3. phase = "opening" =>
          /\ \A d \in Channel : opens'[d] \in {"pending", "open"}
          /\ \E d \in Channel : opens'[d] = "pending"
    BY <1>8, <2>1 DEF Phases
  <2>4. phase = "failed" => \E d \in Channel : opens'[d] = "failed"
    <3>. SUFFICES ASSUME phase = "failed"
                  PROVE  \E d \in Channel : opens'[d] = "failed"
      OBVIOUS
    <3>1. PICK d \in Channel : opens[d] = "failed"
      BY <1>1 DEF Phases
    <3>. QED
      BY <1>1, <1>8, <3>1
  <2>5. Phases'
    BY <1>1, <1>3, <1>7, <1>9, <2>2, <2>3, <2>4 DEF Phases
  <2>6. Disk'
    BY <1>1, <1>3, <1>8, <2>2 DEF Disk, Channel, Readers
  <2>. QED
    BY <1>1, <2>5, <2>6 DEF FinalType
<1>. QED
  BY <1>10, <1>11

LEMMA FailsFiles ==
    ASSUME FInv, NEW c \in Channel, ChannelFails(c)
    PROVE  FinalType' /\ Phases' /\ Disk'
<1>. USE DEF FInv, IInv
<1>1. /\ opens[c] = "pending" /\ opens' = [opens EXCEPT ![c] = "failed"]
      /\ handles' = handles /\ temps' = temps /\ final' = final /\ chan' = chan
      /\ stopped' = TRUE /\ phase' = "failed"
  BY DEF ChannelFails, disk
<1>2. opens' \in [Channel -> {"none", "pending", "open", "failed"}]
  BY <1>1 DEF Phases
<1>3. \A d \in Channel : opens'[d] = IF d = c THEN "failed" ELSE opens[d]
  BY <1>1 DEF Phases
<1>4. phase \in {"opening", "failed"}
  BY <1>1 DEF Phases
<1>5. Phases'
  BY <1>1, <1>2, <1>3, <1>4 DEF Phases
<1>6. Disk'
  BY <1>1, <1>3, <1>4 DEF Disk
<1>. QED
  BY <1>1, <1>5, <1>6 DEF FinalType

\* A step of stop() that leaves open what is open.
LEMMA StopOnly ==
    ASSUME FInv, NEW v \in Stopping, final.at \in Stopping, final'.at = v,
           UNCHANGED <<phase, opens, stopped, chan>>
    PROVE  Phases'
<1>1. final.at # "idle" /\ v # "idle" /\ phase = "open"
  BY Stages DEF FInv, Phases
<1>. QED
  BY <1>1 DEF FInv, Phases

LEMMA ReadFiles ==
    ASSUME FInv, Drained \/ InterleaveOpens \/ HeaderWritten
    PROVE  FinalType' /\ Phases' /\ Disk'
<1>. USE DEF FInv, IInv
<1>1. CASE Drained
  <2>. DEFINE v == CASE failed -> "discardThrow"
                     [] ~failed /\ Total = 0 -> "discardNothing"
                     [] ~failed /\ Total > 0 -> "openMic"
  <2>1. Total \in Nat
    BY DEF TimelineType, ChannelType, Channel, Total, Bigger
  <2>2. failed \/ Total = 0 \/ Total > 0
    BY <2>1
  <2>3. v \in {"discardThrow", "discardNothing", "openMic"}
    BY <2>2
  <2>4. final' = [final EXCEPT !.total = Total, !.at = v] /\ final.at = "draining"
    BY <1>1 DEF Drained
  <2>. HIDE DEF v
  <2>5. v \in Stopping /\ v \in Stage /\ final.at \in Stopping
    BY <2>3, <2>4 DEF Stopping, Stage, Finished
  <2>6. FinalType' /\ final'.at = v
    BY <2>1, <2>4, <2>5 DEF FinalType
  <2>7. UNCHANGED <<phase, opens, stopped, chan, handles, temps>>
    BY <1>1 DEF Drained, start, flags, disk
  <2>8. Phases'
    BY <2>5, <2>6, <2>7, StopOnly
  <2>9. Disk'
    BY <2>3, <2>4, <2>6, <2>7 DEF Disk, Finished
  <2>. QED
    BY <2>6, <2>8, <2>9
<1>2. CASE InterleaveOpens
  <2>. DEFINE v == Opening[final.at].next
              h == Opening[final.at].handle
  <2>1. /\ final.at \in {"openMic", "openBot", "openOut"}
        /\ final' = [final EXCEPT !.at = v]
        /\ handles' = handles \cup {h}
        /\ temps' = IF final.at = "openOut" THEN temps \cup {"out"} ELSE temps
        /\ UNCHANGED <<phase, opens, stopped, chan>>
    BY <1>2 DEF InterleaveOpens, Opening, start, flags
  <2>2. /\ final.at = "openMic" => v = "openBot"
        /\ final.at = "openBot" => v = "openOut"
        /\ final.at = "openOut" => v = "header"
        /\ h \in Readers
    BY <2>1 DEF Opening, Readers
  <2>. HIDE DEF v, h
  <2>3. v \in Stopping /\ v \in Stage /\ final.at \in Stopping
    BY <2>1, <2>2 DEF Stopping, Stage, Finished
  <2>4. FinalType' /\ final'.at = v
    BY <2>1, <2>3, AtSet
  <2>5. Phases'
    BY <2>1, <2>3, <2>4, StopOnly
  <2>6. Disk'
    BY <2>1, <2>2, <2>4 DEF Disk, Finished, Readers, Channel
  <2>. QED
    BY <2>4, <2>5, <2>6
<1>3. CASE HeaderWritten
  <2>1. final.at = "header" /\ UNCHANGED <<phase, opens, stopped, chan, handles, temps>>
    BY <1>3 DEF HeaderWritten, start, flags, disk
  <2>2. FinalType' /\ final'.at \in {"read", "close", "closeThrow"}
    <3>1. CASE final.total <= HeaderLimit
      <4>1. final' = NextBlock(final)
        BY <1>3, <3>1 DEF HeaderWritten
      <4>. DEFINE blank == [i \in 1..Block |-> Silence]
      <4>2. blank \in Buffer
        BY BoundsAssumption DEF Buffer, Sample, Silence
      <4>3. final' = [final EXCEPT
                         !.at = IF final.done < final.total THEN "read" ELSE "close",
                         !.side = "mic", !.got = 0, !.left = blank, !.right = blank]
        BY <4>1 DEF NextBlock
      <4>. HIDE DEF blank
      <4>. QED
        BY <4>2, <4>3 DEF FinalType, Stage, Channel
    <3>2. CASE ~(final.total <= HeaderLimit)
      <4>1. final' = [final EXCEPT !.at = "closeThrow"] /\ "closeThrow" \in Stage
        BY <1>3, <3>2 DEF HeaderWritten, Stage
      <4>. QED
        BY <4>1, AtSet
    <3>. QED
      BY <3>1, <3>2
  <2>3. final'.at \in Stopping /\ final.at \in Stopping
    BY <2>1, <2>2 DEF Stopping, Stage, Finished
  <2>4. Phases'
    BY <2>1, <2>3, StopOnly
  <2>5. Disk'
    BY <2>1, <2>2 DEF Disk, Finished
  <2>. QED
    BY <2>2, <2>4, <2>5
<1>. QED
  BY <1>1, <1>2, <1>3

\* The block under way: its size, and where it lies.
LEMMA BlockFacts ==
    ASSUME FinalType, Blocks, final.at \in Reading
    PROVE  /\ Count \in 1..Block /\ final.got \in 0..Count
           /\ final.done \in Nat /\ final.total \in Nat /\ final.done < final.total
           /\ Count <= final.total - final.done
           /\ Count = Block \/ Count = final.total - final.done
           /\ final.left \in [1..Block -> Sample]
           /\ final.right \in [1..Block -> Sample]
BY BlockAssumption DEF FinalType, Blocks, Count, Smaller

LEMMA FillType ==
    ASSUME FInv, NEW b \in [1..Block -> Sample], NEW n \in Nat
    PROVE  /\ Fill(b, n) \in [1..Block -> Sample]
           /\ \A i \in 1..Block :
                 Fill(b, n)[i] =
                    IF final.got < i /\ i <= final.got + n
                    THEN At(chan[final.side].file, final.done + i - 1) ELSE b[i]
<1>1. final.done \in Nat /\ chan[final.side].file \in Seq(Sample)
  BY DEF FInv, IInv, FinalType, TimelineType, ChannelType
<1>2. \A i \in 1..Block : At(chan[final.side].file, final.done + i - 1) \in Sample
  <2>. SUFFICES ASSUME NEW i \in 1..Block
                PROVE  At(chan[final.side].file, final.done + i - 1) \in Sample
    OBVIOUS
  <2>1. final.done + i - 1 \in Nat
    BY <1>1, BlockAssumption
  <2>. QED
    BY <1>1, <2>1, AtIsSample
<1>. QED
  BY <1>2 DEF Fill

\* What ReadSome, SideRead and FrameWritten make of stop()'s locals.
LEMMA ReadSomeFinal ==
    ASSUME FInv, Blocks, ReadSome
    PROVE  \E n \in 1..(Count - final.got) :
              /\ final.done + final.got + n <= Len(chan[final.side].file)
              /\ FinalType' /\ final.at = "read" /\ final'.at = "read"
              /\ final'.total = final.total /\ final'.done = final.done
              /\ final'.side = final.side /\ final'.got = final.got + n
              /\ final'.frames = final.frames
              /\ final'.left = IF final.side = "mic" THEN Fill(final.left, n)
                               ELSE final.left
              /\ final'.right = IF final.side = "mic" THEN final.right
                                ELSE Fill(final.right, n)
<1>1. final.at = "read" /\ final.at \in Reading
  BY DEF ReadSome, Reading
<1>2. PICK n \in 1..(Count - final.got) :
         /\ final.done + final.got + n <= Len(chan[final.side].file)
         /\ final' = IF final.side = "mic"
                     THEN [final EXCEPT !.got = @ + n, !.left  = Fill(@, n)]
                     ELSE [final EXCEPT !.got = @ + n, !.right = Fill(@, n)]
  BY DEF ReadSome
<1>3. n \in Nat /\ final.got + n \in Nat
  BY <1>1, BlockFacts DEF FInv
<1>. DEFINE l == Fill(final.left, n)
            r == Fill(final.right, n)
<1>4. l \in Buffer /\ r \in Buffer
  BY <1>1, <1>3, BlockFacts, FillType DEF FInv, Buffer
<1>5. final' = IF final.side = "mic"
               THEN [final EXCEPT !.got = final.got + n, !.left  = l]
               ELSE [final EXCEPT !.got = final.got + n, !.right = r]
  BY <1>2 DEF FInv, FinalType
<1>. HIDE DEF l, r
<1>6. /\ FinalType' /\ final'.at = "read"
      /\ final'.total = final.total /\ final'.done = final.done
      /\ final'.side = final.side /\ final'.got = final.got + n
      /\ final'.frames = final.frames
      /\ final'.left = IF final.side = "mic" THEN l ELSE final.left
      /\ final'.right = IF final.side = "mic" THEN final.right ELSE r
  BY <1>1, <1>3, <1>4, <1>5 DEF FInv, FinalType
<1>. QED
  BY <1>1, <1>2, <1>6 DEF l, r

LEMMA SideReadFinal ==
    ASSUME FInv, SideRead
    PROVE  /\ FinalType' /\ final.at = "read"
           /\ final'.total = final.total /\ final'.done = final.done
           /\ final'.left = final.left /\ final'.right = final.right
           /\ final'.frames = final.frames
           /\ final.side = "mic" =>
                 final'.at = "read" /\ final'.side = "bot" /\ final'.got = 0
           /\ final.side # "mic" => final'.at = "frame" /\ final'.got = final.got
<1>1. /\ final.at = "read"
      /\ final' = IF final.side = "mic"
                  THEN [final EXCEPT !.side = "bot", !.got = 0]
                  ELSE [final EXCEPT !.at = "frame"]
  BY DEF SideRead
<1>. QED
  BY <1>1 DEF FInv, FinalType, Channel, Stage

\* The frames of the block under way.
Row == [i \in 1..Count |-> [mic |-> final.left[i], bot |-> final.right[i]]]

LEMMA RowType ==
    ASSUME FInv, Blocks, final.at \in Reading
    PROVE  Row \in Seq(Frame) /\ Len(Row) = Count
<1>1. /\ Count \in 1..Block /\ Count \in Nat
      /\ final.left \in [1..Block -> Sample] /\ final.right \in [1..Block -> Sample]
  BY BlockFacts, BlockAssumption DEF FInv
<1>2. \A i \in 1..Count : [mic |-> final.left[i], bot |-> final.right[i]] \in Frame
  <2>. SUFFICES ASSUME NEW i \in 1..Count
                PROVE  [mic |-> final.left[i], bot |-> final.right[i]] \in Frame
    OBVIOUS
  <2>1. final.left[i] \in Sample /\ final.right[i] \in Sample
    BY <1>1, BlockAssumption
  <2>. QED
    BY <2>1 DEF Frame, Channel
<1>3. Row \in [1..Count -> Frame]
  BY <1>2 DEF Row
<1>. QED
  BY <1>1, <1>3, FunctionIsSeq

LEMMA FrameFinal ==
    ASSUME FInv, Blocks, FrameWritten
    PROVE  /\ FinalType' /\ final.at = "frame"
           /\ final'.total = final.total /\ final'.done = final.done + Block
           /\ final'.frames = final.frames \o Row
           /\ final'.side = "mic" /\ final'.got = 0
           /\ final'.left = [i \in 1..Block |-> Silence]
           /\ final'.right = [i \in 1..Block |-> Silence]
           /\ final'.at = IF final.done + Block < final.total THEN "read" ELSE "close"
<1>1. final.at = "frame" /\ final.at \in Reading
  BY DEF FrameWritten, Reading
<1>. DEFINE fs == final.frames \o Row
            n == final.done + Block
            blank == [i \in 1..Block |-> Silence]
            f == [final EXCEPT !.done = n, !.frames = fs]
<1>2. final' = NextBlock(f)
  BY DEF FrameWritten, Row, FInv, FinalType
<1>3. n \in Nat
  BY <1>1, BlockFacts, BlockAssumption DEF FInv
<1>4. fs \in Seq(Frame)
  BY <1>1, RowType DEF FInv, FinalType
<1>5. blank \in Buffer
  BY BoundsAssumption DEF Buffer, Sample, Silence
<1>6. final' = [f EXCEPT !.at = IF f.done < f.total THEN "read" ELSE "close",
                         !.side = "mic", !.got = 0, !.left = blank, !.right = blank]
  BY <1>2 DEF NextBlock
<1>. HIDE DEF fs, n, blank
<1>7. /\ f.done = n /\ f.total = final.total /\ f.frames = fs
      /\ f \in [at : Stage, total : Nat, done : Nat, side : Channel, got : Nat,
                left : Buffer, right : Buffer, frames : Seq(Frame)]
  BY <1>3, <1>4 DEF FInv, FinalType
<1>. HIDE DEF f
<1>8. /\ FinalType' /\ final'.total = f.total /\ final'.done = f.done
      /\ final'.frames = f.frames /\ final'.side = "mic" /\ final'.got = 0
      /\ final'.left = blank /\ final'.right = blank
      /\ final'.at = IF f.done < f.total THEN "read" ELSE "close"
  BY <1>5, <1>6, <1>7 DEF FinalType, Stage, Channel
<1>. QED
  BY <1>1, <1>7, <1>8 DEF fs, n, blank

LEMMA BlockFiles ==
    ASSUME FInv, Blocks, ReadSome \/ SideRead \/ FrameWritten
    PROVE  FinalType' /\ Phases' /\ Disk'
<1>1. /\ FinalType' /\ final.at \in {"read", "frame"}
      /\ final'.at \in {"read", "frame", "close"}
  BY ReadSomeFinal, SideReadFinal, FrameFinal DEF FInv
<1>2. UNCHANGED <<phase, opens, stopped, chan, handles, temps>>
  BY DEF ReadSome, SideRead, FrameWritten, start, flags, disk
<1>3. final.at \in Stopping /\ final'.at \in Stopping
  BY <1>1 DEF Stopping, Stage, Finished
<1>4. Phases'
  BY <1>2, <1>3, StopOnly
<1>5. Disk'
  BY <1>1, <1>2 DEF FInv, Disk, Finished
<1>. QED
  BY <1>1, <1>4, <1>5

\* The end of stop(), whichever way it goes.
LEMMA EndFiles ==
    ASSUME FInv, InterleaveCloses \/ InterleaveFails \/ Renamed \/ RenameFails
                   \/ TempUnlinked \/ StopDiscards
    PROVE  FinalType' /\ Phases' /\ Disk'
<1>. USE DEF FInv, IInv
<1>1. CASE StopDiscards
  <2>. DEFINE v == Outcome[final.at]
  <2>1. /\ final.at \in {"discardResult", "discardNothing", "discardThrow"}
        /\ final' = [final EXCEPT !.at = v]
        /\ handles' = handles \ Channel /\ temps' = temps \ Channel
        /\ UNCHANGED <<phase, opens, stopped, chan>>
    BY <1>1 DEF StopDiscards, Outcome, start, flags, FinalType
  <2>2. v \in Finished
    BY <2>1 DEF Outcome, Finished
  <2>. HIDE DEF v
  <2>3. FinalType' /\ final'.at = v
    BY <2>1, <2>2, AtSet, Stages
  <2>4. final.at \in Stopping /\ final.at # "idle" /\ phase = "open" /\ v # "idle"
        /\ v \notin Stopping
    BY <2>1, <2>2 DEF Stopping, Stage, Finished, Phases
  <2>5. Phases'
    BY <2>1, <2>3, <2>4 DEF Phases
  <2>6. Disk'
    <3>1. handles \cap Readers = {} /\ "out" \notin temps
      BY <2>1 DEF Disk
    <3>2. handles' = {} /\ temps' = {}
      BY <2>1, <3>1 DEF Disk
    <3>. QED
      BY <2>1, <2>2, <2>3, <2>4, <3>2 DEF Disk
  <2>. QED
    BY <2>3, <2>5, <2>6
<1>2. ASSUME NEW v \in Stopping, final' = [final EXCEPT !.at = v],
             final.at \in Stopping, UNCHANGED <<phase, opens, stopped, chan>>, Disk'
      PROVE  FinalType' /\ Phases' /\ Disk'
  <2>1. FinalType' /\ final'.at = v
    BY <1>2, AtSet, Stages
  <2>. QED
    BY <1>2, <2>1, StopOnly
<1>3. CASE InterleaveCloses
  <2>. DEFINE v == IF final.at = "close" THEN "rename" ELSE "unlink"
  <2>1. /\ final.at \in {"close", "closeThrow"} /\ final' = [final EXCEPT !.at = v]
        /\ handles' = handles \ Readers /\ temps' = temps
        /\ UNCHANGED <<phase, opens, stopped, chan>>
    BY <1>3 DEF InterleaveCloses, start, flags, FinalType
  <2>2. v \in {"rename", "unlink"}
    OBVIOUS
  <2>. HIDE DEF v
  <2>3. v \in Stopping /\ final.at \in Stopping
    BY <2>1, <2>2 DEF Stopping, Stage, Finished
  <2>4. final'.at = v
    BY <2>1 DEF FinalType
  <2>5. Disk'
    BY <2>1, <2>2, <2>4 DEF Disk, Finished, Readers, Channel
  <2>. QED
    BY <1>2, <2>1, <2>3, <2>5
<1>4. CASE InterleaveFails
  <2>1. /\ final.at \in {"openMic", "openBot", "openOut", "header", "read", "frame"}
        /\ final' = [final EXCEPT !.at = "closeThrow"]
        /\ UNCHANGED <<phase, opens, stopped, chan, handles, temps>>
    BY <1>4 DEF InterleaveFails, start, flags, disk, Opening
  <2>2. "closeThrow" \in Stopping /\ final.at \in Stopping
    BY <2>1 DEF Stopping, Stage, Finished
  <2>3. final'.at = "closeThrow"
    BY <2>1 DEF FinalType
  <2>4. Disk'
    BY <2>1, <2>3 DEF Disk, Finished
  <2>. QED
    BY <1>2, <2>1, <2>2, <2>4
<1>5. CASE Renamed
  <2>1. /\ final.at = "rename" /\ final' = [final EXCEPT !.at = "discardResult"]
        /\ handles' = handles /\ temps' = temps \ {"out"}
        /\ UNCHANGED <<phase, opens, stopped, chan>>
    BY <1>5 DEF Renamed, start, flags
  <2>2. "discardResult" \in Stopping /\ final.at \in Stopping
    BY <2>1 DEF Stopping, Stage, Finished
  <2>3. final'.at = "discardResult"
    BY <2>1 DEF FinalType
  <2>4. Disk'
    BY <2>1, <2>3 DEF Disk, Finished, Channel
  <2>. QED
    BY <1>2, <2>1, <2>2, <2>4
<1>6. CASE RenameFails
  <2>1. /\ final.at = "rename" /\ final' = [final EXCEPT !.at = "unlink"]
        /\ UNCHANGED <<phase, opens, stopped, chan, handles, temps>>
    BY <1>6 DEF RenameFails, start, flags, disk
  <2>2. "unlink" \in Stopping /\ final.at \in Stopping
    BY <2>1 DEF Stopping, Stage, Finished
  <2>3. final'.at = "unlink"
    BY <2>1 DEF FinalType
  <2>4. Disk'
    BY <2>1, <2>3 DEF Disk, Finished
  <2>. QED
    BY <1>2, <2>1, <2>2, <2>4
<1>7. CASE TempUnlinked
  <2>1. /\ final.at = "unlink" /\ final' = [final EXCEPT !.at = "discardThrow"]
        /\ handles' = handles /\ temps' = temps \ {"out"}
        /\ UNCHANGED <<phase, opens, stopped, chan>>
    BY <1>7 DEF TempUnlinked, start, flags
  <2>2. "discardThrow" \in Stopping /\ final.at \in Stopping
    BY <2>1 DEF Stopping, Stage, Finished
  <2>3. final'.at = "discardThrow"
    BY <2>1 DEF FinalType
  <2>4. Disk'
    BY <2>1, <2>3 DEF Disk, Finished, Channel
  <2>. QED
    BY <1>2, <2>1, <2>2, <2>4
<1>. QED
  BY <1>1, <1>3, <1>4, <1>5, <1>6, <1>7

\* Phases and Disk, and what stop() has in its locals, are kept by every step.
LEMMA FilesStep ==
    ASSUME FInv, Blocks, Next
    PROVE  FInv'
<1>1. IInv'
  BY Inductive DEF FInv
<1>2. CASE Tick
  <2>1. UNCHANGED filed /\ final' = final
    BY <1>2 DEF Tick, filed, Held, start, flags, disk
  <2>. QED
    BY <1>1, <2>1, FiledKeeps DEF FInv, FinalType
<1>3. CASE Caller
  BY <1>1, <1>3, CallerFiles DEF FInv
<1>4. CASE \E c \in Channel : OpDone(c)
  <2>1. PICK c \in Channel : OpDone(c)
    BY <1>4
  <2>2. \A d \in Channel : chan'[d].held = chan[d].held
    BY <2>1 DEF OpDone, FInv, IInv, TimelineType, ChannelType
  <2>3. UNCHANGED filed /\ final' = final
    BY <2>1, <2>2 DEF OpDone, filed, Held, start, flags, disk
  <2>. QED
    BY <1>1, <2>3, FiledKeeps DEF FInv, FinalType
<1>5. CASE \E c \in Channel : OpFails(c)
  <2>1. PICK c \in Channel : OpFails(c)
    BY <1>5
  <2>2. \A d \in Channel : chan'[d].held = chan[d].held
    BY <2>1 DEF OpFails, FInv, IInv, TimelineType, ChannelType
  <2>3. UNCHANGED <<phase, opens, final, handles, temps>> /\ stopped' = TRUE
    BY <2>1 DEF OpFails, start, disk
  <2>4. Phases'
    BY <2>2, <2>3 DEF FInv, Phases
  <2>5. Disk'
    BY <2>3 DEF FInv, Disk
  <2>. QED
    BY <1>1, <2>3, <2>4, <2>5 DEF FInv, FinalType
<1>6. CASE \E c \in Channel : ChannelOpens(c) \/ ChannelFails(c)
  BY <1>1, <1>6, OpensFiles, FailsFiles DEF FInv
<1>7. CASE DirectoryMade \/ DirectoryFails \/ StartDiscards
  BY <1>1, <1>7, StartFiles DEF FInv
<1>8. CASE Drained \/ InterleaveOpens \/ HeaderWritten
  BY <1>1, <1>8, ReadFiles DEF FInv
<1>9. CASE ReadSome \/ SideRead \/ FrameWritten
  BY <1>1, <1>9, BlockFiles DEF FInv
<1>10. CASE \/ InterleaveCloses \/ InterleaveFails \/ Renamed \/ RenameFails
            \/ TempUnlinked \/ StopDiscards
  BY <1>1, <1>10, EndFiles DEF FInv
<1>. QED
  BY <1>2, <1>3, <1>4, <1>5, <1>6, <1>7, <1>8, <1>9, <1>10
  DEF Next, Completes, Fails

-----------------------------------------------------------------------------
(* What the files will carry.                                               *)

LEMMA PerformAt ==
    ASSUME NEW file \in Seq(Sample), NEW op \in Op, NEW p \in Nat
    PROVE  At(Perform(file, op), p) =
              IF Touches(op, p) THEN Effect(op) ELSE At(file, p)
<1>1. op.at \in Nat /\ op.count \in Nat /\ op.does \in {"write", "truncate"}
      /\ op.chunk \in Sample /\ Len(file) \in Nat
  BY LenProperties DEF Op
<1>2. CASE op.does = "write"
  <2>. DEFINE n == Bigger(Len(file), op.at + op.count)
              w == Write(file, op)
  <2>1. n \in Nat /\ n >= Len(file) /\ n >= op.at + op.count
    BY <1>1 DEF Bigger
  <2>. HIDE DEF n
  <2>2. w = [i \in 1..n |-> IF op.at < i /\ i <= op.at + op.count
                            THEN op.chunk ELSE At(file, i - 1)]
    BY DEF Write, n
  <2>3. Len(w) = n
    <3>1. \A i \in 1..n : At(file, i - 1) \in Sample
      BY <2>1, AtIsSample
    <3>. HIDE DEF w
    <3>2. w \in [1..n -> Sample]
      BY <1>1, <2>2, <3>1
    <3>. QED
      BY <2>1, <3>2, FunctionIsSeq
  <2>4. At(w, p) = IF p < n THEN w[p + 1] ELSE Silence
    BY <2>3 DEF At
  <2>5. p < n => p + 1 \in 1..n
    BY <2>1
  <2>6. Perform(file, op) = w
    BY <1>2 DEF Perform
  <2>. HIDE DEF w
  <2>7. CASE p < n
    <3>1. p + 1 - 1 = p
      OBVIOUS
    <3>2. w[p + 1] = IF op.at < p + 1 /\ p + 1 <= op.at + op.count
                     THEN op.chunk ELSE At(file, p)
      BY <2>2, <2>5, <2>7, <3>1
    <3>. QED
      BY <1>1, <1>2, <2>4, <2>6, <2>7, <3>2 DEF Touches, Effect
  <2>8. CASE ~(p < n)
    <3>1. At(file, p) = Silence
      BY <1>1, <2>1, <2>8 DEF At
    <3>. QED
      BY <1>1, <1>2, <2>1, <2>4, <2>6, <2>8, <3>1 DEF Touches
  <2>. QED
    BY <2>7, <2>8
<1>3. CASE op.does = "truncate"
  <2>. DEFINE w == Truncate(file, op)
  <2>1. w = [i \in 1..op.at |-> At(file, i - 1)]
    BY DEF Truncate
  <2>2. Perform(file, op) = w
    BY <1>3 DEF Perform
  <2>. HIDE DEF w
  <2>3. Len(w) = op.at
    <3>1. \A i \in 1..op.at : At(file, i - 1) \in Sample
      BY <1>1, AtIsSample
    <3>2. w \in [1..op.at -> Sample]
      BY <2>1, <3>1
    <3>. QED
      BY <1>1, <3>2, FunctionIsSeq
  <2>4. p < op.at => w[p + 1] = At(file, p)
    <3>1. p < op.at => p + 1 \in 1..op.at
      BY <1>1
    <3>2. p + 1 - 1 = p
      OBVIOUS
    <3>. QED
      BY <2>1, <3>1, <3>2
  <2>5. At(w, p) = IF p < op.at THEN w[p + 1] ELSE Silence
    BY <2>3 DEF At
  <2>. QED
    BY <1>1, <1>3, <2>2, <2>4, <2>5 DEF Touches, Effect
<1>. QED
  BY <1>1, <1>2, <1>3

\* One more operation, at the end of a chain.
LEMMA SaysAppend ==
    ASSUME NEW q \in Seq(Op), NEW op \in Op, NEW file, NEW p, NEW v,
           Says(q, file, p, v)
    PROVE  Says(Append(q, op), file, p, IF Touches(op, p) THEN Effect(op) ELSE v)
<1>. DEFINE r == Append(q, op)
            n == Len(q)
            u == IF Touches(op, p) THEN Effect(op) ELSE v
<1>1. n \in Nat /\ Len(r) = n + 1 /\ (\A i \in 1..n : r[i] = q[i]) /\ r[n + 1] = op
  BY AppendProperties, LenProperties
<1>2. /\ (\A i \in 1..n : ~Touches(q[i], p)) => At(file, p) = v
      /\ \A i \in 1..n : Touches(q[i], p) /\ (\A j \in (i + 1)..n : ~Touches(q[j], p))
                            => Effect(q[i]) = v
  BY DEF Says
<1>. HIDE DEF r, n
<1>3. n + 1 \in 1..(n + 1) /\ \A i \in 1..n : i \in 1..(n + 1)
  BY <1>1
<1>4. (\A i \in 1..(n + 1) : ~Touches(r[i], p)) => At(file, p) = u
  BY <1>1, <1>2, <1>3
<1>5. ASSUME NEW i \in 1..(n + 1), Touches(r[i], p),
             \A j \in (i + 1)..(n + 1) : ~Touches(r[j], p)
      PROVE  Effect(r[i]) = u
  <2>1. CASE i = n + 1
    BY <1>1, <1>5, <2>1
  <2>2. CASE i # n + 1
    <3>1. i \in 1..n /\ n + 1 \in (i + 1)..(n + 1)
      BY <1>1, <2>2
    <3>2. ~Touches(op, p)
      BY <1>1, <1>5, <3>1
    <3>3. \A j \in (i + 1)..n : j \in 1..n /\ j \in (i + 1)..(n + 1)
      BY <1>1, <3>1
    <3>4. \A j \in (i + 1)..n : ~Touches(q[j], p)
      BY <1>1, <1>5, <3>3
    <3>. QED
      BY <1>1, <1>2, <1>5, <3>1, <3>2, <3>4
  <2>. QED
    BY <2>1, <2>2
<1>. QED
  BY <1>1, <1>4, <1>5 DEF Says, r, n

\* The first operation of a chain, done.
LEMMA SaysTail ==
    ASSUME NEW q \in Seq(Op), q # << >>, NEW file \in Seq(Sample), NEW p \in Nat,
           NEW v, Says(q, file, p, v)
    PROVE  Says(Tail(q), Perform(file, Head(q)), p, v)
<1>. DEFINE r == Tail(q)
            n == Len(q)
            op == Head(q)
            f == Perform(file, op)
<1>1. /\ n \in Nat \ {0} /\ op \in Op /\ op = q[1] /\ Len(r) = n - 1
      /\ \A i \in 1..(n - 1) : r[i] = q[i + 1]
  BY EmptySeq, HeadTailProperties
<1>2. At(f, p) = IF Touches(op, p) THEN Effect(op) ELSE At(file, p)
  BY <1>1, PerformAt
<1>3. /\ (\A i \in 1..n : ~Touches(q[i], p)) => At(file, p) = v
      /\ \A i \in 1..n : Touches(q[i], p) /\ (\A j \in (i + 1)..n : ~Touches(q[j], p))
                            => Effect(q[i]) = v
  BY DEF Says
<1>. HIDE DEF r, n, op, f
<1>4. \A j \in 2..n : j - 1 \in 1..(n - 1) /\ q[j] = r[j - 1]
  <2>. SUFFICES ASSUME NEW j \in 2..n PROVE j - 1 \in 1..(n - 1) /\ q[j] = r[j - 1]
    OBVIOUS
  <2>1. j - 1 \in 1..(n - 1) /\ (j - 1) + 1 = j
    BY <1>1
  <2>. QED
    BY <1>1, <2>1
<1>5. ASSUME \A i \in 1..(n - 1) : ~Touches(r[i], p)
      PROVE  At(f, p) = v
  <2>1. \A j \in 2..n : ~Touches(q[j], p)
    BY <1>4, <1>5
  <2>2. 1 \in 1..n /\ \A j \in 1..n : j = 1 \/ j \in 2..n
    BY <1>1
  <2>3. CASE Touches(op, p)
    <3>1. \A j \in (1 + 1)..n : ~Touches(q[j], p)
      BY <2>1
    <3>. QED
      BY <1>1, <1>2, <1>3, <2>2, <2>3, <3>1
  <2>4. CASE ~Touches(op, p)
    BY <1>1, <1>2, <1>3, <2>1, <2>2, <2>4
  <2>. QED
    BY <2>3, <2>4
<1>6. ASSUME NEW i \in 1..(n - 1), Touches(r[i], p),
             \A j \in (i + 1)..(n - 1) : ~Touches(r[j], p)
      PROVE  Effect(r[i]) = v
  <2>1. i + 1 \in 1..n /\ r[i] = q[i + 1]
    BY <1>1
  <2>2. \A j \in (i + 1 + 1)..n : j \in 2..n /\ j - 1 \in (i + 1)..(n - 1)
    BY <1>1
  <2>3. \A j \in (i + 1 + 1)..n : ~Touches(q[j], p)
    BY <1>4, <1>6, <2>2
  <2>. QED
    BY <1>3, <1>6, <2>1, <2>3
<1>. QED
  BY <1>1, <1>5, <1>6 DEF Says, r, n, op, f

LEMMA InitLands == Init => Lands
<1>. SUFFICES ASSUME Init PROVE Lands
  OBVIOUS
<1>1. /\ \A c \in Channel : chan[c] = NewChannel /\ heard[c] = << >>
      /\ heard = [c \in Channel |-> << >>]
  BY DEF Init
<1>2. DOMAIN << >> = {} /\ Len(<< >>) = 0
  OBVIOUS
<1>3. \A c \in Channel, p \in Nat :
         HeardAt(c, p) = Silence /\ At(chan[c].file, p) = Silence
         /\ Len(chan[c].queue) = 0
  BY <1>1, <1>2 DEF HeardAt, NewChannel, At
<1>. QED
  BY <1>1, <1>2, <1>3 DEF Lands, Says

\* What Lands speaks of, but for the failure of an operation.
LEMMA LandsKeeps ==
    ASSUME Lands, heard' = heard, failed' = failed \/ failed' = TRUE,
           ~failed' => \A c \in Channel : /\ chan'[c].queue = chan[c].queue
                                          /\ chan'[c].file = chan[c].file,
           \A c \in Channel : chan'[c].head = chan[c].head
    PROVE  Lands'
BY DEF Lands, HeardAt

\* A write or a cut: heard on the channel is what its new operation leaves there.
LEMMA LandsEnqueue ==
    ASSUME TimelineType, Lands, NEW c \in Channel, NEW head \in Nat,
           NEW op \in Op, Enqueue(c, head, op), failed' = failed,
           NEW h, heard' = [heard EXCEPT ![c] = h], DOMAIN h \subseteq 0..(head - 1),
           \A p \in Nat : (IF p \in DOMAIN h THEN h[p] ELSE Silence)
                          = IF Touches(op, p) THEN Effect(op) ELSE HeardAt(c, p)
    PROVE  Lands'
<1>1. /\ heard' = [d \in Channel |-> heard'[d]] /\ heard'[c] = h
      /\ \A d \in Channel \ {c} : heard'[d] = heard[d]
  BY DEF Lands
<1>2. chan' = [chan EXCEPT ![c] =
                  [chan[c] EXCEPT !.head = head, !.queue = Append(chan[c].queue, op)]]
  BY DEF Enqueue, TimelineType, ChannelType
<1>3. /\ chan'[c].head = head /\ chan'[c].queue = Append(chan[c].queue, op)
      /\ chan'[c].file = chan[c].file /\ chan[c].queue \in Seq(Op)
      /\ \A d \in Channel \ {c} : chan'[d] = chan[d]
  BY <1>2 DEF TimelineType, ChannelType
<1>4. \A d \in Channel : DOMAIN heard'[d] \subseteq 0..(chan'[d].head - 1)
  BY <1>1, <1>3 DEF Lands
<1>5. ASSUME ~failed, NEW d \in Channel, NEW p \in Nat
      PROVE  Says(chan'[d].queue, chan'[d].file, p, HeardAt(d, p)')
  <2>1. Says(chan[d].queue, chan[d].file, p, HeardAt(d, p))
    BY <1>5 DEF Lands
  <2>2. CASE d = c
    <3>1. HeardAt(c, p)' = IF Touches(op, p) THEN Effect(op) ELSE HeardAt(c, p)
      BY <1>1 DEF HeardAt
    <3>2. Says(Append(chan[c].queue, op), chan[c].file, p,
               IF Touches(op, p) THEN Effect(op) ELSE HeardAt(c, p))
      BY <1>3, <2>1, <2>2, SaysAppend
    <3>. QED
      BY <1>3, <2>2, <3>1, <3>2
  <2>3. CASE d # c
    <3>1. HeardAt(d, p)' = HeardAt(d, p) /\ chan'[d] = chan[d]
      BY <1>1, <1>3, <2>3 DEF HeardAt
    <3>. QED
      BY <2>1, <3>1
  <2>. QED
    BY <2>2, <2>3
<1>. QED
  BY <1>1, <1>4, <1>5 DEF Lands

LEMMA WriteLands ==
    ASSUME IInv, Lands, NEW c \in Channel, NEW bytes \in ChunkBytes,
           WriteChunk(c, bytes)
    PROVE  Lands'
<1>. DEFINE at == Place(c)
            count == Room(at, bytes)
            id == chunks + 1
            op == [does |-> "write", at |-> at, count |-> count, chunk |-> id]
            h == [p \in DOMAIN heard[c] \cup at..(at + count - 1) |->
                     IF p \in DOMAIN heard[c] THEN heard[c][p] ELSE id]
<1>1. at \in Nat /\ chan[c].head <= at /\ chan[c].head \in Nat
  BY DEF IInv, TimelineType, ChannelType, Place, Bigger
<1>2. failed' = failed
  BY DEF WriteChunk
<1>3. CASE at >= MaxSamples
  <2>1. chan' = chan /\ heard' = heard
    BY <1>3 DEF WriteChunk, ghosts
  <2>. QED
    BY <1>2, <2>1, LandsKeeps
<1>4. CASE ~(at >= MaxSamples)
  <2>1. bytes \div 2 \in Nat
    BY BlockAssumption
  <2>2. count \in Nat
    BY <1>1, <1>4, <2>1, CapIsNat DEF Room, Smaller
  <2>3. /\ Enqueue(c, at + count, op) /\ heard' = [heard EXCEPT ![c] = h]
        /\ chunks < MaxChunks
    BY <1>4 DEF WriteChunk
  <2>. HIDE DEF at, count
  <2>4. id \in Sample
    BY <2>3, BoundsAssumption DEF IInv, TimelineType, Sample
  <2>5. op \in Op /\ at + count \in Nat
    BY <1>1, <2>2, <2>4 DEF Op
  <2>6. DOMAIN heard[c] \subseteq 0..(chan[c].head - 1)
    BY DEF Lands
  <2>7. DOMAIN h = DOMAIN heard[c] \cup at..(at + count - 1)
    OBVIOUS
  <2>8. DOMAIN h \subseteq 0..(at + count - 1)
    BY <1>1, <2>2, <2>6, <2>7
  <2>9. ASSUME NEW p \in Nat
        PROVE  (IF p \in DOMAIN h THEN h[p] ELSE Silence)
               = IF Touches(op, p) THEN Effect(op) ELSE HeardAt(c, p)
    <3>1. Touches(op, p) <=> p \in at..(at + count - 1)
      BY <1>1, <2>2 DEF Touches
    <3>2. Effect(op) = id
      BY DEF Effect
    <3>3. p \in at..(at + count - 1) => p \notin DOMAIN heard[c]
      BY <1>1, <2>2, <2>6
    <3>4. p \in DOMAIN h =>
             h[p] = IF p \in DOMAIN heard[c] THEN heard[c][p] ELSE id
      OBVIOUS
    <3>. HIDE DEF h, op, id
    <3>. QED
      BY <2>7, <3>1, <3>2, <3>3, <3>4 DEF HeardAt
  <2>. HIDE DEF op, h
  <2>. DEFINE head == at + count
  <2>10. /\ Enqueue(c, head, op) /\ heard' = [heard EXCEPT ![c] = h]
         /\ op \in Op /\ head \in Nat /\ DOMAIN h \subseteq 0..(head - 1)
    <3>1. head \in Nat /\ head - 1 = at + count - 1
      BY <1>1, <2>2
    <3>2. Enqueue(c, head, op) /\ heard' = [heard EXCEPT ![c] = h]
      BY <2>3
    <3>. QED
      BY <2>5, <2>8, <3>1, <3>2
  <2>. HIDE DEF head
  <2>. QED
    BY <1>2, <2>9, <2>10, LandsEnqueue DEF IInv
<1>. QED
  BY <1>3, <1>4

LEMMA InterruptLands ==
    ASSUME IInv, Lands, Interrupt
    PROVE  Lands'
<1>. DEFINE op == [does |-> "truncate", at |-> now, count |-> 0, chunk |-> Silence]
            h == [p \in DOMAIN heard["bot"] \cap 0..(now - 1) |-> heard["bot"][p]]
<1>1. /\ "bot" \in Channel /\ failed' = failed
      /\ heard' = [heard EXCEPT !["bot"] = h]
  BY DEF Interrupt, Channel, flags, Lands
<1>2. DOMAIN heard["bot"] \subseteq 0..(chan["bot"].head - 1)
  BY <1>1 DEF Lands
<1>3. now \in Nat /\ chan["bot"].head \in Nat
  BY <1>1 DEF IInv, TimelineType, ChannelType
<1>4. DOMAIN h = DOMAIN heard["bot"] \cap 0..(now - 1)
  OBVIOUS
<1>5. \A p \in DOMAIN h : h[p] = heard["bot"][p]
  OBVIOUS
<1>6. CASE chan["bot"].head <= now
  <2>1. chan' = chan
    BY <1>6 DEF Interrupt
  <2>2. DOMAIN heard["bot"] \cap 0..(now - 1) = DOMAIN heard["bot"]
    BY <1>2, <1>3, <1>6
  <2>. HIDE DEF h
  <2>3. /\ heard' = [c \in Channel |-> heard'[c]] /\ heard'["bot"] = h
        /\ \A c \in Channel \ {"bot"} : heard'[c] = heard[c]
    BY <1>1 DEF Lands
  <2>4. \A c \in Channel : DOMAIN heard'[c] = DOMAIN heard[c]
    BY <1>4, <2>2, <2>3
  <2>5. \A c \in Channel, p \in Nat : HeardAt(c, p)' = HeardAt(c, p)
    BY <1>4, <1>5, <2>2, <2>3, <2>4 DEF HeardAt
  <2>. QED
    BY <1>1, <2>1, <2>3, <2>4, <2>5 DEF Lands
<1>7. CASE ~(chan["bot"].head <= now)
  <2>1. Enqueue("bot", now, op)
    BY <1>7 DEF Interrupt
  <2>2. op \in Op
    BY <1>3, BoundsAssumption DEF Op, Silence, Sample
  <2>3. DOMAIN h \subseteq 0..(now - 1)
    BY <1>4
  <2>4. ASSUME NEW p \in Nat
        PROVE  (IF p \in DOMAIN h THEN h[p] ELSE Silence)
               = IF Touches(op, p) THEN Effect(op) ELSE HeardAt("bot", p)
    <3>1. Touches(op, p) <=> p \notin 0..(now - 1)
      BY <1>3 DEF Touches
    <3>2. Effect(op) = Silence
      BY DEF Effect
    <3>. HIDE DEF h, op
    <3>. QED
      BY <1>4, <1>5, <3>1, <3>2 DEF HeardAt
  <2>. HIDE DEF op, h
  <2>. QED
    BY <1>1, <1>3, <2>1, <2>2, <2>3, <2>4, LandsEnqueue DEF IInv
<1>. QED
  BY <1>6, <1>7

LEMMA OpLands ==
    ASSUME IInv, Lands, NEW c \in Channel, OpDone(c) \/ OpFails(c)
    PROVE  Lands'
<1>1. /\ \A d \in Channel : chan'[d].head = chan[d].head
      /\ heard' = heard
      /\ failed' = failed \/ failed' = TRUE
  <2>1. heard' = heard /\ (failed' = failed \/ failed' = TRUE)
    BY DEF OpDone, OpFails, ghosts, flags
  <2>2. \A d \in Channel : chan'[d].head = chan[d].head
    <3>1. PICK f, q : chan' = [chan EXCEPT ![c] =
                                 [chan[c] EXCEPT !.file = f, !.queue = q]]
      <4>1. CASE OpDone(c)
        BY <4>1 DEF OpDone, IInv, TimelineType, ChannelType
      <4>2. CASE OpFails(c)
        <5>1. chan' = [chan EXCEPT ![c] = [chan[c] EXCEPT
                          !.file = chan[c].file, !.queue = Tail(chan[c].queue)]]
          BY <4>2 DEF OpFails, IInv, TimelineType, ChannelType
        <5>. QED
          BY <5>1
      <4>. QED
        BY <4>1, <4>2
    <3>. QED
      BY <3>1 DEF IInv, TimelineType, ChannelType
  <2>. QED
    BY <2>1, <2>2
<1>2. CASE OpFails(c)
  <2>1. failed' = TRUE
    BY <1>2 DEF OpFails
  <2>. QED
    BY <1>1, <2>1, LandsKeeps
<1>3. CASE OpDone(c)
  <2>. DEFINE q == chan[c].queue
              f == chan[c].file
  <2>1. /\ q \in Seq(Op) /\ q # << >> /\ f \in Seq(Sample) /\ failed' = failed
    BY <1>3 DEF OpDone, IInv, TimelineType, ChannelType, flags
  <2>2. chan' = [chan EXCEPT ![c] =
                    [chan[c] EXCEPT !.file = Perform(f, Head(q)), !.queue = Tail(q)]]
    BY <1>3 DEF OpDone, IInv, TimelineType, ChannelType
  <2>3. /\ chan'[c].queue = Tail(q) /\ chan'[c].file = Perform(f, Head(q))
        /\ \A d \in Channel \ {c} : chan'[d] = chan[d]
    BY <2>2 DEF IInv, TimelineType, ChannelType
  <2>4. ASSUME ~failed, NEW d \in Channel, NEW p \in Nat
        PROVE  Says(chan'[d].queue, chan'[d].file, p, HeardAt(d, p))
    <3>1. Says(chan[d].queue, chan[d].file, p, HeardAt(d, p))
      BY <2>4 DEF Lands
    <3>2. CASE d = c
      BY <2>1, <2>3, <3>1, <3>2, SaysTail
    <3>3. CASE d # c
      BY <2>3, <3>1, <3>3
    <3>. QED
      BY <3>2, <3>3
  <2>5. \A d \in Channel, p \in Nat : HeardAt(d, p)' = HeardAt(d, p)
    BY <1>1 DEF HeardAt
  <2>. QED
    BY <1>1, <2>1, <2>4, <2>5 DEF Lands
<1>. QED
  BY <1>2, <1>3

\* Taking hold of the channels and letting go of them.
LEMMA HoldLands ==
    ASSUME IInv, Lands, heard' = heard, failed' = failed \/ failed' = TRUE,
           NEW held \in [Channel -> BOOLEAN],
           chan' = [d \in Channel |-> [chan[d] EXCEPT !.held = held[d]]]
    PROVE  Lands'
<1>1. \A d \in Channel : /\ chan'[d].head = chan[d].head
                         /\ chan'[d].queue = chan[d].queue
                         /\ chan'[d].file = chan[d].file
  BY DEF IInv, TimelineType, ChannelType
<1>. QED
  BY <1>1, LandsKeeps

LEMMA LandsStep ==
    ASSUME IInv, Lands, Next
    PROVE  Lands'
<1>1. CASE Interrupt
  BY <1>1, InterruptLands
<1>2. CASE \E c \in Channel, bytes \in ChunkBytes : WriteChunk(c, bytes)
  BY <1>2, WriteLands
<1>3. CASE \E c \in Channel : OpDone(c) \/ OpFails(c)
  BY <1>3, OpLands
<1>4. CASE Stop
  <2>. DEFINE b == [c \in Channel |-> FALSE]
  <2>1. b \in [Channel -> BOOLEAN] /\ heard' = heard /\ failed' = failed
        /\ chan' = [c \in Channel |-> [chan[c] EXCEPT !.held = b[c]]]
    BY <1>4 DEF Stop, ghosts
  <2>. HIDE DEF b
  <2>. QED
    BY <2>1, HoldLands
<1>5. CASE \E c \in Channel : ChannelOpens(c)
  <2>1. PICK c \in Channel : ChannelOpens(c)
    BY <1>5
  <2>. DEFINE ready == phase = "opening" /\ \A d \in Channel : opens'[d] = "open"
              b == [d \in Channel |-> ready /\ ~stopped]
  <2>2. chan' = [d \in Channel |-> [chan[d] EXCEPT !.held = b[d]]]
        /\ heard' = heard /\ failed' = failed
    BY <2>1 DEF ChannelOpens, ghosts, flags
  <2>3. b \in [Channel -> BOOLEAN]
    BY Zenon
  <2>. HIDE DEF b
  <2>. QED
    BY <2>2, <2>3, HoldLands
<1>6. ASSUME chan' = chan, heard' = heard, failed' = failed \/ failed' = TRUE
      PROVE  Lands'
  BY <1>6, LandsKeeps
<1>7. CASE Tick \/ Start
  BY <1>6, <1>7 DEF Tick, Start, flags, ghosts
<1>8. CASE \/ DirectoryMade \/ StartDiscards \/ Drained \/ InterleaveOpens
           \/ HeaderWritten \/ ReadSome \/ SideRead \/ FrameWritten
  BY <1>6, <1>8 DEF DirectoryMade, StartDiscards, Drained, InterleaveOpens,
                    HeaderWritten, ReadSome, SideRead, FrameWritten, flags, ghosts
<1>9. CASE InterleaveCloses \/ Renamed \/ TempUnlinked \/ StopDiscards
  BY <1>6, <1>9 DEF InterleaveCloses, Renamed, TempUnlinked, StopDiscards, flags,
                    ghosts
<1>10. CASE DirectoryFails \/ (\E c \in Channel : ChannelFails(c))
            \/ InterleaveFails \/ RenameFails
  BY <1>6, <1>10 DEF DirectoryFails, ChannelFails, InterleaveFails, RenameFails,
                     flags, ghosts
<1>. QED
  BY <1>1, <1>2, <1>3, <1>4, <1>5, <1>7, <1>8, <1>9, <1>10
  DEF Next, Caller, Completes, Fails

-----------------------------------------------------------------------------
(* What interleave() makes of them.                                         *)

\* A step of stop() after the chains are drained.
Finishing ==
    \/ InterleaveOpens \/ HeaderWritten \/ ReadSome \/ SideRead \/ FrameWritten
    \/ InterleaveCloses \/ InterleaveFails \/ Renamed \/ RenameFails
    \/ TempUnlinked \/ StopDiscards

LEMMA FinishingKeeps == Finishing => UNCHANGED <<chan, failed, heard, phase>>
<1>1. ASSUME \/ InterleaveOpens \/ HeaderWritten \/ ReadSome \/ SideRead
             \/ FrameWritten
      PROVE  UNCHANGED <<chan, failed, heard, phase>>
  BY <1>1 DEF InterleaveOpens, HeaderWritten, ReadSome, SideRead, FrameWritten,
              start, flags, ghosts
<1>2. ASSUME \/ InterleaveCloses \/ InterleaveFails \/ Renamed \/ RenameFails
             \/ TempUnlinked \/ StopDiscards
      PROVE  UNCHANGED <<chan, failed, heard, phase>>
  BY <1>2 DEF InterleaveCloses, InterleaveFails, Renamed, RenameFails,
              TempUnlinked, StopDiscards, start, flags, ghosts
<1>. QED
  BY <1>1, <1>2 DEF Finishing

\* While stop() makes a WAV nothing else moves.
LEMMA OnlyStopMoves ==
    ASSUME FInv, Frames, Next
    PROVE  \/ Stop \/ Drained \/ Finishing
           \/ /\ final' = final /\ wav' = wav
              /\ final.at \in Mixing => chan' = chan /\ failed' = failed
<1>1. final.at \in Mixing =>
         /\ phase = "open" /\ final.at # "idle"
         /\ \A c \in Channel : /\ ~chan[c].held /\ opens[c] = "open"
                               /\ chan[c].queue = << >>
  BY Stages DEF FInv, Phases, Frames, ChainsDrained, Finished
<1>2. CASE Tick \/ Start \/ DirectoryMade \/ DirectoryFails \/ StartDiscards
  BY <1>1, <1>2 DEF Tick, Start, DirectoryMade, DirectoryFails, StartDiscards
<1>3. CASE \E c \in Channel : ChannelOpens(c) \/ ChannelFails(c)
  BY <1>1, <1>3 DEF ChannelOpens, ChannelFails
<1>4. CASE \E c \in Channel : OpDone(c) \/ OpFails(c)
  BY <1>1, <1>4 DEF OpDone, OpFails
<1>5. CASE Interrupt \/ (\E c \in Channel, bytes \in ChunkBytes : WriteChunk(c, bytes))
  BY <1>1, <1>5 DEF Interrupt, WriteChunk, Channel
<1>. QED
  BY <1>2, <1>3, <1>4, <1>5 DEF Next, Caller, Completes, Fails, Finishing

\* A step that adds no frame.
LEMMA FramesMove ==
    ASSUME Frames, chan' = chan, failed' = failed,
           final'.total = final.total, final'.done = final.done,
           final'.frames = final.frames,
           final'.at \notin {"idle", "draining"},
           final'.at \in Mixing => final.at \in Mixing,
           final'.at \in Mixing \ (Reading \cup Mixed) => final.done = 0,
           final'.at \in Mixed => final.done >= final.total,
           wav' = IF final'.at \in {"discardResult", "result"}
                  THEN [total |-> final.total, frames |-> final.frames] ELSE NoWav
    PROVE  Frames'
BY DEF Frames, ChainsDrained, Total

\* The first block of a WAV, and any other: its buffers are blank.
LEMMA BlankBlock ==
    ASSUME FinalType, FinalType', final'.at \in {"read", "close"},
           final'.done < final'.total \/ final'.at = "close",
           final'.side = "mic", final'.got = 0,
           final'.left = [i \in 1..Block |-> Silence],
           final'.right = [i \in 1..Block |-> Silence]
    PROVE  Blocks'
<1>1. CASE final'.at = "close"
  BY <1>1 DEF Blocks, Reading
<1>2. CASE final'.at = "read"
  <2>1. /\ final'.left \in [1..Block -> Sample] /\ final'.right \in [1..Block -> Sample]
        /\ \A i \in 1..Block : final'.left[i] = Silence /\ final'.right[i] = Silence
    BY BoundsAssumption DEF Sample, Silence
  <2>2. final'.done < final'.total /\ final'.got <= Count'
    BY <1>2, BlockAssumption DEF FinalType, Count, Smaller
  <2>3. Carries(final.left, "mic", final.got)'
    BY DEF Carries
  <2>4. Blank(final.left, final.got)' /\ Blank(final.right, 0)'
    BY <2>1, BlockAssumption DEF Blank
  <2>. QED
    BY <1>2, <2>1, <2>2, <2>3, <2>4 DEF Blocks
<1>. QED
  BY <1>1, <1>2

\* No header is refused: the cap is one that a header can describe.
LEMMA HeaderSteps ==
    ASSUME FInv, Frames, HeaderWritten
    PROVE  Frames' /\ Blocks'
<1>1. final.at = "header" /\ chan' = chan /\ failed' = failed /\ wav' = wav
  BY DEF HeaderWritten, flags
<1>2. /\ final.at \in Mixing \ (Reading \cup Mixed)
      /\ final.at \notin {"discardResult", "result"}
  BY <1>1 DEF Mixing, Reading, Mixed
<1>3. final.total = Total /\ final.done = 0 /\ final.total > 0 /\ wav = NoWav
  BY <1>2 DEF Frames
<1>4. final.total <= HeaderLimit
  <2>1. \A c \in Channel : chan[c].head \in Nat /\ chan[c].head <= MaxSamples
    BY DEF FInv, IInv, TimelineType, ChannelType, CapOn
  <2>2. Total <= MaxSamples
    BY <2>1 DEF Total, Bigger, Channel
  <2>3. MaxSamples <= HeaderLimit
    BY CapAssumption DEF MaxSamples, Smaller
  <2>4. Total \in Nat /\ MaxSamples \in Nat /\ HeaderLimit \in Nat
    BY <2>1, CapIsNat, CapAssumption DEF Total, Bigger, Channel
  <2>. QED
    BY <1>3, <2>2, <2>3, <2>4
<1>. DEFINE blank == [i \in 1..Block |-> Silence]
<1>5. blank \in Buffer
  BY BoundsAssumption DEF Buffer, Sample, Silence
<1>6. final' = [final EXCEPT !.at = IF final.done < final.total THEN "read" ELSE "close",
                             !.side = "mic", !.got = 0, !.left = blank, !.right = blank]
  BY <1>4 DEF HeaderWritten, NextBlock
<1>. HIDE DEF blank
<1>7. /\ FinalType' /\ final'.at = "read" /\ final'.total = final.total
      /\ final'.done = final.done /\ final'.frames = final.frames
      /\ final'.side = "mic" /\ final'.got = 0
      /\ final'.left = blank /\ final'.right = blank
  BY <1>3, <1>5, <1>6 DEF FInv, FinalType, Stage, Channel
<1>8. final'.at \in Mixing /\ final'.at \notin Mixed /\ final'.at \in Reading
  BY <1>7 DEF Mixing, Mixed, Reading
<1>9. Frames'
  BY <1>1, <1>2, <1>3, <1>7, <1>8, FramesMove DEF Mixed
<1>10. Blocks'
  BY <1>3, <1>7, BlankBlock DEF FInv, blank
<1>. QED
  BY <1>9, <1>10

LEMMA ReadSomeSteps ==
    ASSUME FInv, Blocks, Frames, ReadSome
    PROVE  Frames' /\ Blocks'
<1>1. chan' = chan /\ failed' = failed /\ wav' = wav
  BY DEF ReadSome, flags
<1>2. PICK n \in 1..(Count - final.got) :
         /\ FinalType' /\ final.at = "read" /\ final'.at = "read"
         /\ final'.total = final.total /\ final'.done = final.done
         /\ final'.side = final.side /\ final'.got = final.got + n
         /\ final'.frames = final.frames
         /\ final'.left = IF final.side = "mic" THEN Fill(final.left, n)
                          ELSE final.left
         /\ final'.right = IF final.side = "mic" THEN final.right
                           ELSE Fill(final.right, n)
  BY ReadSomeFinal
<1>3. final.at \in Mixing \cap Reading /\ final.at \notin Mixed
  BY <1>2 DEF Mixing, Reading, Mixed
<1>4. /\ Count \in 1..Block /\ final.got \in 0..Count /\ Count' = Count
      /\ final.done \in Nat /\ final.done < final.total
      /\ final.left \in [1..Block -> Sample] /\ final.right \in [1..Block -> Sample]
  BY <1>2, <1>3, BlockFacts DEF FInv, Count
<1>5. n \in Nat /\ final.got + n \in Nat /\ final.got + n <= Count
  BY <1>4
<1>6. Frames'
  BY <1>1, <1>2, <1>3, FramesMove DEF Frames, Mixed
<1>7. ASSUME NEW b \in [1..Block -> Sample],
             Carries(b, final.side, final.got), Blank(b, final.got)
      PROVE  /\ Fill(b, n) \in [1..Block -> Sample]
             /\ Carries(Fill(b, n), final.side, final.got + n)
             /\ Blank(Fill(b, n), final.got + n)
  <2>. DEFINE w == Fill(b, n)
  <2>1. /\ w \in [1..Block -> Sample]
        /\ \A i \in 1..Block :
              w[i] = IF final.got < i /\ i <= final.got + n
                     THEN At(chan[final.side].file, final.done + i - 1) ELSE b[i]
    BY <1>5, FillType
  <2>. HIDE DEF w
  <2>2. ASSUME NEW i \in 1..(final.got + n)
        PROVE  w[i] = At(chan[final.side].file, final.done + i - 1)
    <3>1. i \in 1..Block /\ (i \in 1..final.got \/ (final.got < i /\ i <= final.got + n))
      BY <1>4, <1>5, BlockAssumption
    <3>2. i \in 1..final.got => b[i] = At(chan[final.side].file, final.done + i - 1)
      BY <1>7 DEF Carries
    <3>. QED
      BY <2>1, <3>1, <3>2
  <2>3. ASSUME NEW i \in (final.got + n + 1)..Block
        PROVE  w[i] = Silence
    <3>1. i \in 1..Block /\ i \in (final.got + 1)..Block /\ ~(i <= final.got + n)
      BY <1>4, <1>5, BlockAssumption
    <3>. QED
      BY <1>7, <2>1, <3>1 DEF Blank
  <2>. QED
    BY <2>1, <2>2, <2>3 DEF Carries, Blank, w
<1>8. Blocks'
  <2>1. CASE final.side = "mic"
    <3>1. /\ Carries(final.left, "mic", final.got) /\ Blank(final.left, final.got)
          /\ Blank(final.right, 0)
      BY <1>2, <1>3, <2>1 DEF Blocks
    <3>2. /\ Carries(Fill(final.left, n), "mic", final.got + n)
          /\ Blank(Fill(final.left, n), final.got + n)
          /\ Fill(final.left, n) \in [1..Block -> Sample]
      BY <1>4, <1>7, <2>1, <3>1
    <3>3. Carries(final.left, "mic", final.got)' /\ Blank(final.left, final.got)'
      BY <1>1, <1>2, <2>1, <3>2 DEF Carries, Blank
    <3>4. Blank(final.right, 0)'
      BY <1>2, <2>1, <3>1 DEF Blank
    <3>. QED
      BY <1>2, <1>4, <1>5, <2>1, <3>2, <3>3, <3>4 DEF Blocks
  <2>2. CASE final.side # "mic"
    <3>1. /\ Carries(final.left, "mic", Count) /\ final.side = "bot"
          /\ Carries(final.right, "bot", final.got) /\ Blank(final.right, final.got)
      BY <1>2, <1>3, <2>2 DEF Blocks, FInv, FinalType, Channel
    <3>2. /\ Carries(Fill(final.right, n), "bot", final.got + n)
          /\ Blank(Fill(final.right, n), final.got + n)
          /\ Fill(final.right, n) \in [1..Block -> Sample]
      BY <1>4, <1>7, <3>1
    <3>3. Carries(final.right, "bot", final.got)' /\ Blank(final.right, final.got)'
      BY <1>1, <1>2, <2>2, <3>2 DEF Carries, Blank
    <3>4. Carries(final.left, "mic", Count)'
      BY <1>1, <1>2, <1>4, <2>2, <3>1 DEF Carries
    <3>. QED
      BY <1>2, <1>4, <1>5, <2>2, <3>2, <3>3, <3>4 DEF Blocks
  <2>. QED
    BY <2>1, <2>2
<1>. QED
  BY <1>6, <1>8

\* What readFully() returns short of a block is silent in the file too.
LEMMA SideReadSteps ==
    ASSUME FInv, Blocks, Frames, SideRead
    PROVE  Frames' /\ Blocks'
<1>1. /\ chan' = chan /\ failed' = failed /\ wav' = wav
      /\ final.got = Count \/ final.done + final.got >= Len(chan[final.side].file)
  BY DEF SideRead, flags
<1>2. /\ FinalType' /\ final.at = "read" /\ final.side \in Channel
      /\ final'.total = final.total /\ final'.done = final.done
      /\ final'.left = final.left /\ final'.right = final.right
      /\ final'.frames = final.frames
      /\ final.side = "mic" =>
            final'.at = "read" /\ final'.side = "bot" /\ final'.got = 0
      /\ final.side # "mic" => final'.at = "frame" /\ final'.got = final.got
  BY SideReadFinal DEF FInv, FinalType
<1>3. /\ final.at \in Mixing \cap Reading /\ final'.at \in Reading
      /\ final'.at \notin Mixed /\ final.at \notin Mixed
      /\ final'.at \notin {"idle", "draining", "discardResult", "result"}
  BY <1>2 DEF Mixing, Reading, Mixed
<1>4. /\ Count \in 1..Block /\ final.got \in 0..Count /\ Count' = Count
      /\ final.done \in Nat /\ final.done < final.total
      /\ final.left \in [1..Block -> Sample] /\ final.right \in [1..Block -> Sample]
  BY <1>2, <1>3, BlockFacts DEF FInv, Count
<1>5. Frames'
  BY <1>1, <1>2, <1>3, FramesMove DEF Frames, Mixed
<1>6. ASSUME NEW b, Carries(b, final.side, final.got), Blank(b, final.got)
      PROVE  Carries(b, final.side, Count)
  <2>. SUFFICES ASSUME NEW i \in 1..Count
                PROVE  b[i] = At(chan[final.side].file, final.done + i - 1)
    BY DEF Carries
  <2>1. CASE i <= final.got
    <3>1. i \in 1..final.got
      BY <1>4, <2>1
    <3>. QED
      BY <1>6, <3>1 DEF Carries
  <2>2. CASE ~(i <= final.got)
    <3>1. i \in (final.got + 1)..Block /\ final.got # Count
      BY <1>4, <2>2, BlockAssumption
    <3>2. Len(chan[final.side].file) \in Nat
      BY <1>2, LenProperties DEF FInv, IInv, TimelineType, ChannelType
    <3>3. ~(final.done + i - 1 < Len(chan[final.side].file))
      BY <1>1, <1>4, <3>1, <3>2
    <3>. QED
      BY <1>6, <3>1, <3>3 DEF Blank, At
  <2>. QED
    BY <1>4, <2>1, <2>2
<1>7. Blocks'
  <2>1. CASE final.side = "mic"
    <3>1. /\ Carries(final.left, "mic", final.got) /\ Blank(final.left, final.got)
          /\ Blank(final.right, 0)
      BY <1>2, <1>3, <2>1 DEF Blocks
    <3>2. Carries(final.left, "mic", Count)
      BY <1>6, <2>1, <3>1
    <3>3. Carries(final.left, "mic", Count)'
      BY <1>1, <1>2, <1>4, <3>2 DEF Carries
    <3>4. Carries(final.right, "bot", final.got)' /\ Blank(final.right, final.got)'
      BY <1>2, <2>1, <3>1 DEF Carries, Blank
    <3>. QED
      BY <1>2, <1>4, <2>1, <3>3, <3>4 DEF Blocks
  <2>2. CASE final.side # "mic"
    <3>1. /\ Carries(final.left, "mic", Count) /\ final.side = "bot"
          /\ Carries(final.right, "bot", final.got) /\ Blank(final.right, final.got)
      BY <1>2, <1>3, <2>2 DEF Blocks, Channel
    <3>2. Carries(final.right, "bot", Count)
      BY <1>6, <3>1
    <3>3. Carries(final.right, "bot", Count)' /\ Carries(final.left, "mic", Count)'
      BY <1>1, <1>2, <1>4, <3>1, <3>2 DEF Carries
    <3>. QED
      BY <1>2, <1>4, <2>2, <3>3 DEF Blocks
  <2>. QED
    BY <2>1, <2>2
<1>. QED
  BY <1>5, <1>7

\* A block written is the block of both files, and follows the one before it.
LEMMA FrameSteps ==
    ASSUME FInv, Blocks, Frames, FrameWritten
    PROVE  Frames' /\ Blocks'
<1>1. chan' = chan /\ failed' = failed /\ wav' = wav
  BY DEF FrameWritten, flags
<1>2. /\ FinalType' /\ final.at = "frame"
      /\ final'.total = final.total /\ final'.done = final.done + Block
      /\ final'.frames = final.frames \o Row
      /\ final'.side = "mic" /\ final'.got = 0
      /\ final'.left = [i \in 1..Block |-> Silence]
      /\ final'.right = [i \in 1..Block |-> Silence]
      /\ final'.at = IF final.done + Block < final.total THEN "read" ELSE "close"
  BY FrameFinal
<1>3. /\ final.at \in Mixing \cap Reading /\ final.at \notin Mixed
      /\ final'.at \in {"read", "close"} /\ final'.at \in Mixing
      /\ final'.at \notin Mixing \ (Reading \cup Mixed)
      /\ final'.at \in Mixed => final'.at = "close"
  BY <1>2 DEF Mixing, Reading, Mixed
<1>4. /\ Count \in 1..Block /\ final.done \in Nat /\ final.total \in Nat
      /\ final.done < final.total /\ Count <= final.total - final.done
      /\ Count = Block \/ Count = final.total - final.done
      /\ Block \in Nat \ {0} /\ Count \in Nat
  BY <1>3, BlockFacts, BlockAssumption DEF FInv
<1>5. /\ Carries(final.left, "mic", Count) /\ Carries(final.right, "bot", Count)
  BY <1>2, <1>3 DEF Blocks
<1>6. /\ final.frames \in Seq(Frame) /\ Row \in Seq(Frame) /\ Len(Row) = Count
      /\ Len(final.frames) = final.done
      /\ \A i \in 1..Len(final.frames) :
            final.frames[i] = [c \in Channel |-> At(chan[c].file, i - 1)]
  BY <1>3, <1>4, RowType DEF FInv, FinalType, Frames, Smaller
<1>. DEFINE fs == final.frames \o Row
<1>7. /\ Len(fs) = final.done + Count
      /\ \A i \in 1..(final.done + Count) :
            fs[i] = IF i <= final.done THEN final.frames[i] ELSE Row[i - final.done]
  <2>1. /\ Len(fs) = Len(final.frames) + Len(Row)
        /\ \A i \in 1..Len(final.frames) + Len(Row) :
              fs[i] = IF i <= Len(final.frames) THEN final.frames[i]
                      ELSE Row[i - Len(final.frames)]
    BY <1>6, ConcatProperties
  <2>. HIDE DEF fs
  <2>. QED
    BY <1>6, <2>1
<1>. HIDE DEF fs
<1>8. ASSUME NEW i \in 1..Count
      PROVE  Row[i] = [c \in Channel |-> At(chan[c].file, final.done + i - 1)]
  <2>1. Row[i] = [mic |-> final.left[i], bot |-> final.right[i]]
    BY DEF Row
  <2>2. /\ final.left[i] = At(chan["mic"].file, final.done + i - 1)
        /\ final.right[i] = At(chan["bot"].file, final.done + i - 1)
    BY <1>5 DEF Carries
  <2>3. [mic |-> final.left[i], bot |-> final.right[i]] =
           [c \in Channel |-> IF c = "mic" THEN final.left[i] ELSE final.right[i]]
    BY DEF Channel
  <2>. QED
    BY <2>1, <2>2, <2>3 DEF Channel
<1>9. ASSUME NEW i \in 1..(final.done + Count)
      PROVE  fs[i] = [c \in Channel |-> At(chan[c].file, i - 1)]
  <2>1. CASE i <= final.done
    <3>1. i \in 1..Len(final.frames)
      BY <1>4, <1>6, <2>1
    <3>. QED
      BY <1>6, <1>7, <2>1, <3>1
  <2>2. CASE ~(i <= final.done)
    <3>1. i - final.done \in 1..Count /\ final.done + (i - final.done) - 1 = i - 1
      BY <1>4, <2>2
    <3>2. Row[i - final.done] =
             [c \in Channel |-> At(chan[c].file, final.done + (i - final.done) - 1)]
      BY <1>8, <3>1
    <3>. QED
      BY <1>7, <2>2, <3>1, <3>2
  <2>. QED
    BY <2>1, <2>2
<1>10. final.done + Count = Smaller(final.done + Block, final.total)
  BY <1>4 DEF Smaller
<1>11. Frames'
  <2>1. ~failed' /\ ChainsDrained' /\ final'.total = Total' /\ final'.total > 0
    BY <1>1, <1>2, <1>3 DEF Frames, ChainsDrained, Total
  <2>2. /\ Len(final'.frames) = Smaller(final'.done, final'.total)
        /\ \A i \in 1..Len(final'.frames) :
              final'.frames[i] = [c \in Channel |-> At(chan'[c].file, i - 1)]
    BY <1>1, <1>2, <1>7, <1>9, <1>10 DEF fs
  <2>3. final'.at = "close" => final'.done >= final'.total
    BY <1>2, <1>4
  <2>4. wav' = NoWav
    BY <1>1, <1>2 DEF Frames
  <2>. QED
    BY <1>3, <2>1, <2>2, <2>3, <2>4 DEF Frames
<1>12. Blocks'
  BY <1>2, <1>3, BlankBlock DEF FInv
<1>. QED
  BY <1>11, <1>12

\* stop() before and after its blocks.
LEMMA EdgeSteps ==
    ASSUME FInv, Frames,
           \/ InterleaveOpens \/ InterleaveCloses \/ InterleaveFails \/ Renamed
           \/ RenameFails \/ TempUnlinked \/ StopDiscards
    PROVE  Frames' /\ Blocks'
<1>1. chan' = chan /\ failed' = failed
  BY FinishingKeeps DEF Finishing
<1>2. PICK v \in Stage : final' = [final EXCEPT !.at = v]
  <2>1. CASE InterleaveOpens
    <3>1. Opening[final.at].next \in Stage
      BY <2>1 DEF InterleaveOpens, Opening, Stage
    <3>. QED
      BY <2>1, <3>1 DEF InterleaveOpens
  <2>2. CASE StopDiscards
    <3>1. Outcome[final.at] \in Stage
      BY <2>2 DEF StopDiscards, Outcome, Stage
    <3>. QED
      BY <2>2, <3>1 DEF StopDiscards, FInv, FinalType
  <2>3. CASE InterleaveCloses
    <3>. DEFINE u == IF final.at = "close" THEN "rename" ELSE "unlink"
    <3>1. final' = [final EXCEPT !.at = u]
      BY <2>3 DEF InterleaveCloses, FInv, FinalType
    <3>2. u \in Stage
      BY DEF Stage
    <3>. QED
      BY <3>1, <3>2
  <2>4. CASE InterleaveFails \/ Renamed \/ RenameFails \/ TempUnlinked
    <3>1. {"closeThrow", "discardResult", "unlink", "discardThrow"} \subseteq Stage
      BY DEF Stage
    <3>. QED
      BY <2>4, <3>1 DEF InterleaveFails, Renamed, RenameFails, TempUnlinked
  <2>. QED
    BY <2>1, <2>2, <2>3, <2>4
<1>3. /\ final'.at = v /\ final'.total = final.total /\ final'.done = final.done
      /\ final'.frames = final.frames /\ FinalType'
  BY <1>2, AtSet DEF FInv
<1>4. ASSUME v \notin {"idle", "draining", "read", "frame"},
             v \in Mixing => final.at \in Mixing,
             v \in Mixing \ (Reading \cup Mixed) => final.done = 0,
             v \in Mixed => final.done >= final.total,
             wav' = IF v \in {"discardResult", "result"}
                    THEN [total |-> final.total, frames |-> final.frames] ELSE NoWav
      PROVE  Frames' /\ Blocks'
  <2>1. Frames'
    BY <1>1, <1>3, <1>4, FramesMove
  <2>2. Blocks'
    BY <1>3, <1>4 DEF Blocks, Reading
  <2>. QED
    BY <2>1, <2>2
<1>5. CASE InterleaveOpens
  <2>1. /\ final.at \in {"openMic", "openBot", "openOut"} /\ wav' = wav
        /\ v \in {"openBot", "openOut", "header"}
    BY <1>3, <1>5, <1>2 DEF InterleaveOpens, Opening, FInv, FinalType
  <2>2. final.at \in Mixing \ (Reading \cup Mixed) /\ v \notin Mixed
    BY <2>1 DEF Mixing, Reading, Mixed
  <2>3. final.done = 0 /\ wav' = NoWav
    BY <2>1, <2>2 DEF Frames
  <2>. QED
    BY <1>4, <2>1, <2>2, <2>3
<1>6. CASE InterleaveCloses
  <2>1. /\ final.at \in {"close", "closeThrow"} /\ wav' = wav
        /\ v = IF final.at = "close" THEN "rename" ELSE "unlink"
    BY <1>3, <1>6 DEF InterleaveCloses, FInv, FinalType
  <2>2. /\ v = "rename" => final.at \in Mixed
        /\ Mixed \subseteq Mixing /\ "unlink" \notin Mixing /\ "rename" \in Mixed
    BY <2>1 DEF Mixing, Reading, Mixed
  <2>3. (v = "rename" => final.done >= final.total) /\ wav' = NoWav
    BY <2>1, <2>2 DEF Frames
  <2>4. v \in {"rename", "unlink"}
    BY <2>1
  <2>. QED
    BY <1>4, <2>2, <2>3, <2>4
<1>7. CASE InterleaveFails \/ RenameFails \/ TempUnlinked
  <2>1. /\ v \in {"closeThrow", "unlink", "discardThrow"} /\ wav' = wav
        /\ final.at \notin {"discardResult", "result"}
    BY <1>3, <1>7 DEF InterleaveFails, RenameFails, TempUnlinked, FInv, FinalType,
                      Opening
  <2>2. v \notin Mixing
    BY <2>1 DEF Mixing, Reading, Mixed
  <2>3. wav' = NoWav
    BY <2>1 DEF Frames
  <2>. QED
    BY <1>4, <2>1, <2>2, <2>3 DEF Mixing
<1>8. CASE Renamed
  <2>1. /\ final.at = "rename" /\ v = "discardResult"
        /\ wav' = [total |-> final.total, frames |-> final.frames]
    BY <1>3, <1>8 DEF Renamed, FInv, FinalType
  <2>2. final.at \in Mixed /\ v \in Mixed /\ Mixed \subseteq Mixing
    BY <2>1 DEF Mixing, Mixed
  <2>3. final.done >= final.total
    BY <2>2 DEF Frames
  <2>. QED
    BY <1>4, <2>1, <2>2, <2>3
<1>9. CASE StopDiscards
  <2>1. /\ final.at \in {"discardResult", "discardNothing", "discardThrow"}
        /\ wav' = wav
        /\ final.at = "discardResult" => v = "result"
        /\ final.at # "discardResult" => v \in {"nothing", "threw"}
    BY <1>3, <1>9 DEF StopDiscards, Outcome, FInv, FinalType
  <2>2. /\ final.at = "discardResult" => final.at \in Mixed
        /\ "nothing" \notin Mixing /\ "threw" \notin Mixing
        /\ "result" \in Mixed /\ Mixed \subseteq Mixing
    BY DEF Mixing, Reading, Mixed
  <2>3. final.at = "discardResult" => final.done >= final.total
    BY <2>2 DEF Frames
  <2>4. wav' = IF v \in {"discardResult", "result"}
               THEN [total |-> final.total, frames |-> final.frames] ELSE NoWav
    BY <2>1 DEF Frames
  <2>. QED
    BY <1>4, <2>1, <2>2, <2>3, <2>4
<1>. QED
  BY <1>5, <1>6, <1>7, <1>8, <1>9

\* stop() before the chains are drained.
LEMMA DrainSteps ==
    ASSUME FInv, Frames, Stop \/ Drained
    PROVE  Frames' /\ Blocks'
<1>1. "idle" \notin Mixing /\ "draining" \notin Mixing /\ Reading \subseteq Mixing
      /\ {"threw", "nothing", "discardThrow", "discardNothing"} \cap Mixing = {}
      /\ "openMic" \in Mixing \ (Reading \cup Mixed)
  BY DEF Mixing, Reading, Mixed
<1>2. CASE Stop
  <2>. DEFINE v == IF \A c \in Channel : chan[c].held THEN "draining"
                   ELSE IF failed THEN "threw" ELSE "nothing"
  <2>1. v \in {"draining", "threw", "nothing"} /\ v \in Stage
    BY DEF Stage
  <2>2. final' = [final EXCEPT !.at = v] /\ final.at = "idle" /\ wav' = wav
    BY <1>2 DEF Stop
  <2>. HIDE DEF v
  <2>3. /\ final'.at = v /\ final'.done = final.done /\ final'.frames = final.frames
        /\ final.done = 0 /\ final.frames = << >> /\ wav = NoWav
    BY <2>1, <2>2, AtSet DEF FInv, Frames
  <2>4. v \notin Mixing
    BY <1>1, <2>1
  <2>5. Frames'
    BY <2>1, <2>2, <2>3, <2>4 DEF Frames, Mixed, Mixing
  <2>. QED
    BY <1>1, <2>3, <2>4, <2>5 DEF Blocks
<1>3. CASE Drained
  <2>. DEFINE v == CASE failed -> "discardThrow"
                     [] ~failed /\ Total = 0 -> "discardNothing"
                     [] ~failed /\ Total > 0 -> "openMic"
  <2>1. Total \in Nat
    BY DEF FInv, IInv, TimelineType, ChannelType, Channel, Total, Bigger
  <2>2. /\ v \in {"discardThrow", "discardNothing", "openMic"}
        /\ v = "openMic" => ~failed /\ Total > 0
    <3>1. failed \/ Total = 0 \/ Total > 0
      BY <2>1
    <3>. QED
      BY <3>1
  <2>3. /\ final' = [final EXCEPT !.total = Total, !.at = v] /\ final.at = "draining"
        /\ wav' = wav /\ chan' = chan /\ failed' = failed /\ ChainsDrained
    BY <1>3 DEF Drained, flags
  <2>. HIDE DEF v
  <2>4. /\ final'.at = v /\ final'.total = Total /\ final'.done = 0
        /\ final'.frames = << >> /\ wav' = NoWav
    BY <2>3 DEF FInv, FinalType, Frames
  <2>5. ChainsDrained' /\ Total' = Total
    BY <2>3 DEF ChainsDrained, Total
  <2>6. Smaller(0, Total) = 0 /\ Len(<< >>) = 0
    BY <2>1 DEF Smaller
  <2>7. v \in Mixing => v = "openMic"
    BY <1>1, <2>2
  <2>8. v \notin Mixed /\ v \notin Reading
    BY <1>1, <2>2 DEF Mixed, Reading
  <2>9. v \in Mixing =>
           /\ Len(final'.frames) = Smaller(final'.done, final'.total)
           /\ \A i \in 1..Len(final'.frames) :
                 final'.frames[i] = [c \in Channel |-> At(chan'[c].file, i - 1)]
    BY <2>4, <2>6
  <2>10. Frames'
    BY <2>2, <2>3, <2>4, <2>5, <2>7, <2>8, <2>9 DEF Frames
  <2>. QED
    BY <2>4, <2>8, <2>10 DEF Blocks
<1>. QED
  BY <1>2, <1>3

LEMMA FramesStep ==
    ASSUME FInv, Blocks, Frames, Next
    PROVE  Frames' /\ Blocks'
<1>1. CASE Stop \/ Drained
  BY <1>1, DrainSteps
<1>2. CASE Finishing
  BY <1>2, HeaderSteps, ReadSomeSteps, SideReadSteps, FrameSteps, EdgeSteps
  DEF Finishing
<1>3. ASSUME final' = final, wav' = wav,
             final.at \in Mixing => chan' = chan /\ failed' = failed
      PROVE  Frames' /\ Blocks'
  <2>1. CASE final.at \in Mixing
    BY <1>3, <2>1
    DEF Frames, Blocks, ChainsDrained, Total, Carries, Blank, Count
  <2>2. CASE final.at \notin Mixing
    BY <1>3, <2>2 DEF Frames, Blocks, Mixing
  <2>. QED
    BY <2>1, <2>2
<1>. QED
  BY <1>1, <1>2, <1>3, OnlyStopMoves

-----------------------------------------------------------------------------
(* Why there is no WAV.                                                     *)

LEMMA FaultsStep ==
    ASSUME Excused, Next
    PROVE  (faults => faults') /\ (failed' => faults')
<1>1. CASE Tick \/ Start \/ Interrupt \/ Stop
  BY <1>1 DEF Tick, Start, Interrupt, Stop, flags, Excused
<1>2. CASE \E c \in Channel, bytes \in ChunkBytes : WriteChunk(c, bytes)
  BY <1>2 DEF WriteChunk, Excused
<1>3. CASE \E c \in Channel : ChannelOpens(c) \/ OpDone(c)
  BY <1>3 DEF ChannelOpens, OpDone, flags, Excused
<1>4. CASE \/ DirectoryMade \/ StartDiscards \/ Drained \/ InterleaveOpens
           \/ HeaderWritten \/ ReadSome \/ SideRead \/ FrameWritten
  <2>1. UNCHANGED <<failed, faults>>
    BY <1>4 DEF DirectoryMade, StartDiscards, Drained, InterleaveOpens,
                HeaderWritten, ReadSome, SideRead, FrameWritten, flags
  <2>. QED
    BY <2>1 DEF Excused
<1>5. CASE InterleaveCloses \/ Renamed \/ TempUnlinked \/ StopDiscards
  BY <1>5 DEF InterleaveCloses, Renamed, TempUnlinked, StopDiscards, flags, Excused
<1>6. CASE DirectoryFails \/ (\E c \in Channel : ChannelFails(c) \/ OpFails(c))
           \/ InterleaveFails \/ RenameFails
  BY <1>6 DEF DirectoryFails, ChannelFails, OpFails, InterleaveFails, RenameFails
<1>. QED
  BY <1>1, <1>2, <1>3, <1>4, <1>5, <1>6 DEF Next, Caller, Completes, Fails

\* Only what is held is heard or moved.
LEMMA HeardStep ==
    ASSUME FInv, Next
    PROVE  /\ \/ phase = "open" /\ final.at = "idle" /\ phase' = phase /\ final' = final
              \/ heard' = heard /\ \A c \in Channel : chan'[c].head = chan[c].head
           /\ phase = "open" => phase' = "open"
<1>. USE DEF FInv, IInv
<1>1. CASE Interrupt \/ (\E c \in Channel, bytes \in ChunkBytes : WriteChunk(c, bytes))
  BY <1>1 DEF Interrupt, WriteChunk, Phases, Channel, start
<1>2. ASSUME NEW b \in [Channel -> BOOLEAN],
             chan' = [c \in Channel |-> [chan[c] EXCEPT !.held = b[c]]]
      PROVE  \A c \in Channel : chan'[c].head = chan[c].head
  BY <1>2 DEF TimelineType, ChannelType
<1>3. CASE Stop
  <2>. DEFINE b == [c \in Channel |-> FALSE]
  <2>1. /\ b \in [Channel -> BOOLEAN] /\ heard' = heard /\ phase' = phase
        /\ chan' = [c \in Channel |-> [chan[c] EXCEPT !.held = b[c]]]
    BY <1>3 DEF Stop, ghosts, start
  <2>. HIDE DEF b
  <2>. QED
    BY <1>2, <2>1
<1>4. CASE \E c \in Channel : ChannelOpens(c)
  <2>1. PICK c \in Channel : ChannelOpens(c)
    BY <1>4
  <2>. DEFINE ready == phase = "opening" /\ \A d \in Channel : opens'[d] = "open"
              b == [d \in Channel |-> ready /\ ~stopped]
  <2>2. /\ chan' = [d \in Channel |-> [chan[d] EXCEPT !.held = b[d]]]
        /\ heard' = heard
    BY <2>1 DEF ChannelOpens, ghosts
  <2>3. b \in [Channel -> BOOLEAN]
    BY Zenon
  <2>. HIDE DEF b
  <2>4. phase # "open"
    BY <2>1 DEF ChannelOpens, Phases
  <2>. QED
    BY <1>2, <2>2, <2>3, <2>4
<1>5. CASE \E c \in Channel : OpDone(c) \/ OpFails(c)
  <2>1. PICK c \in Channel : OpDone(c) \/ OpFails(c)
    BY <1>5
  <2>2. heard' = heard /\ phase' = phase
    BY <2>1 DEF OpDone, OpFails, ghosts, start
  <2>3. PICK f, q : chan' = [chan EXCEPT ![c] =
                               [chan[c] EXCEPT !.file = f, !.queue = q]]
    <3>1. CASE OpDone(c)
      BY <3>1 DEF OpDone, TimelineType, ChannelType
    <3>2. CASE OpFails(c)
      <4>1. chan' = [chan EXCEPT ![c] = [chan[c] EXCEPT
                        !.file = chan[c].file, !.queue = Tail(chan[c].queue)]]
        BY <3>2 DEF OpFails, TimelineType, ChannelType
      <4>. QED
        BY <4>1
    <3>. QED
      BY <2>1, <3>1, <3>2
  <2>4. \A d \in Channel : chan'[d].head = chan[d].head
    BY <2>3 DEF TimelineType, ChannelType
  <2>. QED
    BY <2>2, <2>4
<1>6. CASE \/ Tick \/ Start \/ DirectoryMade \/ DirectoryFails \/ StartDiscards
           \/ Drained \/ (\E c \in Channel : ChannelFails(c))
  BY <1>6 DEF Tick, Start, DirectoryMade, DirectoryFails, StartDiscards, Drained,
              ChannelFails, Phases, start, ghosts
<1>7. CASE Finishing
  BY <1>7, FinishingKeeps
<1>. QED
  BY <1>1, <1>3, <1>4, <1>5, <1>6, <1>7
  DEF Next, Caller, Completes, Fails, Finishing

\* Where a step of stop() may lead, as to how it ends.
LEMMA EndsStep ==
    ASSUME FInv, Lands, Blocks, Frames, Excused, Next
    PROVE  /\ final'.at \in {"closeThrow", "unlink", "discardThrow", "threw"} => faults'
           /\ final'.at = "discardNothing" => \A c \in Channel : chan[c].head = 0
           /\ final'.at = "nothing" => \A c \in Channel : DOMAIN heard[c] = {}
<1>. USE DEF FInv, IInv
<1>1. faults => faults'
  BY FaultsStep
<1>2. ASSUME \A c \in Channel : chan[c].head = 0
      PROVE  \A c \in Channel : DOMAIN heard[c] = {}
  BY <1>2 DEF Lands
<1>3. CASE final' = final
  BY <1>1, <1>3 DEF Excused
<1>4. CASE Stop
  <2>. DEFINE v == IF \A c \in Channel : chan[c].held THEN "draining"
                   ELSE IF failed THEN "threw" ELSE "nothing"
  <2>1. v \in Stage /\ v \in {"draining", "threw", "nothing"}
    BY DEF Stage
  <2>2. final' = [final EXCEPT !.at = v] /\ final.at = "idle"
    BY <1>4 DEF Stop
  <2>3. /\ v = "threw" => failed
        /\ v = "nothing" => ~(\A c \in Channel : chan[c].held)
    OBVIOUS
  <2>. HIDE DEF v
  <2>4. final'.at = v
    BY <2>1, <2>2, AtSet
  <2>5. v = "nothing" => phase # "open"
    BY <2>2, <2>3 DEF Phases
  <2>. QED
    BY <1>1, <2>1, <2>3, <2>4, <2>5 DEF Excused
<1>5. CASE Drained
  <2>. DEFINE v == CASE failed -> "discardThrow"
                     [] ~failed /\ Total = 0 -> "discardNothing"
                     [] ~failed /\ Total > 0 -> "openMic"
  <2>1. \A c \in Channel : chan[c].head \in Nat
    BY DEF TimelineType, ChannelType
  <2>2. Total \in Nat /\ (Total = 0 => \A c \in Channel : chan[c].head = 0)
    BY <2>1 DEF Total, Bigger, Channel
  <2>3. /\ v \in {"discardThrow", "discardNothing", "openMic"}
        /\ v = "discardThrow" => failed
        /\ v = "discardNothing" => Total = 0
    <3>1. failed \/ Total = 0 \/ Total > 0
      BY <2>2
    <3>. QED
      BY <3>1
  <2>4. final' = [final EXCEPT !.total = Total, !.at = v]
    BY <1>5 DEF Drained
  <2>. HIDE DEF v
  <2>5. final'.at = v
    BY <2>4 DEF FinalType
  <2>. QED
    BY <1>1, <2>2, <2>3, <2>5 DEF Excused
<1>6. CASE HeaderWritten
  <2>1. final.at = "header" /\ final'.at \in {"read", "close"}
    <3>1. final.at = "header"
      BY <1>6 DEF HeaderWritten
    <3>2. final'.at \in Mixing
      <4>1. final.total <= HeaderLimit
        <5>1. final.total = Total
          BY <3>1 DEF Frames, Mixing
        <5>2. \A c \in Channel : chan[c].head \in Nat /\ chan[c].head <= MaxSamples
          BY DEF TimelineType, ChannelType, CapOn
        <5>. QED
          BY <5>1, <5>2, CapIsNat, CapAssumption
          DEF Total, Bigger, Channel, MaxSamples, Smaller
      <4>2. final' = NextBlock(final)
        BY <1>6, <4>1 DEF HeaderWritten
      <4>. QED
        BY <4>2 DEF NextBlock, FinalType, Mixing, Reading, Mixed
    <3>3. final'.at \in {"read", "close", "closeThrow"}
      BY <1>6 DEF HeaderWritten, NextBlock, FinalType
    <3>. QED
      BY <3>1, <3>2, <3>3 DEF Mixing, Reading, Mixed
  <2>. QED
    BY <2>1
<1>7. CASE ReadSome \/ SideRead \/ FrameWritten
  <2>1. final'.at \in {"read", "frame", "close"}
    BY <1>7, ReadSomeFinal, SideReadFinal, FrameFinal
  <2>. QED
    BY <2>1
<1>8. CASE InterleaveOpens
  <2>1. final'.at \in {"openBot", "openOut", "header"}
    BY <1>8 DEF InterleaveOpens, Opening, FinalType
  <2>. QED
    BY <2>1
<1>9. CASE InterleaveCloses \/ TempUnlinked \/ Renamed
  <2>1. /\ final.at \in {"closeThrow", "unlink"} \/ final'.at \in {"rename", "discardResult"}
        /\ final'.at \in {"rename", "unlink", "discardThrow", "discardResult"}
    BY <1>9 DEF InterleaveCloses, TempUnlinked, Renamed, FinalType
  <2>. QED
    BY <1>1, <2>1 DEF Excused
<1>10. CASE InterleaveFails \/ RenameFails
  <2>1. faults' /\ final'.at \in {"closeThrow", "unlink"}
    BY <1>10 DEF InterleaveFails, RenameFails, FinalType
  <2>. QED
    BY <2>1
<1>11. CASE StopDiscards
  <2>1. /\ final'.at = "threw" => final.at = "discardThrow"
        /\ final'.at = "nothing" => final.at = "discardNothing"
        /\ final'.at \in {"result", "nothing", "threw"}
    BY <1>11 DEF StopDiscards, Outcome, FinalType
  <2>. QED
    BY <1>1, <1>2, <2>1 DEF Excused
<1>. QED
  BY <1>3, <1>4, <1>5, <1>6, <1>7, <1>8, <1>9, <1>10, <1>11, OnlyStopMoves
  DEF Finishing

LEMMA ExcusedStep ==
    ASSUME FInv, Lands, Blocks, Frames, Excused, Next
    PROVE  Excused'
<1>1. failed' => faults'
  BY FaultsStep
<1>2. final'.at \in {"closeThrow", "unlink", "discardThrow", "threw"} => faults'
  BY EndsStep
<1>3. CASE phase = "open" /\ final.at = "idle" /\ phase' = phase /\ final' = final
  BY <1>1, <1>2, <1>3 DEF Excused
<1>4. CASE heard' = heard /\ \A c \in Channel : chan'[c].head = chan[c].head
  <2>1. phase' # "open" => phase # "open"
    BY HeardStep
  <2>2. final'.at = "discardNothing" => \A c \in Channel : chan'[c].head = 0
    BY <1>4, EndsStep
  <2>3. phase' # "open" \/ final'.at = "nothing" =>
           \A c \in Channel : DOMAIN heard'[c] = {}
    BY <1>4, <2>1, EndsStep DEF Excused
  <2>. QED
    BY <1>1, <1>2, <2>2, <2>3 DEF Excused
<1>. QED
  BY <1>3, <1>4, HeardStep

-----------------------------------------------------------------------------
LEMMA InitWInv == Init => WInv
<1>. SUFFICES ASSUME Init PROVE WInv
  OBVIOUS
<1>1. FInv
  BY Initially, InitFInv DEF FInv
<1>2. Lands
  BY InitLands
<1>3. /\ final.at = "idle" /\ final.done = 0 /\ final.frames = << >> /\ wav = NoWav
      /\ ~failed /\ \A c \in Channel : heard[c] = << >>
  BY DEF Init, NotStopping
<1>4. Blocks /\ Frames
  BY <1>3 DEF Blocks, Frames, Mixing, Reading, Mixed
<1>5. Excused
  BY <1>3 DEF Excused
<1>. QED
  BY <1>1, <1>2, <1>4, <1>5 DEF WInv

LEMMA WInductive == WInv /\ [Next]_vars => WInv'
<1>. SUFFICES ASSUME WInv, [Next]_vars PROVE WInv'
  OBVIOUS
<1>1. CASE Next
  <2>1. FInv'
    BY <1>1, FilesStep DEF WInv
  <2>2. Lands'
    BY <1>1, LandsStep DEF WInv, FInv
  <2>3. Frames' /\ Blocks'
    BY <1>1, FramesStep DEF WInv
  <2>4. Excused'
    BY <1>1, ExcusedStep DEF WInv
  <2>. QED
    BY <2>1, <2>2, <2>3, <2>4 DEF WInv
<1>2. CASE UNCHANGED vars
  <2>. USE <1>2 DEF vars, start, flags, disk, ghosts
  <2>1. IInv'
    BY Inductive DEF WInv, FInv
  <2>2. UNCHANGED filed
    BY DEF filed, Held
  <2>3. FInv'
    BY <2>1, <2>2, FiledKeeps DEF WInv, FInv, FinalType
  <2>4. Lands'
    BY LandsKeeps DEF WInv
  <2>5. Frames' /\ Blocks'
    BY DEF WInv, Frames, Blocks, ChainsDrained, Total, Carries, Blank, Count
  <2>6. Excused'
    BY DEF WInv, Excused
  <2>. QED
    BY <2>3, <2>4, <2>5, <2>6 DEF WInv
<1>. QED
  BY <1>1, <1>2

\* The files, the frames written and the stages of stop() agree at every step.
THEOREM WavInvariance == Spec => []WInv
<1>. QED
  BY InitWInv, WInductive, PTL DEF Spec

\* When start() and stop() have settled, in whatever order and with whatever error,
\* every handle is closed and every temp file gone, but those of a channel that
\* opened when the other one failed to.
THEOREM FilesAreReleased == Spec => []AllReleased
<1>1. WInv => AllReleased
  <2>. SUFFICES ASSUME FInv, Settled
                PROVE  /\ handles = Lone /\ temps = Lone
                       /\ Lone # {} => \E c \in Channel : opens[c] = "failed"
    BY DEF WInv, AllReleased
  <2>1. handles \cap Readers = {} /\ "out" \notin temps
    BY DEF FInv, Disk, Finished, Settled
  <2>2. handles \subseteq Channel /\ temps \subseteq Channel
    BY <2>1 DEF FInv, Disk
  <2>3. \A c \in Channel : c \in handles <=> c \in Lone
    BY DEF FInv, Disk, Settled, Lone
  <2>4. Lone # {} => \E c \in Channel : opens[c] = "failed"
    BY DEF FInv, Phases, Lone
  <2>. QED
    BY <2>2, <2>3, <2>4 DEF FInv, Disk, Lone
<1>. QED
  BY <1>1, WavInvariance, PTL

\* A WAV has on each side what was written there and the user was not spared,
\* sample by sample, whatever the cap, the block size and the reads of the two
\* files return, and there is one unless nothing was said or a file failed.
THEOREM WavIsFaithful == Spec => []WavFaithful
<1>1. WInv => WavFaithful
  <2>. SUFFICES ASSUME WInv PROVE WavFaithful
    OBVIOUS
  <2>. USE DEF WInv
  <2>1. ASSUME final.at \in {"discardResult", "result"}
        PROVE  /\ final.at \in Mixing /\ final.total > 0 /\ final.total \in Nat
               /\ wav = [total |-> final.total, frames |-> final.frames]
    <3>1. final.at \in Mixing
      BY <2>1 DEF Mixing, Mixed
    <3>. QED
      BY <2>1, <3>1 DEF Frames, FInv, FinalType
  <2>2. ASSUME final.at \in Finished, ~faults, NEW c \in Channel,
               DOMAIN heard[c] # {}
        PROVE  final.at = "result" /\ wav # NoWav
    <3>1. final.at = "result"
      BY <2>2 DEF Excused, Finished
    <3>2. wav.total > 0
      BY <2>1, <3>1
    <3>. QED
      BY <3>1, <3>2 DEF NoWav
  <2>3. ASSUME wav # NoWav
        PROVE  /\ Len(wav.frames) = wav.total
               /\ \A c \in Channel : DOMAIN heard[c] \subseteq 0..(wav.total - 1)
               /\ \A p \in 0..(wav.total - 1) :
                     wav.frames[p + 1] = [c \in Channel |-> HeardAt(c, p)]
    <3>1. final.at \in {"discardResult", "result"}
      BY <2>3 DEF Frames
    <3>2. /\ final.total > 0 /\ final.total \in Nat /\ final.done \in Nat
          /\ wav = [total |-> final.total, frames |-> final.frames]
          /\ final.at \in Mixing /\ final.at \in Mixed
      BY <2>1, <3>1 DEF FInv, FinalType, Mixed
    <3>3. /\ ~failed /\ ChainsDrained /\ final.total = Total
          /\ Len(final.frames) = Smaller(final.done, final.total)
          /\ final.done >= final.total
          /\ \A i \in 1..Len(final.frames) :
                final.frames[i] = [c \in Channel |-> At(chan[c].file, i - 1)]
      BY <3>2 DEF Frames
    <3>4. Len(final.frames) = final.total
      BY <3>2, <3>3 DEF Smaller
    <3>5. ASSUME NEW c \in Channel
          PROVE  DOMAIN heard[c] \subseteq 0..(final.total - 1)
      <4>1. DOMAIN heard[c] \subseteq 0..(chan[c].head - 1)
        BY DEF Lands
      <4>2. \A d \in Channel : chan[d].head \in Nat
        BY DEF FInv, IInv, TimelineType, ChannelType
      <4>3. chan[c].head <= final.total
        BY <3>3, <4>2 DEF Total, Bigger, Channel
      <4>. QED
        BY <3>2, <4>1, <4>2, <4>3
    <3>6. ASSUME NEW p \in 0..(final.total - 1)
          PROVE  final.frames[p + 1] = [c \in Channel |-> HeardAt(c, p)]
      <4>1. p + 1 \in 1..Len(final.frames) /\ p + 1 - 1 = p /\ p \in Nat
        BY <3>2, <3>4
      <4>2. final.frames[p + 1] = [c \in Channel |-> At(chan[c].file, p)]
        BY <3>3, <4>1
      <4>3. ASSUME NEW c \in Channel
            PROVE  At(chan[c].file, p) = HeardAt(c, p)
        <5>1. Says(chan[c].queue, chan[c].file, p, HeardAt(c, p))
          BY <3>3, <4>1 DEF Lands
        <5>2. Len(chan[c].queue) = 0
          BY <3>3 DEF ChainsDrained
        <5>. QED
          BY <5>1, <5>2 DEF Says
      <4>. QED
        BY <4>2, <4>3
    <3>. QED
      BY <3>2, <3>4, <3>5, <3>6
  <2>. QED
    BY <2>2, <2>3 DEF WavFaithful
<1>. QED
  BY <1>1, WavInvariance, PTL

=============================================================================
