---------------------------- MODULE SessionStore ----------------------------
(***************************************************************************)
(* src/backend/src/store/SessionStore.ts: one JSON file per conversation,  *)
(* rewritten by a serialised chain of saves, listed through a cache and    *)
(* pruned to the newest Cap records, recordings included.                  *)
(*                                                                         *)
(* A record is the number of its conversation, in the order they started,  *)
(* so the larger number is the newer record (startedAt).  Its content is   *)
(* the number of the save that wrote it: a later summary of a conversation *)
(* says more than an earlier one.  A file's stamp stands for its mtime and *)
(* size, and no two writes have the same one.  Conversations, and the WAVs *)
(* their recorders leave beside the records, come from the sockets.        *)
(***************************************************************************)
EXTENDS Naturals, Sequences, FiniteSets

CONSTANTS
    MaxRecords, \* bound: conversations
    MaxSaves,   \* bound: saves of one conversation
    Cap,        \* SESSION_MAX_RECORDS; 0 keeps all
    MaxLists,   \* bound: calls of list()
    MaxFaults   \* bound: crashes and failing file operations

ASSUME StoreAssumption ==
    /\ MaxRecords \in Nat /\ MaxSaves \in Nat
    /\ Cap \in Nat /\ MaxLists \in Nat /\ MaxFaults \in Nat

VARIABLES
    \* the conversations
    conv,      \* how far each one is
    issued,    \* saves issued for each record
    \* the store object
    ready,     \* this.ready: not called, mkdir, sweeping, resolved
    queue,     \* saves waiting for the one that runs
    job,       \* writeAtomic() and its prune()
    victims,   \* the rows prune() has left to delete
    lists,     \* the calls of listRows()
    index,     \* this.index
    \* the directory
    files, temps, wavs,
    \* what happened
    saved,     \* the last save of each record that resolved
    tidy,      \* no rename since the last prune that could read and delete all
    stray,      \* WAVs the disk would not delete, or that a crash left behind
    listed,     \* calls of list()
    faults      \* crashes and failed file operations

store == <<ready, queue, job, victims, lists, index>>
disk  == <<files, temps, wavs>>
past  == <<stray, listed, faults>>
vars  == <<conv, issued, store, disk, saved, tidy, past>>

Rec    == 1..MaxRecords
Absent == [ver |-> 0, stamp |-> 0]    \* no file, or no index entry
Lister == {"prune", "list"}

NoJob == [at |-> "idle", rec |-> 0, ver |-> 0]

NotListing ==
    [at |-> "idle", files |-> {}, left |-> {}, rows |-> {}, stamp |-> << >>]

Present == {r \in Rec : files[r] # Absent}

\* Mutant: the cache compares the size alone.
NextStamp_SizeOnly(r, ver) == r

\* A stamp no file and no cache entry has had before.
NextStamp(r, ver) == (r - 1) * MaxSaves + ver

Init ==
    /\ conv = [r \in Rec |-> "none"]
    /\ issued = [r \in Rec |-> 0]
    /\ ready = "no"
    /\ queue = << >> /\ job = NoJob /\ victims = {}
    /\ lists = [l \in Lister |-> NotListing]
    /\ index = [r \in Rec |-> Absent]
    /\ files = [r \in Rec |-> Absent] /\ temps = {} /\ wavs = {}
    /\ saved = [r \in Rec |-> 0]
    /\ tidy = TRUE
    /\ stray = {} /\ listed = 0 /\ faults = 0

Fault == faults < MaxFaults /\ faults' = faults + 1

-----------------------------------------------------------------------------
(* The sockets: a conversation starts, is saved after each turn, has its     *)
(* recording finalized, and is saved once more when it ends.                 *)

ConversationStarts(r) ==
    /\ conv[r] = "none"
    /\ \A q \in 1..(r - 1) : conv[q] # "none"
    /\ conv' = [conv EXCEPT ![r] = "live"]
    /\ UNCHANGED <<issued, store, disk, saved, tidy, past>>

Enqueue(r) ==
    /\ issued[r] < MaxSaves
    /\ issued' = [issued EXCEPT ![r] = @ + 1]
    /\ queue' = Append(queue, [rec |-> r, ver |-> issued[r] + 1])
    /\ UNCHANGED <<ready, job, victims, lists, index, disk, saved, tidy, past>>

SaveTurn(r) ==
    /\ conv[r] = "live"
    /\ issued[r] + 1 < MaxSaves    \* the last one is for the end
    /\ Enqueue(r)
    /\ UNCHANGED conv

WavRenamed(r) ==
    /\ conv[r] = "live"
    /\ conv' = [conv EXCEPT ![r] = "recorded"]
    /\ wavs' = wavs \cup {r}
    /\ UNCHANGED <<issued, store, files, temps, saved, tidy, past>>

SaveEnd(r) ==
    /\ conv[r] \in {"live", "recorded"}
    /\ conv' = [conv EXCEPT ![r] = "over"]
    /\ Enqueue(r)

-----------------------------------------------------------------------------
(* init(): shared by all callers, forgotten when it fails *)

InitCalled == IF ready = "no" THEN "mkdir" ELSE ready

MkdirDone ==
    /\ ready = "mkdir"
    /\ ready' = "sweep"
    /\ UNCHANGED <<conv, issued, queue, job, victims, lists, index, disk,
                   saved, tidy, past>>

\* The save that waits rejects, and a listing returns no rows.
MkdirFails ==
    /\ Fault
    /\ ready = "mkdir"
    /\ ready' = "no"
    /\ job' = IF job.at = "init" THEN NoJob ELSE job
    /\ lists' = [l \in Lister |->
                    IF lists[l].at = "init" THEN NotListing ELSE lists[l]]
    /\ UNCHANGED <<conv, issued, queue, victims, index, disk, saved, tidy,
                   stray, listed>>

\* sweepStaleTemp(): temp files over an hour old, if it can.
Sweep ==
    /\ ready = "sweep"
    /\ ready' = "yes"
    /\ \/ temps' = {t \in temps : ~t.old}
       \/ UNCHANGED temps
    /\ UNCHANGED <<conv, issued, queue, job, victims, lists, index, files,
                   wavs, saved, tidy, past>>

\* A temp file that a crash left behind is an hour old.
Ages(t) ==
    /\ t \in temps /\ ~t.old
    /\ job.at = "rename" => t.rec # job.rec \/ t.ver # job.ver
    /\ temps' = (temps \ {t}) \cup {[t EXCEPT !.old = TRUE]}
    /\ UNCHANGED <<conv, issued, store, files, wavs, saved, tidy, past>>

-----------------------------------------------------------------------------
(* save() and writeAtomic() *)

\* Mutant: saves are started in any order.
Begin_LastFirst ==
    /\ job.at = "idle" /\ queue # << >>
    /\ LET last == queue[Len(queue)]
       IN  job' = [at |-> "init", rec |-> last.rec, ver |-> last.ver]
    /\ queue' = SubSeq(queue, 1, Len(queue) - 1)
    /\ ready' = InitCalled
    /\ UNCHANGED <<conv, issued, victims, lists, index, disk, saved, tidy,
                   past>>

Begin ==
    /\ job.at = "idle" /\ queue # << >>
    /\ job' = [at |-> "init", rec |-> Head(queue).rec, ver |-> Head(queue).ver]
    /\ queue' = Tail(queue)
    /\ ready' = InitCalled
    /\ UNCHANGED <<conv, issued, victims, lists, index, disk, saved, tidy,
                   past>>

TempFile == [rec |-> job.rec, ver |-> job.ver, old |-> FALSE]

TempWritten ==
    /\ job.at = "init" /\ ready = "yes"
    /\ temps' = temps \cup {TempFile}
    /\ job' = [job EXCEPT !.at = "rename"]
    /\ UNCHANGED <<conv, issued, ready, queue, victims, lists, index, files,
                   wavs, saved, tidy, past>>

\* The directory is what prune() will list, unless there is no cap.
Renamed ==
    /\ job.at = "rename"
    /\ temps' = temps \ {TempFile}
    /\ files' = [files EXCEPT ![job.rec] =
                    [ver |-> job.ver, stamp |-> NextStamp(job.rec, job.ver)]]
    /\ tidy' = FALSE
    /\ job' = [job EXCEPT !.at = IF Cap > 0 THEN "listing" ELSE "unlink"]
    /\ lists' = [lists EXCEPT !["prune"].at = IF Cap > 0 THEN "readdir" ELSE @]
    /\ UNCHANGED <<conv, issued, ready, queue, victims, index, wavs, saved,
                   past>>

\* Mutant: the chain is not kept alive after a failure.
WriteFails_Blocks ==
    /\ Fault
    /\ job.at = "rename" \/ (job.at = "init" /\ ready = "yes")
    /\ temps' = temps \ {TempFile}
    /\ job' = [job EXCEPT !.at = "failed"]
    /\ UNCHANGED <<conv, issued, ready, queue, victims, lists, index, files,
                   wavs, saved, tidy, stray, listed>>

\* writeFile() or rename() fails, and the temp file is removed.
WriteFails ==
    /\ Fault
    /\ job.at = "rename" \/ (job.at = "init" /\ ready = "yes")
    /\ temps' = temps \ {TempFile}
    /\ job' = NoJob
    /\ UNCHANGED <<conv, issued, ready, queue, victims, lists, index, files,
                   wavs, saved, tidy, stray, listed>>

-----------------------------------------------------------------------------
(* listRows() and readIndexEntry(), for list() and for prune() *)

ListCalled ==
    /\ lists["list"].at = "idle"
    /\ listed < MaxLists
    /\ listed' = listed + 1
    /\ ready' = InitCalled
    /\ lists' = [lists EXCEPT !["list"].at = "init"]
    /\ UNCHANGED <<conv, issued, queue, job, victims, index, disk, saved, tidy,
                   stray, faults>>

Readdir(l) ==
    /\ lists[l].at = "readdir" \/ (lists[l].at = "init" /\ ready = "yes")
    /\ lists' = [lists EXCEPT ![l] =
                    [at |-> "entries", files |-> Present, left |-> Present,
                     rows |-> {}, stamp |-> [r \in Present |-> 0]]]
    /\ UNCHANGED <<conv, issued, ready, queue, job, victims, index, disk, saved,
                   tidy, past>>

\* listRows() has no rows to return then, and prune() nothing to delete.
ReaddirFails(l) ==
    /\ Fault
    /\ lists[l].at = "readdir" \/ (lists[l].at = "init" /\ ready = "yes")
    /\ lists' = [lists EXCEPT ![l] = NotListing]
    /\ job' = IF l = "prune" THEN [job EXCEPT !.at = "unlink"] ELSE job
    /\ UNCHANGED <<conv, issued, ready, queue, victims, index, disk, saved,
                   tidy, stray, listed>>

\* The entries are read at the same time; one that cannot be read is skipped.
Skip(l, r) ==
    /\ lists' = [lists EXCEPT ![l].left = @ \ {r}]
    /\ index' = [index EXCEPT ![r] = Absent]

Use(l, r) ==
    lists' = [lists EXCEPT ![l].left = @ \ {r}, ![l].rows = @ \cup {r}]

Stat(l, r) ==
    /\ lists[l].at = "entries" /\ r \in lists[l].left /\ lists[l].stamp[r] = 0
    /\ CASE files[r] = Absent -> Skip(l, r)
         [] files[r] # Absent /\ index[r].stamp = files[r].stamp ->
                Use(l, r) /\ UNCHANGED index
         [] files[r] # Absent /\ index[r].stamp # files[r].stamp ->
                /\ lists' = [lists EXCEPT ![l].stamp[r] = files[r].stamp]
                /\ UNCHANGED index
    /\ UNCHANGED <<conv, issued, ready, queue, job, victims, disk, saved, tidy,
                   past>>

Read(l, r) ==
    /\ lists[l].at = "entries" /\ r \in lists[l].left /\ lists[l].stamp[r] # 0
    /\ IF files[r] = Absent
       THEN Skip(l, r)
       ELSE /\ Use(l, r)
            /\ index' = [index EXCEPT ![r] =
                            [ver |-> files[r].ver, stamp |-> lists[l].stamp[r]]]
    /\ UNCHANGED <<conv, issued, ready, queue, job, victims, disk, saved, tidy,
                   past>>

ReadFails(l, r) ==
    /\ Fault
    /\ lists[l].at = "entries" /\ r \in lists[l].left
    /\ Skip(l, r)
    /\ UNCHANGED <<conv, issued, ready, queue, job, victims, disk, saved, tidy,
                   stray, listed>>

\* Mutant: one row too many is kept.
Beyond_OffByOne(rows) == {r \in rows : Cardinality({q \in rows : q > r}) > Cap}

\* The rows past the cap, newest first, are what slice(maxRecords) leaves.
Beyond(rows) == {r \in rows : Cardinality({q \in rows : q > r}) >= Cap}

\* The end of listRows(), and with prune() the rows it is going to delete.
Listed(l) ==
    /\ lists[l].at = "entries" /\ lists[l].left = {}
    /\ index' = [r \in Rec |-> IF r \in lists[l].files THEN index[r] ELSE Absent]
    /\ lists' = [lists EXCEPT ![l] = NotListing]
    /\ IF l = "list"
       THEN UNCHANGED <<job, victims, tidy>>
       ELSE /\ job' = [job EXCEPT !.at = "unlink"]
            /\ victims' = Beyond(lists[l].rows)
            /\ tidy' = (lists[l].rows = lists[l].files)
    /\ UNCHANGED <<conv, issued, ready, queue, disk, saved, past>>

-----------------------------------------------------------------------------
(* The rest of prune(): the JSON, then the WAV of each row past the cap *)

Newest(S) == CHOOSE r \in S : \A q \in S : q <= r

UnlinkRecord ==
    /\ job.at = "unlink" /\ victims # {}
    /\ files' = [files EXCEPT ![Newest(victims)] = Absent]
    /\ job' = [job EXCEPT !.at = "unlinkWav"]
    /\ UNCHANGED <<conv, issued, ready, queue, victims, lists, index, temps,
                   wavs, saved, tidy, past>>

UnlinkFails ==
    /\ Fault
    /\ job.at = "unlink" /\ victims # {}
    /\ job' = [job EXCEPT !.at = "unlinkWav"]
    /\ tidy' = FALSE
    /\ UNCHANGED <<conv, issued, ready, queue, victims, lists, index, disk,
                   saved, stray, listed>>

UnlinkWav ==
    /\ job.at = "unlinkWav"
    /\ LET r == Newest(victims)
       IN  /\ wavs' = wavs \ {r}
           /\ stray' = stray \ {r}
           /\ index' = [index EXCEPT ![r] = Absent]
           /\ victims' = victims \ {r}
    /\ job' = [job EXCEPT !.at = "unlink"]
    /\ UNCHANGED <<conv, issued, ready, queue, lists, files, temps, saved, tidy,
                   listed, faults>>

\* The failure is swallowed, and prune() goes on to the next row.
UnlinkWavFails ==
    /\ Fault
    /\ job.at = "unlinkWav"
    /\ LET r == Newest(victims)
       IN  /\ r \in wavs
           /\ stray' = stray \cup {r}
           /\ index' = [index EXCEPT ![r] = Absent]
           /\ victims' = victims \ {r}
    /\ job' = [job EXCEPT !.at = "unlink"]
    /\ UNCHANGED <<conv, issued, ready, queue, lists, disk, saved, tidy, listed>>

Resolved ==
    /\ job.at = "unlink" /\ victims = {}
    /\ saved' = [saved EXCEPT ![job.rec] = job.ver]
    /\ job' = NoJob
    /\ UNCHANGED <<conv, issued, ready, queue, victims, lists, index, disk,
                   tidy, past>>

-----------------------------------------------------------------------------
\* The process is killed, and a new one opens the same directory.
Crash ==
    /\ Fault
    /\ stray' = stray \cup (wavs \ Present)
    /\ conv' = [r \in Rec |-> IF conv[r] = "none" THEN "none" ELSE "over"]
    /\ ready' = "no"
    /\ queue' = << >> /\ job' = NoJob /\ victims' = {}
    /\ lists' = [l \in Lister |-> NotListing]
    /\ index' = [r \in Rec |-> Absent]
    /\ tidy' = (tidy /\ victims = {})
    /\ UNCHANGED <<issued, disk, saved, listed>>

Sockets ==
    \/ \E r \in Rec : ConversationStarts(r) \/ SaveTurn(r) \/ WavRenamed(r)
                      \/ SaveEnd(r)
    \/ ListCalled

InitWorks == MkdirDone \/ Sweep

ListWorks(l) ==
    Readdir(l) \/ Listed(l) \/ \E r \in Rec : Stat(l, r) \/ Read(l, r)

SaveWorks ==
    \/ Begin \/ TempWritten \/ Renamed
    \/ ListWorks("prune") \/ UnlinkRecord \/ UnlinkWav \/ Resolved

Breaks ==
    \/ MkdirFails \/ WriteFails \/ UnlinkFails \/ UnlinkWavFails \/ Crash
    \/ \E l \in Lister : ReaddirFails(l) \/ \E r \in Rec : ReadFails(l, r)
    \/ \E t \in temps : Ages(t)

Next == Sockets \/ InitWorks \/ SaveWorks \/ ListWorks("list") \/ Breaks

Spec == Init /\ [][Next]_vars

\* File operations complete, or fail; the listings of others may be without end.
FairSpec == Spec /\ WF_vars(InitWorks) /\ WF_vars(SaveWorks)

-----------------------------------------------------------------------------
Stamped == [ver : 0..MaxSaves, stamp : 0..(MaxRecords * MaxSaves)]

\* The shape of the state; nobody touches the directory before init() resolves,
\* and a row is deleted only by the save that runs.
TypeOK ==
    /\ conv \in [Rec -> {"none", "live", "recorded", "over"}]
    /\ issued \in [Rec -> 0..MaxSaves]
    /\ ready \in {"no", "mkdir", "sweep", "yes"}
    /\ queue \in Seq([rec : Rec, ver : 1..MaxSaves])
    /\ job \in [at : {"idle", "init", "rename", "listing", "unlink", "unlinkWav"},
                rec : Rec \cup {0}, ver : 0..MaxSaves]
    /\ victims \subseteq Rec
    /\ \A l \in Lister :
          /\ lists[l].at \in {"idle", "init", "readdir", "entries"}
          /\ lists[l].left \subseteq lists[l].files
          /\ lists[l].rows \subseteq lists[l].files
    /\ index \in [Rec -> Stamped]
    /\ files \in [Rec -> Stamped]
    /\ temps \subseteq [rec : Rec, ver : 1..MaxSaves, old : BOOLEAN]
    /\ wavs \subseteq Rec
    /\ saved \in [Rec -> 0..MaxSaves]
    /\ tidy \in BOOLEAN
    /\ stray \subseteq Rec /\ listed \in 0..MaxLists /\ faults \in 0..MaxFaults
    /\ job.at \notin {"idle", "init"} => ready = "yes"
    /\ \A l \in Lister : lists[l].at \in {"readdir", "entries"} => ready = "yes"
    /\ victims # {} => job.at \in {"unlink", "unlinkWav"}

\* A save that resolved is on disk, whatever failed or crashed since: as it was
\* or as a later save of the conversation left it, never as an earlier one did.
\* Only a cap takes a record away, and only while that many newer ones are there.
ResolvedSavesLast ==
    \A r \in Rec :
        saved[r] > 0 =>
            \/ files[r].ver >= saved[r]
            \/ /\ files[r] = Absent /\ Cap > 0
               /\ Cardinality({q \in Present : q > r}) >= Cap

\* After a prune that could read and delete every record it saw, at most Cap
\* records are left, and so it stays until the next save.  A recording outlives its
\* record only while prune() is between the two, where the disk refused to delete
\* it, which prune() swallows, or where the process was killed with the record
\* gone: else, once the last save of a conversation has resolved, its WAV is on disk
\* only if its JSON is.
CapHolds ==
    /\ tidy /\ job.at = "idle" /\ Cap > 0 => Cardinality(Present) <= Cap
    /\ \A r \in wavs \ stray :
         conv[r] = "over" /\ saved[r] = issued[r] =>
            r \in Present \/ (job.at = "unlinkWav" /\ r = Newest(victims))

\* An index entry that a listing would use says what the file says, however the
\* reads of two listings and the writes of a save interleave.
IndexIsFresh ==
    \A r \in Present :
        index[r].stamp = files[r].stamp => index[r].ver = files[r].ver

\* Every save settles: one that fails does not hold up the ones behind it.
SavesSettle == queue # << >> ~> (queue = << >> /\ job.at = "idle")
=============================================================================
