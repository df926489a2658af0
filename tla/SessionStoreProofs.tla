-------------------------- MODULE SessionStoreProofs --------------------------
(***************************************************************************)
(* Proofs about SessionStore.tla, for any number of conversations, saves,  *)
(* listings and faults, and any cap.                                       *)
(*                                                                         *)
(* What a run checks of the store follows from an invariant of the steps   *)
(* in between.  Saves run in the order they were issued, so each one that  *)
(* has not been renamed is Ahead() of all that is known of its record: the *)
(* file, the cache, and the stamps that listings have seen.  Hence the     *)
(* file only moves on, and a rename never gives a file a stamp that the    *)
(* cache has.  While prune() lists, nobody else writes, so the rows it     *)
(* deletes have Cap newer records among those that it leaves, one at a     *)
(* time as much as all together: a listing that misses rows, and a file    *)
(* that cannot be deleted, only make it leave more.                        *)
(***************************************************************************)
EXTENDS SessionStore, Integers, FiniteSetTheorems, SequenceTheorems,
        WellFoundedInduction, TLAPS

-----------------------------------------------------------------------------
(* The inductive invariant.                                                 *)

Stamps == 0..(MaxRecords * MaxSaves)

Save == [rec : Rec, ver : 1..MaxSaves]

Listing ==
    [at : {"idle", "init", "readdir", "entries"},
     files : SUBSET Rec, left : SUBSET Rec, rows : SUBSET Rec,
     stamp : {<< >>} \cup UNION {[S -> Stamps] : S \in SUBSET Rec}]

\* TypeOK, with what the listings carry.
Types ==
    /\ conv \in [Rec -> {"none", "live", "recorded", "over"}]
    /\ issued \in [Rec -> 0..MaxSaves]
    /\ ready \in {"no", "mkdir", "sweep", "yes"}
    /\ queue \in Seq(Save)
    /\ job \in [at : {"idle", "init", "rename", "listing", "unlink", "unlinkWav"},
                rec : Rec \cup {0}, ver : 0..MaxSaves]
    /\ victims \subseteq Rec
    /\ lists \in [Lister -> Listing]
    /\ index \in [Rec -> Stamped]
    /\ files \in [Rec -> Stamped]
    /\ temps \subseteq [rec : Rec, ver : 1..MaxSaves, old : BOOLEAN]
    /\ wavs \subseteq Rec
    /\ saved \in [Rec -> 0..MaxSaves]
    /\ tidy \in BOOLEAN
    /\ stray \subseteq Rec /\ listed \in 0..MaxLists /\ faults \in 0..MaxFaults

\* Which step of a listing and of prune() goes with which step of the save that
\* runs, and what waits for init().
Stage ==
    /\ job.at # "idle" => job.rec \in Rec /\ job.ver \in 1..MaxSaves
    /\ job.at \notin {"idle", "init"} => ready = "yes"
    /\ \A l \in Lister : lists[l].at \in {"readdir", "entries"} => ready = "yes"
    /\ \A l \in Lister : lists[l].at = "entries" =>
          /\ lists[l].stamp \in [lists[l].files -> Stamps]
          /\ lists[l].left \subseteq lists[l].files
          /\ lists[l].rows \subseteq lists[l].files
    /\ lists["prune"].at # "idle" <=> job.at = "listing"
    /\ lists["prune"].at # "init"
    /\ victims # {} => job.at \in {"unlink", "unlinkWav"} /\ Cap > 0
    /\ job.at = "unlinkWav" => victims # {}
    /\ job.at = "listing" => Cap > 0
    /\ \A l \in Lister : lists[l].at # "entries" =>
          lists[l].left = {} /\ lists[l].rows = {}

Shape == Types /\ Stage

\* Save v of record r would be later than anything of r that is on disk, in the
\* cache or under a listing's eyes.
Ahead(r, v) ==
    /\ files[r].ver < v /\ saved[r] < v
    /\ files[r].stamp < NextStamp(r, v)
    /\ index[r].stamp < NextStamp(r, v)
    /\ \A l \in Lister : lists[l].at = "entries" /\ r \in lists[l].files =>
          lists[l].stamp[r] < NextStamp(r, v)

\* Saves run in the order they were issued.
Order ==
    /\ \A r \in Rec : Ahead(r, issued[r] + 1)
    /\ \A i \in 1..Len(queue) :
          /\ Ahead(queue[i].rec, queue[i].ver)
          /\ queue[i].ver <= issued[queue[i].rec]
          /\ job.at # "idle" /\ job.rec = queue[i].rec => job.ver < queue[i].ver
    /\ \A i, j \in 1..Len(queue) :
          i < j /\ queue[i].rec = queue[j].rec => queue[i].ver < queue[j].ver
    /\ job.at # "idle" => job.ver <= issued[job.rec]
    /\ job.at \in {"init", "rename"} => Ahead(job.rec, job.ver)

\* Version v of record r, or a later one, is on disk, or the cap took it away.
Kept(r, v) ==
    \/ files[r].ver >= v
    \/ /\ files[r] = Absent /\ Cap > 0
       /\ Cardinality({q \in Present : q > r}) >= Cap

Written == job.at \in {"listing", "unlink", "unlinkWav"}

\* What prune() is going to delete has Cap newer records that it is not going to.
Pruning ==
    /\ lists["prune"].at = "entries" => lists["prune"].files = Present
    /\ \A v \in victims : Cardinality({q \in Present \ victims : q > v}) >= Cap

Keeping ==
    /\ \A r \in Rec : saved[r] > 0 => Kept(r, saved[r])
    /\ Written => Kept(job.rec, job.ver)

Tidy ==
    /\ tidy /\ Cap > 0 => Cardinality(Present \ victims) <= Cap
    /\ tidy /\ job.at = "unlinkWav" => Newest(victims) \notin Present

\* A recording without its record is one whose last save is still to be written,
\* or has failed.
Recordings ==
    \A r \in wavs \ stray :
      conv[r] = "over" =>
        \/ r \in Present
        \/ job.at = "unlinkWav" /\ r = Newest(victims)
        \/ saved[r] < issued[r] /\ ~(Written /\ job.rec = r /\ job.ver = issued[r])

\* A file that is there has a stamp that no missing file has, and the cache's
\* entry of the same stamp says what it says.
Fresh == IndexIsFresh /\ \A r \in Present : files[r].stamp # 0

Rest == Pruning /\ Keeping /\ Tidy

SInv == Shape /\ Order /\ Fresh /\ Rest /\ Recordings

-----------------------------------------------------------------------------
(* Stamps, and the largest of a set of records.                             *)

LEMMA Distributes ==
    ASSUME NEW x \in Int, NEW y \in Int, NEW z \in Int
    PROVE  (x + y) * z = x * z + y * z
OBVIOUS

LEMMA ProductType ==
    ASSUME NEW x \in Nat, NEW y \in Nat
    PROVE  x * y \in Nat
OBVIOUS

\* The last stamp of a record is no larger than the last of the last record.
LEMMA LastStamp ==
    ASSUME NEW r \in Rec
    PROVE  /\ (r - 1) * MaxSaves \in Nat
           /\ MaxRecords * MaxSaves \in Nat
           /\ (r - 1) * MaxSaves + MaxSaves <= MaxRecords * MaxSaves
<1> DEFINE a == (r - 1) * MaxSaves
           b == r * MaxSaves
           c == MaxRecords * MaxSaves
           d == (MaxRecords - r) * MaxSaves
<1>1. /\ MaxRecords \in Nat /\ MaxSaves \in Nat
      /\ r \in Nat /\ r - 1 \in Nat /\ MaxRecords - r \in Nat
  BY StoreAssumption DEF Rec
<1>2. a \in Nat /\ b \in Nat /\ c \in Nat /\ d \in Nat
  BY <1>1, ProductType
<1>3. b = a + MaxSaves
  <2>1. ((r - 1) + 1) * MaxSaves = (r - 1) * MaxSaves + 1 * MaxSaves
    BY <1>1, Distributes
  <2>2. (r - 1) + 1 = r /\ 1 * MaxSaves = MaxSaves
    BY <1>1
  <2> QED BY <2>1, <2>2
<1>4. c = b + d
  <2>1. (r + (MaxRecords - r)) * MaxSaves = b + d
    BY <1>1, Distributes
  <2>2. r + (MaxRecords - r) = MaxRecords
    BY <1>1
  <2> QED BY <2>1, <2>2
<1> HIDE DEF a, b, c, d
<1>5. a + MaxSaves <= c
  BY <1>1, <1>2, <1>3, <1>4
<1> QED BY <1>2, <1>5 DEF a, c

LEMMA LastStampType == 0 \in 0..MaxSaves /\ 0 \in 0..(MaxRecords * MaxSaves)
<1>1. MaxRecords * MaxSaves \in Nat /\ MaxSaves \in Nat
  BY ProductType, StoreAssumption
<1> DEFINE c == MaxRecords * MaxSaves
<1>2. c \in Nat
  BY <1>1
<1> HIDE DEF c
<1>3. 0 \in 0..c
  BY <1>2
<1> QED BY <1>1, <1>3 DEF c

\* A record's stamps grow with its versions and are never that of no file.
LEMMA StampFacts ==
    ASSUME NEW r \in Rec
    PROVE  /\ \A v \in Nat : NextStamp(r, v) \in Nat
           /\ \A v \in 1..MaxSaves : NextStamp(r, v) \in Stamps /\ NextStamp(r, v) # 0
           /\ \A v, w \in Nat : v < w => NextStamp(r, v) < NextStamp(r, w)
<1> DEFINE a == (r - 1) * MaxSaves
           c == MaxRecords * MaxSaves
<1>1. a \in Nat /\ c \in Nat /\ a + MaxSaves <= c
  BY LastStamp
<1>2. MaxSaves \in Nat
  BY StoreAssumption
<1>3. \A v : NextStamp(r, v) = a + v
  BY DEF NextStamp
<1>4. Stamps = 0..c
  BY DEF Stamps
<1> HIDE DEF a, c
<1> QED BY <1>1, <1>2, <1>3, <1>4

LEMMA RecFinite ==
    ASSUME NEW S \in SUBSET Rec
    PROVE  IsFiniteSet(S) /\ Cardinality(S) \in Nat
<1>1. IsFiniteSet(Rec)
  BY FS_Interval, StoreAssumption DEF Rec
<1> QED BY <1>1, FS_Subset, FS_CardinalityType

LEMMA Least ==
    ASSUME NEW S \in SUBSET Rec, S # {}
    PROVE  \E r \in S : \A q \in S : r <= q
<1>1. S \subseteq Nat
  BY DEF Rec
<1>2. \E r \in S : \A q \in S : <<q, r>> \notin OpToRel(<, Nat)
  BY <1>1, NatLessThanWellFounded, WFMin
<1>3. \A q, r \in Nat : <<q, r>> \notin OpToRel(<, Nat) => r <= q
  BY DEF OpToRel
<1> QED BY <1>1, <1>2, <1>3

\* There is a newest of any records, so the victims fall in a definite order.
LEMMA NewestFacts ==
    ASSUME NEW S \in SUBSET Rec, S # {}
    PROVE  Newest(S) \in S /\ \A q \in S : q <= Newest(S)
<1> DEFINE T == {MaxRecords + 1 - r : r \in S}
<1>1. \A r \in S : r \in Nat /\ 1 <= r /\ r <= MaxRecords
  BY DEF Rec
<1>2. T \in SUBSET Rec /\ T # {}
  <2>1. ASSUME NEW r \in S PROVE MaxRecords + 1 - r \in Rec
    BY <1>1, StoreAssumption DEF Rec
  <2> QED BY <2>1
<1>3. PICK t \in T : \A u \in T : t <= u
  <2> HIDE DEF T
  <2> QED BY <1>2, Least
<1>4. PICK r \in S : t = MaxRecords + 1 - r
  OBVIOUS
<1>5. ASSUME NEW q \in S PROVE q <= r
  <2>1. MaxRecords + 1 - q \in T
    OBVIOUS
  <2> QED BY <1>1, <1>3, <1>4, <2>1, StoreAssumption
<1>6. \E m \in S : \A q \in S : q <= m
  BY <1>5
<1> QED BY <1>6 DEF Newest

Above(S, r) == {q \in S : q > r}

\* Fewer than Cap of the records that are kept are newer than one of them, so at
\* most Cap are kept.
LEMMA KeptFew ==
    ASSUME NEW S \in SUBSET Rec, Cap > 0
    PROVE  Cardinality(S \ Beyond(S)) <= Cap
<1> DEFINE K == S \ Beyond(S)
<1>0. Cap \in Nat
  BY StoreAssumption
<1>1. K \in SUBSET Rec
  OBVIOUS
<1>2. CASE K = {}
  BY <1>0, <1>2, FS_EmptySet
<1>3. CASE K # {}
  <2>1. PICK r \in K : \A q \in K : r <= q
    <3> HIDE DEF K
    <3> QED BY <1>1, <1>3, Least
  <2>2. Above(S, r) \in SUBSET Rec /\ IsFiniteSet(Above(S, r))
        /\ Cardinality(Above(S, r)) \in Nat
    BY RecFinite DEF Above
  <2>3. ~(Cardinality(Above(S, r)) >= Cap)
    BY <2>1 DEF Beyond, Above
  <2>4. K \subseteq Above(S, r) \cup {r}
    BY <1>1, <2>1 DEF Above, Rec
  <2>5. IsFiniteSet(Above(S, r) \cup {r})
        /\ Cardinality(Above(S, r) \cup {r}) = Cardinality(Above(S, r)) + 1
    <3>1. r \notin Above(S, r)
      BY DEF Above, Rec
    <3> QED BY <2>2, <3>1, FS_AddElement
  <2>6. Cardinality(K) <= Cardinality(Above(S, r) \cup {r})
    BY <2>4, <2>5, FS_Subset
  <2>7. Cardinality(K) \in Nat
    BY <1>1, RecFinite
  <2> DEFINE k == Cardinality(K)
             a == Cardinality(Above(S, r))
             b == Cardinality(Above(S, r) \cup {r})
  <2>8. a \in Nat /\ k \in Nat /\ b = a + 1 /\ k <= b /\ ~(a >= Cap)
    BY <2>2, <2>3, <2>5, <2>6, <2>7
  <2> HIDE DEF k, a, b
  <2>9. k <= Cap
    BY <1>0, <2>8
  <2> QED BY <2>9 DEF k
<1> QED BY <1>2, <1>3

\* What is deleted has Cap newer records among those that are kept.
LEMMA NewerAreKept ==
    ASSUME NEW S \in SUBSET Rec, NEW v \in Beyond(S)
    PROVE  Cardinality(Above(S \ Beyond(S), v)) >= Cap
<1> DEFINE B == Beyond(S)
           m == Newest(B)
<1>1. B \in SUBSET Rec /\ B # {} /\ B \subseteq S
  BY DEF Beyond
<1>2. m \in B /\ \A q \in B : q <= m
  <2> HIDE DEF B
  <2> QED BY <1>1, NewestFacts
<1>3. Cardinality(Above(S, m)) >= Cap
  BY <1>2 DEF Beyond, Above
<1>4. Above(S, m) \subseteq Above(S \ B, v)
  <2> SUFFICES ASSUME NEW q \in S, q > m PROVE q \notin B /\ q > v
    BY DEF Above
  <2>1. q \in Nat /\ m \in Nat /\ v \in Nat /\ \A b \in B : b \in Nat
    BY <1>1, <1>2 DEF Rec
  <2> HIDE DEF m
  <2>2. v <= m /\ v \in B
    BY <1>2
  <2> HIDE DEF B
  <2> QED BY <1>2, <2>1, <2>2
<1> HIDE DEF B, m
<1>5. /\ Above(S, m) \in SUBSET Rec /\ Above(S \ B, v) \in SUBSET Rec
  BY DEF Above
<1>6. Cardinality(Above(S, m)) <= Cardinality(Above(S \ B, v))
  BY <1>4, <1>5, RecFinite, FS_Subset
<1>7. Cardinality(Above(S, m)) \in Nat /\ Cardinality(Above(S \ B, v)) \in Nat
  BY <1>5, RecFinite
<1> QED BY <1>3, <1>6, <1>7, StoreAssumption DEF B

-----------------------------------------------------------------------------
(* The shape of the state.                                                  *)

LEMMA ListingFacts ==
    ASSUME NEW x \in Listing
    PROVE  /\ x.at \in {"idle", "init", "readdir", "entries"}
           /\ x.files \in SUBSET Rec /\ x.left \in SUBSET Rec
           /\ x.rows \in SUBSET Rec
BY DEF Listing

LEMMA ListingMoves ==
    ASSUME NEW x \in Listing, NEW a \in {"idle", "init", "readdir", "entries"}
    PROVE  /\ [x EXCEPT !.at = a] \in Listing
           /\ [x EXCEPT !.at = a].at = a
           /\ [x EXCEPT !.at = a].files = x.files
           /\ [x EXCEPT !.at = a].left = x.left
           /\ [x EXCEPT !.at = a].rows = x.rows
           /\ [x EXCEPT !.at = a].stamp = x.stamp
BY DEF Listing

LEMMA NotListingType == NotListing \in Listing
BY DEF NotListing, Listing

LEMMA InitShape == ASSUME Init PROVE Shape
<1>1. Absent \in Stamped
  BY LastStampType DEF Absent, Stamped
<1>2. NotListing \in Listing /\ NotListing.at = "idle"
      /\ NotListing.left = {} /\ NotListing.rows = {}
  BY NotListingType DEF NotListing
<1>3. NoJob.at = "idle" /\ NoJob.rec = 0 /\ NoJob.ver = 0
  BY DEF NoJob
<1>4. Types
  <2>1. job \in [at : {"idle", "init", "rename", "listing", "unlink", "unlinkWav"},
                rec : Rec \cup {0}, ver : 0..MaxSaves]
    BY LastStampType DEF Init, NoJob
  <2>2. /\ listed \in 0..MaxLists /\ faults \in 0..MaxFaults
        /\ issued \in [Rec -> 0..MaxSaves] /\ saved \in [Rec -> 0..MaxSaves]
    BY StoreAssumption DEF Init
  <2>3. queue \in Seq(Save) /\ lists \in [Lister -> Listing]
    BY <1>2 DEF Init
  <2>4. /\ index \in [Rec -> Stamped] /\ files \in [Rec -> Stamped]
        /\ conv \in [Rec -> {"none", "live", "recorded", "over"}]
    BY <1>1 DEF Init
  <2> QED BY <2>1, <2>2, <2>3, <2>4 DEF Init, Types
<1>5. Stage
  BY <1>2, <1>3 DEF Init, Stage, Lister
<1> QED BY <1>4, <1>5 DEF Shape

\* A step that neither a listing nor the save that runs takes part in.
LEMMA AsideShape ==
    ASSUME Shape, Types', UNCHANGED <<job, victims, lists>>,
           ready' = ready \/ ready = "no" \/ ready' = "yes"
    PROVE  Shape'
BY DEF Shape, Stage

LEMMA SocketsShape == ASSUME Shape, Sockets PROVE Shape'
<1>1. Types /\ Stage
  BY DEF Shape
<1>2. ASSUME NEW r \in Rec, ConversationStarts(r) PROVE Shape'
  <2>1. Types'
    BY <1>1, <1>2 DEF Types, ConversationStarts, store, disk, past
  <2> QED BY <2>1, <1>2, AsideShape DEF ConversationStarts, store, disk, past
<1>3. ASSUME NEW r \in Rec, Enqueue(r), conv' \in [Rec -> {"none", "live", "recorded", "over"}]
      PROVE  Shape'
  <2>1. issued[r] + 1 \in 1..MaxSaves
    BY <1>1, <1>3, StoreAssumption DEF Types, Enqueue
  <2>2. [rec |-> r, ver |-> issued[r] + 1] \in Save
    BY <2>1 DEF Save
  <2>3. queue' \in Seq(Save)
    BY <1>1, <1>3, <2>2, AppendProperties DEF Types, Enqueue
  <2>4. issued' \in [Rec -> 0..MaxSaves]
    BY <1>1, <1>3, <2>1, StoreAssumption DEF Types, Enqueue
  <2>5. Types'
    BY <1>1, <1>3, <2>3, <2>4 DEF Types, Enqueue, disk, past
  <2> QED BY <2>5, <1>3, AsideShape DEF Enqueue
<1>4. ASSUME NEW r \in Rec, SaveTurn(r) PROVE Shape'
  BY <1>1, <1>3, <1>4 DEF SaveTurn, Types
<1>5. ASSUME NEW r \in Rec, WavRenamed(r) PROVE Shape'
  <2>1. Types'
    BY <1>1, <1>5 DEF Types, WavRenamed, store, disk, past
  <2> QED BY <2>1, <1>5, AsideShape DEF WavRenamed, store
<1>6. ASSUME NEW r \in Rec, SaveEnd(r) PROVE Shape'
  BY <1>1, <1>3, <1>6 DEF SaveEnd, Types
<1>7. CASE ListCalled
  <2>1. "list" \in Lister
    BY DEF Lister
  <2> DEFINE row == [lists["list"] EXCEPT !.at = "init"]
  <2>2. /\ row \in Listing /\ row.at = "init" /\ row.left = {} /\ row.rows = {}
    <3>1. lists["list"] \in Listing /\ lists["list"].at # "entries"
      BY <1>1, <1>7, <2>1 DEF Types, ListCalled
    <3>2. lists["list"].left = {} /\ lists["list"].rows = {}
      BY <1>1, <2>1, <3>1 DEF Stage
    <3> QED BY <3>1, <3>2, ListingMoves
  <2>3. lists' = [lists EXCEPT !["list"] = row]
    BY <1>7 DEF ListCalled
  <2>4. lists'["prune"] = lists["prune"] /\ lists'["list"] = row /\ lists' \in [Lister -> Listing]
    BY <1>1, <2>1, <2>2, <2>3 DEF Types, Lister
  <2> HIDE DEF row
  <2>7. listed' \in 0..MaxLists /\ ready' \in {"no", "mkdir", "sweep", "yes"}
    BY <1>1, <1>7, StoreAssumption DEF Types, ListCalled, InitCalled
  <2>5. Types'
    BY <1>1, <1>7, <2>4, <2>7 DEF Types, ListCalled, disk
  <2>6. Stage'
    BY <1>1, <1>7, <2>2, <2>4 DEF Stage, ListCalled, InitCalled, Lister
  <2> QED BY <2>5, <2>6 DEF Shape
<1> QED BY <1>2, <1>4, <1>5, <1>6, <1>7 DEF Sockets

LEMMA JobShape ==
    ASSUME Shape, \/ InitWorks \/ Begin \/ TempWritten \/ Renamed
                  \/ UnlinkRecord \/ UnlinkWav \/ UnlinkWavFails \/ Resolved
    PROVE  Shape'
<1>1. Types /\ Stage
  BY DEF Shape
<1>2. CASE InitWorks
  <2>1. Types'
    BY <1>1, <1>2 DEF Types, InitWorks, MkdirDone, Sweep, disk, past
  <2>2. Stage'
    BY <1>1, <1>2 DEF Stage, InitWorks, MkdirDone, Sweep
  <2> QED BY <2>1, <2>2 DEF Shape
<1>3. CASE Begin
  <2>1. Head(queue) \in Save /\ Tail(queue) \in Seq(Save)
    BY <1>1, <1>3, HeadTailProperties DEF Types, Begin
  <2>2. /\ job' = [at |-> "init", rec |-> Head(queue).rec, ver |-> Head(queue).ver]
        /\ job'.rec \in Rec /\ job'.ver \in 1..MaxSaves /\ job'.at = "init"
    BY <1>3, <2>1 DEF Begin, Save
  <2>5. job' \in [at : {"idle", "init", "rename", "listing", "unlink", "unlinkWav"},
                  rec : Rec \cup {0}, ver : 0..MaxSaves]
    BY <2>2, StoreAssumption
  <2>6. queue' \in Seq(Save) /\ ready' \in {"no", "mkdir", "sweep", "yes"}
    BY <1>1, <1>3, <2>1 DEF Begin, InitCalled, Types
  <2>3. Types'
    BY <1>1, <1>3, <2>5, <2>6 DEF Types, Begin, disk, past
  <2>4. Stage'
    BY <1>1, <1>3, <2>2 DEF Stage, Begin, InitCalled
  <2> QED BY <2>3, <2>4 DEF Shape
<1>4. CASE TempWritten
  <2>1. TempFile \in [rec : Rec, ver : 1..MaxSaves, old : BOOLEAN]
    BY <1>1, <1>4 DEF TempWritten, TempFile, Stage
  <2>2. Types'
    BY <1>1, <1>4, <2>1 DEF Types, TempWritten, past
  <2>3. Stage'
    BY <1>1, <1>4 DEF Types, Stage, TempWritten
  <2> QED BY <2>2, <2>3 DEF Shape
<1>5. CASE Renamed
  <2>1. job.rec \in Rec /\ job.ver \in 1..MaxSaves /\ "prune" \in Lister
    BY <1>1, <1>5 DEF Renamed, Stage, Lister
  <2>2. [ver |-> job.ver, stamp |-> NextStamp(job.rec, job.ver)] \in Stamped
    BY <2>1, StampFacts, StoreAssumption DEF Stamped, Stamps
  <2> DEFINE row == [lists["prune"] EXCEPT !.at = IF Cap > 0 THEN "readdir" ELSE @]
  <2>3. lists["prune"].at = "idle"
    BY <1>1, <1>5 DEF Stage, Renamed
  <2>4. /\ row \in Listing /\ row.at = (IF Cap > 0 THEN "readdir" ELSE "idle")
        /\ row.left = {} /\ row.rows = {}
    <3>1. lists["prune"] \in Listing /\ lists["prune"].at = "idle"
      BY <1>1, <2>1, <2>3 DEF Types
    <3>2. lists["prune"].left = {} /\ lists["prune"].rows = {}
      BY <1>1, <2>1, <3>1 DEF Stage
    <3> DEFINE at == IF Cap > 0 THEN "readdir" ELSE "idle"
    <3>3. row = [lists["prune"] EXCEPT !.at = at] /\ at \in {"idle", "init", "readdir", "entries"}
      BY <3>1
    <3> HIDE DEF at, row
    <3>4. row \in Listing /\ row.at = at /\ row.left = {} /\ row.rows = {}
      BY <3>1, <3>2, <3>3, ListingMoves
    <3> QED BY <3>4 DEF at
  <2>5. lists' = [lists EXCEPT !["prune"] = row]
    BY <1>5 DEF Renamed
  <2> HIDE DEF row
  <2>6. lists'["prune"] = row /\ lists'["list"] = lists["list"] /\ lists' \in [Lister -> Listing]
    BY <1>1, <2>1, <2>4, <2>5 DEF Types, Lister
  <2>7. files' \in [Rec -> Stamped]
    BY <1>1, <1>5, <2>1, <2>2 DEF Types, Renamed
  <2>8. job' \in [at : {"idle", "init", "rename", "listing", "unlink", "unlinkWav"},
                  rec : Rec \cup {0}, ver : 0..MaxSaves]
        /\ job'.rec = job.rec /\ job'.ver = job.ver
        /\ job'.at = (IF Cap > 0 THEN "listing" ELSE "unlink")
    BY <1>1, <1>5 DEF Types, Renamed
  <2>9. Types'
    BY <1>1, <1>5, <2>6, <2>7, <2>8 DEF Types, Renamed, past
  <2>10. Stage'
    BY <1>1, <1>5, <2>1, <2>4, <2>6, <2>8 DEF Stage, Renamed, Lister
  <2> QED BY <2>9, <2>10 DEF Shape
<1>6. CASE UnlinkRecord
  <2>1. Absent \in Stamped
    BY LastStampType DEF Absent, Stamped
  <2>2. Types'
    BY <1>1, <1>6, <2>1 DEF Types, UnlinkRecord, past
  <2>3. Stage'
    BY <1>1, <1>6 DEF Types, Stage, UnlinkRecord
  <2> QED BY <2>2, <2>3 DEF Shape
<1>7. CASE UnlinkWav \/ UnlinkWavFails
  <2>1. Absent \in Stamped
    BY LastStampType DEF Absent, Stamped
  <2>4. stray' \subseteq Rec /\ wavs' \subseteq Rec
        /\ listed' \in 0..MaxLists /\ faults' \in 0..MaxFaults
    BY <1>1, <1>7, StoreAssumption DEF Types, UnlinkWav, UnlinkWavFails, Fault, disk
  <2>2. Types'
    <3>1. /\ job' = [job EXCEPT !.at = "unlink"] /\ victims' \subseteq victims
          /\ index' = [index EXCEPT ![Newest(victims)] = Absent]
          /\ UNCHANGED <<conv, issued, ready, queue, lists, files, temps, saved,
                         tidy>>
      BY <1>7 DEF UnlinkWav, UnlinkWavFails, disk
    <3>2. index' \in [Rec -> Stamped]
      BY <1>1, <2>1, <3>1 DEF Types
    <3>3. job' \in [at : {"idle", "init", "rename", "listing", "unlink", "unlinkWav"},
                    rec : Rec \cup {0}, ver : 0..MaxSaves]
      BY <1>1, <3>1 DEF Types
    <3> QED BY <1>1, <2>4, <3>1, <3>2, <3>3 DEF Types
  <2>3. Stage'
    BY <1>1, <1>7 DEF Types, Stage, UnlinkWav, UnlinkWavFails, disk
  <2> QED BY <2>2, <2>3 DEF Shape
<1>8. CASE Resolved
  <2>1. job.rec \in Rec /\ job.ver \in 0..MaxSaves
    BY <1>1, <1>8 DEF Resolved, Stage, Types
  <2>2. Types'
    BY <1>1, <1>8, <2>1, StoreAssumption DEF Types, Resolved, NoJob, disk, past
  <2>3. Stage'
    BY <1>1, <1>8 DEF Types, Stage, Resolved, NoJob
  <2> QED BY <2>2, <2>3 DEF Shape
<1> QED BY <1>2, <1>3, <1>4, <1>5, <1>6, <1>7, <1>8

\* One listing goes on: its row is replaced, and the others stay.
LEMMA RowShape ==
    ASSUME Shape, NEW l \in Lister, NEW row \in Listing,
           lists' = [lists EXCEPT ![l] = row],
           row.at = "entries" =>
             /\ row.stamp \in [row.files -> Stamps]
             /\ row.left \subseteq row.files /\ row.rows \subseteq row.files,
           row.at # "entries" => row.left = {} /\ row.rows = {},
           row.at = "entries" => ready = "yes",
           row.at \in {"entries", "idle"},
           ready' = ready,
           job' \in [at : {"idle", "init", "rename", "listing", "unlink", "unlinkWav"},
                     rec : Rec \cup {0}, ver : 0..MaxSaves],
           job'.rec = job.rec, job'.ver = job.ver,
           job'.at = (IF l = "prune" /\ row.at = "idle" THEN "unlink" ELSE job.at),
           l = "prune" => lists[l].at # "idle",
           victims' \subseteq Rec,
           victims' = victims \/ job.at = "listing",
           index' \in [Rec -> Stamped], tidy' \in BOOLEAN, faults' \in 0..MaxFaults,
           UNCHANGED <<conv, issued, queue, files, temps, wavs, saved, stray, listed>>,
           victims' # victims => job'.at = "unlink"
    PROVE  Shape'
<1>1. Types /\ Stage
  BY DEF Shape
<1>2. lists' \in [Lister -> Listing] /\ lists'[l] = row
      /\ \A k \in Lister : k # l => lists'[k] = lists[k]
  BY <1>1 DEF Types
<1>3. Types'
  BY <1>1, <1>2 DEF Types
<1>4. "prune" \in Lister
  BY DEF Lister
<1>5. lists'["prune"].at # "idle" <=> job'.at = "listing"
  BY <1>1, <1>2, <1>4 DEF Stage
<1>6. Stage'
  <2>1. /\ job'.at # "idle" => job'.rec \in Rec /\ job'.ver \in 1..MaxSaves
        /\ job'.at \notin {"idle", "init"} => ready' = "yes"
    BY <1>1, <1>4 DEF Stage
  <2>2. \A k \in Lister :
          /\ lists'[k].at \in {"readdir", "entries"} => ready' = "yes"
          /\ lists'[k].at = "entries" =>
               /\ lists'[k].stamp \in [lists'[k].files -> Stamps]
               /\ lists'[k].left \subseteq lists'[k].files
               /\ lists'[k].rows \subseteq lists'[k].files
          /\ lists'[k].at # "entries" => lists'[k].left = {} /\ lists'[k].rows = {}
    BY <1>1, <1>2 DEF Stage
  <2>3. lists'["prune"].at # "init"
    BY <1>1, <1>2, <1>4 DEF Stage
  <2>4. /\ victims' # {} => job'.at \in {"unlink", "unlinkWav"} /\ Cap > 0
        /\ job'.at = "unlinkWav" => victims' # {}
        /\ job'.at = "listing" => Cap > 0
    BY <1>1, <1>4, <1>5 DEF Stage
  <2> QED BY <1>5, <2>1, <2>2, <2>3, <2>4 DEF Stage
<1> QED BY <1>3, <1>6 DEF Shape

\* What an entry's turn makes of the row of its listing.
LEMMA EntryRow ==
    ASSUME Shape, NEW l \in Lister, lists[l].at = "entries", NEW r \in lists[l].left
    PROVE  /\ r \in Rec /\ r \in lists[l].files
           /\ [lists[l] EXCEPT !.left = @ \ {r}] \in Listing
           /\ [lists[l] EXCEPT !.left = @ \ {r}].at = "entries"
           /\ [lists[l] EXCEPT !.left = @ \ {r}].files = lists[l].files
           /\ [lists[l] EXCEPT !.left = @ \ {r}].left = lists[l].left \ {r}
           /\ [lists[l] EXCEPT !.left = @ \ {r}].rows = lists[l].rows
           /\ [lists[l] EXCEPT !.left = @ \ {r}].stamp = lists[l].stamp
           /\ [lists[l] EXCEPT !.left = @ \ {r}, !.rows = @ \cup {r}] \in Listing
           /\ [lists[l] EXCEPT !.left = @ \ {r}, !.rows = @ \cup {r}].at = "entries"
           /\ [lists[l] EXCEPT !.left = @ \ {r}, !.rows = @ \cup {r}].files = lists[l].files
           /\ [lists[l] EXCEPT !.left = @ \ {r}, !.rows = @ \cup {r}].left = lists[l].left \ {r}
           /\ [lists[l] EXCEPT !.left = @ \ {r}, !.rows = @ \cup {r}].rows = lists[l].rows \cup {r}
           /\ [lists[l] EXCEPT !.left = @ \ {r}, !.rows = @ \cup {r}].stamp = lists[l].stamp
<1> DEFINE x == lists[l]
<1>1. x \in Listing /\ x.left \subseteq x.files /\ x.at = "entries"
  BY DEF Shape, Types, Stage
<1> HIDE DEF x
<1>2. r \in x.left /\ r \in Rec /\ r \in x.files
  BY <1>1 DEF x, Listing
<1>3. x.left \ {r} \in SUBSET Rec /\ x.rows \cup {r} \in SUBSET Rec
  BY <1>1, <1>2 DEF Listing
<1>4. /\ [x EXCEPT !.left = @ \ {r}] \in Listing
      /\ [x EXCEPT !.left = @ \ {r}].at = "entries"
      /\ [x EXCEPT !.left = @ \ {r}].files = x.files
      /\ [x EXCEPT !.left = @ \ {r}].left = x.left \ {r}
      /\ [x EXCEPT !.left = @ \ {r}].rows = x.rows
      /\ [x EXCEPT !.left = @ \ {r}].stamp = x.stamp
  BY <1>1, <1>3 DEF Listing
<1>5. /\ [x EXCEPT !.left = @ \ {r}, !.rows = @ \cup {r}] \in Listing
      /\ [x EXCEPT !.left = @ \ {r}, !.rows = @ \cup {r}].at = "entries"
      /\ [x EXCEPT !.left = @ \ {r}, !.rows = @ \cup {r}].files = x.files
      /\ [x EXCEPT !.left = @ \ {r}, !.rows = @ \cup {r}].left = x.left \ {r}
      /\ [x EXCEPT !.left = @ \ {r}, !.rows = @ \cup {r}].rows = x.rows \cup {r}
      /\ [x EXCEPT !.left = @ \ {r}, !.rows = @ \cup {r}].stamp = x.stamp
  BY <1>1, <1>3 DEF Listing
<1> QED BY <1>2, <1>4, <1>5 DEF x

\* Between Listed() and the next one, what a listing's step says of its row.
Moves(l, row) ==
    /\ lists' = [lists EXCEPT ![l] = row]
    /\ row \in Listing
    /\ lists[l].at = "entries" /\ row.at = "entries"
    /\ row.files = lists[l].files
    /\ row.left \subseteq lists[l].left
    /\ row.stamp \in [row.files -> Stamps]
    /\ row.rows \subseteq row.files

\* The turn of one entry: it is skipped, used from the cache or the file, or its
\* stamp is noted.
LEMMA EntryMoves ==
    ASSUME Shape, NEW l \in Lister, NEW r \in Rec, Stat(l, r) \/ Read(l, r) \/ ReadFails(l, r)
    PROVE  /\ \E row : Moves(l, row)
                       /\ \A q \in row.files :
                            row.stamp[q] = lists[l].stamp[q] \/ row.stamp[q] = files[q].stamp
           /\ r \in lists[l].files
           /\ \/ index' = index
              \/ index' = [index EXCEPT ![r] = Absent]
              \/ index' = [index EXCEPT ![r] =
                             [ver |-> files[r].ver, stamp |-> lists[l].stamp[r]]]
           /\ UNCHANGED <<conv, issued, ready, queue, job, victims, files, temps, wavs,
                          saved, tidy, stray, listed>>
           /\ faults' \in 0..MaxFaults
<1> DEFINE x == lists[l]
           gone == [x EXCEPT !.left = @ \ {r}]
           used == [x EXCEPT !.left = @ \ {r}, !.rows = @ \cup {r}]
           noted == [x EXCEPT !.stamp = [x.stamp EXCEPT ![r] = files[r].stamp]]
<1>1. Types /\ Stage /\ x.at = "entries" /\ r \in x.left
  BY DEF Shape, Stat, Read, ReadFails
<1>2. /\ x.stamp \in [x.files -> Stamps] /\ x.left \subseteq x.files /\ x.rows \subseteq x.files
      /\ x \in Listing
  BY <1>1 DEF Stage, Types
<1>3. /\ gone \in Listing /\ gone.at = "entries" /\ gone.files = x.files
      /\ gone.left = x.left \ {r} /\ gone.rows = x.rows /\ gone.stamp = x.stamp
      /\ used \in Listing /\ used.at = "entries" /\ used.files = x.files
      /\ used.left = x.left \ {r} /\ used.rows = x.rows \cup {r} /\ used.stamp = x.stamp
      /\ r \in x.files
  BY <1>1, EntryRow
<1>4. Skip(l, r) => lists' = [lists EXCEPT ![l] = gone]
  BY DEF Skip
<1>5. Use(l, r) => lists' = [lists EXCEPT ![l] = used]
  BY DEF Use
<1>6. /\ noted \in Listing /\ noted.at = "entries" /\ noted.files = x.files
      /\ noted.left = x.left /\ noted.rows = x.rows
      /\ noted.stamp = [x.stamp EXCEPT ![r] = files[r].stamp]
      /\ noted.stamp \in [x.files -> Stamps]
  <2> DEFINE st == [x.stamp EXCEPT ![r] = files[r].stamp]
  <2>1. files[r].stamp \in Stamps
    BY <1>1 DEF Types, Stamped, Stamps
  <2>2. st \in [x.files -> Stamps] /\ x.files \in SUBSET Rec
    BY <1>2, <2>1 DEF Listing
  <2> HIDE DEF st, x
  <2>3. [x EXCEPT !.stamp = st] \in Listing
        /\ [x EXCEPT !.stamp = st].at = x.at /\ [x EXCEPT !.stamp = st].files = x.files
        /\ [x EXCEPT !.stamp = st].left = x.left /\ [x EXCEPT !.stamp = st].rows = x.rows
        /\ [x EXCEPT !.stamp = st].stamp = st
    BY <1>2, <2>2 DEF Listing
  <2> QED BY <1>1, <2>2, <2>3 DEF st
<1>7. lists' = [lists EXCEPT ![l].stamp[r] = files[r].stamp]
        => lists' = [lists EXCEPT ![l] = noted]
  OBVIOUS
<1> HIDE DEF gone, used, noted
<1>8. \E row \in {gone, used, noted} : lists' = [lists EXCEPT ![l] = row]
  BY <1>4, <1>5, <1>7 DEF Stat, Read, ReadFails
<1>9. \A row \in {gone, used, noted} :
        lists' = [lists EXCEPT ![l] = row] =>
          /\ Moves(l, row)
          /\ \A q \in row.files : row.stamp[q] = x.stamp[q] \/ row.stamp[q] = files[q].stamp
  BY <1>1, <1>2, <1>3, <1>6 DEF Moves
<1>10. \/ index' = index
       \/ index' = [index EXCEPT ![r] = Absent]
       \/ index' = [index EXCEPT ![r] =
                      [ver |-> files[r].ver, stamp |-> x.stamp[r]]]
  BY DEF Stat, Read, ReadFails, Skip, Use
<1>11. /\ UNCHANGED <<conv, issued, ready, queue, job, victims, files, temps, wavs,
                      saved, tidy, stray, listed>>
       /\ faults' \in 0..MaxFaults
  <2>1. CASE Stat(l, r) \/ Read(l, r)
    BY <1>1, <2>1 DEF Stat, Read, disk, past, Types
  <2>2. CASE ReadFails(l, r)
    <3>1. faults' \in 0..MaxFaults
      BY <1>1, <2>2, StoreAssumption DEF ReadFails, Fault, Types
    <3> QED BY <2>2, <3>1 DEF ReadFails, disk
  <2> QED BY <2>1, <2>2
<1> QED BY <1>3, <1>8, <1>9, <1>10, <1>11

LEMMA EntryShape ==
    ASSUME Shape, NEW l \in Lister, NEW r \in Rec, Stat(l, r) \/ Read(l, r) \/ ReadFails(l, r)
    PROVE  Shape'
<1>1. Types /\ Stage
  BY DEF Shape
<1>2. PICK row : Moves(l, row)
  BY EntryMoves
<1>3. /\ UNCHANGED <<conv, issued, ready, queue, job, victims, files, temps, wavs,
                     saved, tidy, stray, listed>>
      /\ faults' \in 0..MaxFaults /\ r \in lists[l].files
      /\ \/ index' = index
         \/ index' = [index EXCEPT ![r] = Absent]
         \/ index' = [index EXCEPT ![r] =
                        [ver |-> files[r].ver, stamp |-> lists[l].stamp[r]]]
  BY EntryMoves
<1>4. index' \in [Rec -> Stamped]
  <2>1. lists[l].stamp[r] \in Stamps
    BY <1>1, <1>2, <1>3 DEF Moves, Stage
  <2>2. Absent \in Stamped /\ [ver |-> files[r].ver, stamp |-> lists[l].stamp[r]] \in Stamped
    BY <1>1, <2>1, LastStampType DEF Absent, Stamped, Types, Stamps
  <2> QED BY <1>1, <1>3, <2>2 DEF Types
<1>5. ready = "yes" /\ row.left \subseteq row.files
  BY <1>1, <1>2 DEF Stage, Moves
<1>6. l = "prune" => job.at = "listing"
  BY <1>1, <1>2 DEF Stage, Moves
<1> QED BY <1>1, <1>2, <1>3, <1>4, <1>5, <1>6, RowShape DEF Moves, Types

\* The start of a listing's reads, their failure, and the end of the listing.
LEMMA ListingShape ==
    ASSUME Shape, NEW l \in Lister, Readdir(l) \/ ReaddirFails(l) \/ Listed(l)
    PROVE  Shape'
<1>1. Types /\ Stage /\ lists[l] \in Listing
  BY DEF Shape, Types
<1> DEFINE jobs == [at : {"idle", "init", "rename", "listing", "unlink", "unlinkWav"},
                    rec : Rec \cup {0}, ver : 0..MaxSaves]
<1>2. job \in jobs
  BY <1>1 DEF Types
<1>3. l = "prune" /\ lists[l].at # "idle" => job.at = "listing" /\ lists[l].at # "init"
  BY <1>1 DEF Stage
<1>4. NotListing \in Listing /\ NotListing.at = "idle" /\ NotListing.left = {}
      /\ NotListing.rows = {}
  BY NotListingType DEF NotListing
<1>5. CASE Readdir(l)
  <2> DEFINE row == [at |-> "entries", files |-> Present, left |-> Present,
                     rows |-> {}, stamp |-> [r \in Present |-> 0]]
  <2>1. Present \in SUBSET Rec
    BY DEF Present
  <2>2. [r \in Present |-> 0] \in [Present -> Stamps]
    BY LastStampType DEF Stamps
  <2>3. /\ row \in Listing /\ row.at = "entries" /\ row.files = Present
        /\ row.left = Present /\ row.rows = {} /\ row.stamp \in [Present -> Stamps]
    BY <2>1, <2>2 DEF Listing
  <2>4. lists' = [lists EXCEPT ![l] = row]
    BY <1>5 DEF Readdir
  <2>5. lists[l].at \in {"readdir", "init"} /\ ready = "yes"
    BY <1>1, <1>5 DEF Readdir, Stage
  <2> HIDE DEF row
  <2>6. UNCHANGED <<conv, issued, ready, queue, job, victims, index, files, temps, wavs,
                    saved, tidy, stray, listed, faults>>
    BY <1>5 DEF Readdir, disk, past
  <2> QED BY <1>1, <1>2, <1>3, <2>3, <2>4, <2>5, <2>6, RowShape DEF Types
<1>6. CASE ReaddirFails(l)
  <2>1. /\ lists' = [lists EXCEPT ![l] = NotListing]
        /\ lists[l].at \in {"readdir", "init"} /\ faults' \in 0..MaxFaults
    BY <1>1, <1>6, StoreAssumption DEF ReaddirFails, Fault, Types
  <2>2. UNCHANGED <<conv, issued, ready, queue, victims, index, files, temps, wavs,
                    saved, tidy, stray, listed>>
    BY <1>6 DEF ReaddirFails, disk
  <2>3. /\ job' \in jobs /\ job'.rec = job.rec /\ job'.ver = job.ver
        /\ job'.at = (IF l = "prune" THEN "unlink" ELSE job.at)
    BY <1>2, <1>6 DEF ReaddirFails
  <2> QED BY <1>1, <1>3, <1>4, <2>1, <2>2, <2>3, RowShape DEF Types
<1>7. CASE Listed(l)
  <2>1. /\ lists' = [lists EXCEPT ![l] = NotListing] /\ lists[l].at = "entries"
        /\ index' = [r \in Rec |-> IF r \in lists[l].files THEN index[r] ELSE Absent]
    BY <1>7 DEF Listed
  <2>2. UNCHANGED <<conv, issued, ready, queue, files, temps, wavs, saved, stray,
                    listed, faults>>
    BY <1>7 DEF Listed, disk, past
  <2>3. Absent \in Stamped
    BY LastStampType DEF Absent, Stamped
  <2>4. index' \in [Rec -> Stamped]
    BY <1>1, <2>1, <2>3 DEF Types
  <2>5. CASE l = "list"
    <3>1. UNCHANGED <<job, victims, tidy>>
      BY <1>7, <2>5 DEF Listed
    <3>2. l # "prune" /\ victims \subseteq Rec /\ tidy \in BOOLEAN /\ faults \in 0..MaxFaults
      BY <1>1, <2>5 DEF Types
    <3> QED BY <1>2, <1>4, <2>1, <2>2, <2>4, <3>1, <3>2, RowShape
  <2>6. CASE l # "list"
    <3>1. l = "prune"
      BY <2>6 DEF Lister
    <3>2. /\ job' \in jobs /\ job'.rec = job.rec /\ job'.ver = job.ver /\ job'.at = "unlink"
      BY <1>2, <1>7, <2>6 DEF Listed
    <3>3. victims' \subseteq Rec /\ tidy' \in BOOLEAN
      BY <1>1, <1>7, <2>6 DEF Listed, Beyond, Listing
    <3> QED BY <1>1, <1>3, <1>4, <2>1, <2>2, <2>4, <3>1, <3>2, <3>3, RowShape DEF Types
  <2> QED BY <2>5, <2>6
<1> QED BY <1>5, <1>6, <1>7

LEMMA BreaksShape == ASSUME Shape, Breaks PROVE Shape'
<1>1. Types /\ Stage
  BY DEF Shape
<1>2. Fault => faults' \in 0..MaxFaults
  BY <1>1, StoreAssumption DEF Fault, Types
<1>3. NotListing \in Listing /\ NotListing.at = "idle" /\ NotListing.left = {}
      /\ NotListing.rows = {}
  BY NotListingType DEF NotListing
<1>4. /\ NoJob \in [at : {"idle", "init", "rename", "listing", "unlink", "unlinkWav"},
                    rec : Rec \cup {0}, ver : 0..MaxSaves]
      /\ NoJob.at = "idle"
  BY LastStampType DEF NoJob
<1>5. CASE MkdirFails
  <2>1. job' = (IF job.at = "init" THEN NoJob ELSE job)
        /\ lists' = [l \in Lister |->
                       IF lists[l].at = "init" THEN NotListing ELSE lists[l]]
        /\ ready = "mkdir" /\ ready' = "no"
    BY <1>5 DEF MkdirFails
  <2>2. lists' \in [Lister -> Listing]
    BY <1>1, <1>3, <2>1 DEF Types
  <2>3. Types'
    BY <1>1, <1>2, <1>4, <1>5, <2>1, <2>2 DEF Types, MkdirFails, disk
  <2>4. job.at \in {"idle", "init"} /\ \A l \in Lister : lists[l].at \in {"idle", "init"}
    BY <1>1, <2>1 DEF Stage, Types, Listing
  <2>5. job'.at = "idle" /\ \A l \in Lister : lists'[l].at = "idle"
                              /\ lists'[l].left = {} /\ lists'[l].rows = {}
    BY <1>1, <1>3, <1>4, <2>1, <2>4 DEF Stage
  <2>6. victims' = victims /\ "prune" \in Lister
    BY <1>5 DEF MkdirFails, Lister
  <2>7. Stage'
    BY <1>1, <2>4, <2>5, <2>6 DEF Stage
  <2> QED BY <2>3, <2>7 DEF Shape
<1>6. CASE WriteFails
  <2>1. job' = NoJob /\ job.at \in {"init", "rename"}
    BY <1>6 DEF WriteFails
  <2>2. Types'
    BY <1>1, <1>2, <1>4, <1>6, <2>1 DEF Types, WriteFails
  <2>3. Stage'
    BY <1>1, <1>4, <1>6, <2>1 DEF Stage, WriteFails
  <2> QED BY <2>2, <2>3 DEF Shape
<1>7. CASE UnlinkFails
  <2>1. Types'
    BY <1>1, <1>2, <1>7 DEF Types, UnlinkFails, disk
  <2>2. Stage'
    BY <1>1, <1>7 DEF Types, Stage, UnlinkFails
  <2> QED BY <2>1, <2>2 DEF Shape
<1>8. CASE Crash
  <2>1. /\ job' = NoJob /\ ready' = "no" /\ queue' = << >> /\ victims' = {}
        /\ lists' = [l \in Lister |-> NotListing]
        /\ stray' = stray \cup (wavs \ Present) /\ tidy' = (tidy /\ victims = {})
        /\ conv' = [r \in Rec |-> IF conv[r] = "none" THEN "none" ELSE "over"]
        /\ index' = [r \in Rec |-> Absent]
        /\ UNCHANGED <<issued, files, temps, wavs, saved, listed>>
        /\ faults' \in 0..MaxFaults
    BY <1>2, <1>8 DEF Crash, disk
  <2>2. lists' \in [Lister -> Listing] /\ queue' \in Seq(Save)
        /\ \A l \in Lister : lists'[l] = NotListing
    BY <1>3, <2>1
  <2>3. index' \in [Rec -> Stamped]
    BY <2>1, LastStampType DEF Absent, Stamped
  <2>4. conv' \in [Rec -> {"none", "live", "recorded", "over"}]
    BY <2>1
  <2>5. Types'
    BY <1>1, <1>4, <2>1, <2>2, <2>3, <2>4 DEF Types
  <2>6. Stage'
    BY <1>3, <1>4, <2>1, <2>2 DEF Stage, Lister
  <2> QED BY <2>5, <2>6 DEF Shape
<1>9. CASE \E l \in Lister : ReaddirFails(l) \/ \E r \in Rec : ReadFails(l, r)
  BY <1>9, ListingShape, EntryShape
<1>10. CASE \E t \in temps : Ages(t)
  <2>1. PICK t \in temps : Ages(t)
    BY <1>10
  <2>2. temps' \subseteq [rec : Rec, ver : 1..MaxSaves, old : BOOLEAN]
    BY <1>1, <2>1 DEF Ages, Types
  <2>3. Types'
    BY <1>1, <2>1, <2>2 DEF Types, Ages, store, past
  <2> QED BY <2>1, <2>3, AsideShape DEF Ages, store
<1> QED BY <1>5, <1>6, <1>7, <1>8, <1>9, <1>10, JobShape DEF Breaks

LEMMA ShapeStep == ASSUME Shape, [Next]_vars PROVE Shape'
<1>1. CASE Sockets
  BY <1>1, SocketsShape
<1>2. CASE InitWorks \/ SaveWorks \/ ListWorks("list")
  <2>1. "list" \in Lister /\ "prune" \in Lister
    BY DEF Lister
  <2> QED BY <1>2, <2>1, JobShape, ListingShape, EntryShape DEF SaveWorks, ListWorks
<1>3. CASE Breaks
  BY <1>3, BreaksShape
<1>4. CASE UNCHANGED vars
  BY <1>4 DEF vars, store, disk, past, Shape, Types, Stage
<1> QED BY <1>1, <1>2, <1>3, <1>4 DEF Next

-----------------------------------------------------------------------------
(* Saves in order, and the cache.                                           *)

\* What Ahead() asks of a record, with the stamps left to read.
LEMMA AheadMono ==
    ASSUME Shape, NEW r \in Rec, NEW v \in Nat, NEW w \in Nat, v <= w, Ahead(r, v)
    PROVE  Ahead(r, w)
<1>1. NextStamp(r, v) <= NextStamp(r, w) /\ NextStamp(r, v) \in Nat /\ NextStamp(r, w) \in Nat
  BY StampFacts
<1>2. /\ files[r].ver \in Nat /\ saved[r] \in Nat
      /\ files[r].stamp \in Nat /\ index[r].stamp \in Nat
  BY LastStampType, StoreAssumption DEF Shape, Types, Stamped
<1>3. \A l \in Lister : lists[l].at = "entries" /\ r \in lists[l].files =>
        lists[l].stamp[r] \in Nat
  BY DEF Shape, Stage, Stamps
<1> DEFINE a == NextStamp(r, v)
           b == NextStamp(r, w)
<1>4. a \in Nat /\ b \in Nat /\ a <= b
  BY <1>1
<1>5. /\ files[r].ver < v /\ saved[r] < v
      /\ files[r].stamp < a /\ index[r].stamp < a
      /\ \A l \in Lister : lists[l].at = "entries" /\ r \in lists[l].files =>
            lists[l].stamp[r] < a
  BY DEF Ahead
<1> HIDE DEF a, b
<1>6. \A l \in Lister : lists[l].at = "entries" /\ r \in lists[l].files =>
            lists[l].stamp[r] < b
  BY <1>3, <1>4, <1>5
<1>7. files[r].ver < w /\ saved[r] < w /\ files[r].stamp < b /\ index[r].stamp < b
  BY <1>2, <1>4, <1>5
<1> QED BY <1>6, <1>7 DEF Ahead, b

LEMMA StampAboveNone ==
    ASSUME NEW r \in Rec, NEW v \in Nat \ {0}
    PROVE  NextStamp(r, v) \in Nat /\ 0 < NextStamp(r, v)
<1>1. NextStamp(r, 0) \in Nat /\ NextStamp(r, v) \in Nat
      /\ NextStamp(r, 0) < NextStamp(r, v)
  BY StampFacts
<1> QED BY <1>1

\* Ahead() of the state after a step, for a save of either state.
AheadNext(r, v) ==
    /\ files'[r].ver < v /\ saved'[r] < v
    /\ files'[r].stamp < NextStamp(r, v)
    /\ index'[r].stamp < NextStamp(r, v)
    /\ \A l \in Lister : lists'[l].at = "entries" /\ r \in lists'[l].files =>
          lists'[l].stamp[r] < NextStamp(r, v)

\* No step lets the disk, the cache or a listing overtake a save that is later
\* than the one that runs.
LEMMA AheadStep ==
    ASSUME Shape, NEW r \in Rec, NEW v \in Nat \ {0}, Ahead(r, v), [Next]_vars,
           Renamed \/ Resolved => (job.rec = r => job.ver < v)
    PROVE  AheadNext(r, v)
<1> DEFINE a == NextStamp(r, v)
<1>1. a \in Nat /\ 0 < a
  BY StampAboveNone
<1>2. Types /\ Stage
  BY DEF Shape
<1>3. /\ files[r].ver < v /\ saved[r] < v
      /\ files[r].stamp < a /\ index[r].stamp < a
      /\ \A l \in Lister : lists[l].at = "entries" /\ r \in lists[l].files =>
            lists[l].stamp[r] < a
  BY DEF Ahead
<1>4. Absent.ver < v /\ Absent.stamp < a
  BY <1>1 DEF Absent
<1>5. SUFFICES /\ files'[r].ver < v /\ saved'[r] < v
               /\ files'[r].stamp < a /\ index'[r].stamp < a
               /\ \A l \in Lister : lists'[l].at = "entries" /\ r \in lists'[l].files =>
                     lists'[l].stamp[r] < a
  BY DEF AheadNext
<1>6. \A st : st < NextStamp(r, v) <=> st < a
  OBVIOUS
<1>7. \A w \in Nat : w < v => NextStamp(r, w) < a
  BY StampFacts
<1> HIDE DEF a
<1>8. NotListing.at # "entries"
  BY DEF NotListing
<1>9. CASE UNCHANGED <<files, saved, index, lists>>
  BY <1>3, <1>9
<1>10. CASE ListCalled
  <2>1. lists' = [lists EXCEPT !["list"].at = "init"] /\ UNCHANGED <<files, saved, index>>
    BY <1>10 DEF ListCalled, disk
  <2>2. \A l \in Lister : lists'[l].at = "entries" => lists'[l] = lists[l]
    BY <1>2, <2>1 DEF Types, Listing
  <2> QED BY <1>3, <2>1, <2>2
<1>11. CASE Renamed
  <2>1. /\ files' = [files EXCEPT ![job.rec] =
                       [ver |-> job.ver, stamp |-> NextStamp(job.rec, job.ver)]]
        /\ lists' = [lists EXCEPT !["prune"].at = IF Cap > 0 THEN "readdir" ELSE @]
        /\ UNCHANGED <<saved, index>>
        /\ job.rec \in Rec /\ job.ver \in Nat
    BY <1>2, <1>11 DEF Renamed, Stage
  <2>2. \A l \in Lister : lists'[l].at = "entries" => lists'[l] = lists[l]
    BY <1>2, <2>1 DEF Types, Listing
  <2>3. files'[r].ver < v /\ files'[r].stamp < a
    <3>1. CASE r = job.rec
      BY <1>2, <1>7, <1>11, <2>1, <3>1 DEF Types
    <3>2. CASE r # job.rec
      BY <1>2, <1>3, <2>1, <3>2 DEF Types
    <3> QED BY <3>1, <3>2
  <2> QED BY <1>3, <2>1, <2>2, <2>3
<1>12. CASE UnlinkRecord
  <2>1. files' = [files EXCEPT ![Newest(victims)] = Absent]
        /\ UNCHANGED <<saved, index, lists>>
    BY <1>12 DEF UnlinkRecord
  <2>2. files'[r] = files[r] \/ files'[r] = Absent
    BY <1>2, <2>1 DEF Types
  <2> QED BY <1>3, <1>4, <2>1, <2>2
<1>13. CASE UnlinkWav \/ UnlinkWavFails
  <2>1. index' = [index EXCEPT ![Newest(victims)] = Absent]
        /\ UNCHANGED <<saved, files, lists>>
    BY <1>13 DEF UnlinkWav, UnlinkWavFails, disk
  <2>2. index'[r] = index[r] \/ index'[r] = Absent
    BY <1>2, <2>1 DEF Types
  <2> QED BY <1>3, <1>4, <2>1, <2>2
<1>14. CASE Resolved
  <2>1. saved' = [saved EXCEPT ![job.rec] = job.ver] /\ UNCHANGED <<files, index, lists>>
    BY <1>14 DEF Resolved, disk
  <2>2. saved'[r] < v
    BY <1>2, <1>3, <1>14, <2>1 DEF Types
  <2> QED BY <1>3, <2>1, <2>2
<1>15. ASSUME NEW l \in Lister, Readdir(l) \/ ReaddirFails(l) \/ Listed(l)
       PROVE  /\ files'[r].ver < v /\ saved'[r] < v
              /\ files'[r].stamp < a /\ index'[r].stamp < a
              /\ \A k \in Lister : lists'[k].at = "entries" /\ r \in lists'[k].files =>
                    lists'[k].stamp[r] < a
  <2>1. UNCHANGED <<files, saved>>
    BY <1>15 DEF Readdir, ReaddirFails, Listed, disk
  <2>2. index'[r] = index[r] \/ index'[r] = Absent
    BY <1>15 DEF Readdir, ReaddirFails, Listed
  <2>3. CASE Readdir(l)
    <3>1. lists' = [lists EXCEPT ![l] =
                      [at |-> "entries", files |-> Present, left |-> Present,
                       rows |-> {}, stamp |-> [q \in Present |-> 0]]]
      BY <2>3 DEF Readdir
    <3>2. lists'[l].files = Present /\ lists'[l].stamp = [q \in Present |-> 0]
          /\ \A k \in Lister : k # l => lists'[k] = lists[k]
      BY <1>2, <3>1 DEF Types
    <3>3. \A k \in Lister : lists'[k].at = "entries" /\ r \in lists'[k].files =>
                    lists'[k].stamp[r] < a
      BY <1>1, <1>3, <3>2
    <3> QED BY <1>3, <1>4, <2>1, <2>2, <3>3
  <2>4. CASE ReaddirFails(l) \/ Listed(l)
    <3>1. lists' = [lists EXCEPT ![l] = NotListing]
      BY <2>4 DEF ReaddirFails, Listed
    <3>2. \A k \in Lister : lists'[k] = NotListing \/ lists'[k] = lists[k]
      BY <1>2, <3>1 DEF Types
    <3> QED BY <1>3, <1>4, <1>8, <2>1, <2>2, <3>2
  <2> QED BY <1>15, <2>3, <2>4
<1>16. ASSUME NEW l \in Lister, NEW q \in Rec, Stat(l, q) \/ Read(l, q) \/ ReadFails(l, q)
       PROVE  /\ files'[r].ver < v /\ saved'[r] < v
              /\ files'[r].stamp < a /\ index'[r].stamp < a
              /\ \A k \in Lister : lists'[k].at = "entries" /\ r \in lists'[k].files =>
                    lists'[k].stamp[r] < a
  <2>1. PICK row : Moves(l, row)
                   /\ \A p \in row.files :
                        row.stamp[p] = lists[l].stamp[p] \/ row.stamp[p] = files[p].stamp
    BY <1>16, EntryMoves
  <2>2. /\ q \in lists[l].files /\ UNCHANGED <<files, saved>>
        /\ \/ index' = index
           \/ index' = [index EXCEPT ![q] = Absent]
           \/ index' = [index EXCEPT ![q] =
                          [ver |-> files[q].ver, stamp |-> lists[l].stamp[q]]]
    BY <1>16, EntryMoves
  <2>3. lists[l].at = "entries" /\ row.files = lists[l].files
        /\ lists'[l] = row /\ \A k \in Lister : k # l => lists'[k] = lists[k]
    BY <1>2, <2>1 DEF Moves, Types
  <2>4. \A k \in Lister : lists'[k].at = "entries" /\ r \in lists'[k].files =>
                    lists'[k].stamp[r] < a
    BY <1>3, <2>1, <2>3
  <2>5. index'[r].stamp < a
    <3>1. CASE q = r
      BY <1>2, <1>3, <1>4, <2>2, <2>3, <3>1 DEF Types
    <3>2. CASE q # r
      BY <1>2, <1>3, <2>2, <3>2 DEF Types
    <3> QED BY <3>1, <3>2
  <2> QED BY <1>3, <2>2, <2>4, <2>5
<1>17. CASE MkdirFails
  <2>1. lists' = [l \in Lister |->
                    IF lists[l].at = "init" THEN NotListing ELSE lists[l]]
        /\ UNCHANGED <<files, saved, index>>
    BY <1>17 DEF MkdirFails, disk
  <2> QED BY <1>3, <1>8, <2>1
<1>18. CASE Crash
  <2>1. lists' = [l \in Lister |-> NotListing] /\ index' = [q \in Rec |-> Absent]
        /\ UNCHANGED <<files, saved>>
    BY <1>18 DEF Crash, disk
  <2> QED BY <1>3, <1>4, <1>8, <2>1
<1>19. CASE Next
  <2>1. CASE Sockets
    BY <1>9, <1>10, <2>1 DEF Sockets, ConversationStarts, SaveTurn, WavRenamed, SaveEnd,
         Enqueue, store, disk
  <2>2. CASE InitWorks \/ Begin \/ TempWritten
    BY <1>9, <2>2 DEF InitWorks, MkdirDone, Sweep, Begin, TempWritten, disk
  <2>3. CASE \E l \in Lister : ListWorks(l)
    BY <1>15, <1>16, <2>3 DEF ListWorks
  <2>4. CASE SaveWorks
    BY <1>11, <1>12, <1>13, <1>14, <2>2, <2>3, <2>4 DEF SaveWorks, Lister
  <2>5. CASE Breaks
    <3>1. CASE WriteFails \/ UnlinkFails \/ \E t \in temps : Ages(t)
      BY <1>9, <3>1 DEF WriteFails, UnlinkFails, Ages, store, disk
    <3>2. CASE \E l \in Lister : ReaddirFails(l) \/ \E q \in Rec : ReadFails(l, q)
      BY <1>15, <1>16, <3>2
    <3> QED BY <1>13, <1>17, <1>18, <2>5, <3>1, <3>2 DEF Breaks
  <2> QED BY <1>19, <2>1, <2>2, <2>3, <2>4, <2>5 DEF Next, Lister
<1> QED BY <1>9, <1>19 DEF vars, store, disk

\* A step that issues no save and starts none.
LEMMA OrderKept ==
    ASSUME Shape, Order, [Next]_vars, Shape', issued' = issued,
           queue' = queue \/ queue' = << >>,
           job'.at = "idle" \/ (job.at # "idle" /\ job'.rec = job.rec /\ job'.ver = job.ver),
           job'.at \in {"init", "rename"} =>
             job.at \in {"init", "rename"} /\ ~Renamed /\ ~Resolved
    PROVE  Order'
<1>1. Types /\ Stage
  BY DEF Shape
<1>2. \A r \in Rec : issued[r] \in Nat
  BY <1>1, StoreAssumption DEF Types
<1>3. Renamed \/ Resolved => job.at # "idle"
  BY DEF Renamed, Resolved
<1>4. ASSUME NEW r \in Rec PROVE AheadNext(r, issued[r] + 1)
  <2>1. issued[r] + 1 \in Nat \ {0} /\ Ahead(r, issued[r] + 1)
    BY <1>2 DEF Order
  <2>2. Renamed \/ Resolved => (job.rec = r => job.ver < issued[r] + 1)
    BY <1>1, <1>2, <1>3, StoreAssumption DEF Order, Stage
  <2> DEFINE v == issued[r] + 1
  <2> HIDE DEF v
  <2>3. v \in Nat \ {0} /\ Ahead(r, v) /\ (Renamed \/ Resolved => (job.rec = r => job.ver < v))
    BY <2>1, <2>2 DEF v
  <2>4. AheadNext(r, v)
    BY <2>3, AheadStep
  <2> QED BY <2>4 DEF v
<1>5. ASSUME NEW i \in 1..Len(queue)
      PROVE  /\ AheadNext(queue[i].rec, queue[i].ver)
             /\ queue[i].ver <= issued[queue[i].rec]
             /\ job'.at # "idle" /\ job'.rec = queue[i].rec => job'.ver < queue[i].ver
  <2>1. queue[i] \in Save
    BY <1>1 DEF Types
  <2> DEFINE r == queue[i].rec
             v == queue[i].ver
  <2>2. r \in Rec /\ v \in Nat \ {0} /\ Ahead(r, v)
        /\ v <= issued[r] /\ (job.at # "idle" /\ job.rec = r => job.ver < v)
    BY <2>1, StoreAssumption DEF Order, Save
  <2>3. queue' = queue => queue'[i] = queue[i]
    OBVIOUS
  <2> HIDE DEF r, v
  <2>4. AheadNext(r, v)
    BY <1>3, <2>2, AheadStep
  <2>5. job'.at # "idle" /\ job'.rec = r => job'.ver < v
    BY <2>2
  <2> QED BY <2>2, <2>4, <2>5 DEF r, v
<1>6. ASSUME job'.at \in {"init", "rename"} PROVE AheadNext(job'.rec, job'.ver)
  <2> DEFINE r == job.rec
             v == job.ver
  <2>1. r \in Rec /\ v \in Nat \ {0} /\ Ahead(r, v) /\ ~Renamed /\ ~Resolved
    BY <1>1, <1>6, StoreAssumption DEF Order, Stage
  <2>2. job'.rec = r /\ job'.ver = v
    BY <1>6
  <2> HIDE DEF r, v
  <2>3. AheadNext(r, v)
    BY <2>1, AheadStep
  <2> QED BY <2>2, <2>3
<1>7. \A i \in 1..Len(queue') :
        /\ AheadNext(queue'[i].rec, queue'[i].ver)
        /\ queue'[i].ver <= issued'[queue'[i].rec]
        /\ job'.at # "idle" /\ job'.rec = queue'[i].rec => job'.ver < queue'[i].ver
  <2>1. CASE queue' = queue
    BY <1>5, <2>1
  <2>2. CASE queue' = << >>
    BY <2>2
  <2> QED BY <2>1, <2>2
<1>8. \A i, j \in 1..Len(queue') :
        i < j /\ queue'[i].rec = queue'[j].rec => queue'[i].ver < queue'[j].ver
  <2>1. CASE queue' = queue
    BY <2>1 DEF Order
  <2>2. CASE queue' = << >>
    BY <2>2
  <2> QED BY <2>1, <2>2
<1>9. job'.at # "idle" => job'.ver <= issued'[job'.rec]
  BY DEF Order
<1>10. \A r \in Rec : AheadNext(r, issued'[r] + 1)
  BY <1>4
<1> QED BY <1>6, <1>7, <1>8, <1>9, <1>10 DEF Order, Ahead, AheadNext

LEMMA EnqueueOrder ==
    ASSUME Shape, Order, NEW r \in Rec, Enqueue(r)
    PROVE  Order'
<1>1. Types /\ Stage
  BY DEF Shape
<1> DEFINE n == issued[r] + 1
<1>2. /\ issued[r] \in Nat /\ n \in Nat \ {0} /\ issued' = [issued EXCEPT ![r] = n]
      /\ queue' = Append(queue, [rec |-> r, ver |-> n])
      /\ UNCHANGED <<job, lists, index, files, saved>>
  BY <1>1, StoreAssumption DEF Types, Enqueue, disk
<1>3. \A q : \A v : Ahead(q, v) <=> AheadNext(q, v)
  BY <1>2 DEF Ahead, AheadNext
<1>4. \A q \in Rec : issued'[q] = IF q = r THEN n ELSE issued[q]
  BY <1>1, <1>2 DEF Types
<1>5. \A q \in Rec : issued[q] \in Nat
  BY <1>1, StoreAssumption DEF Types
<1>6. [rec |-> r, ver |-> n] \in Save
  BY <1>1, StoreAssumption DEF Types, Enqueue, Save
<1>7. /\ queue \in Seq(Save) /\ Len(queue) \in Nat /\ Len(queue') = Len(queue) + 1
      /\ \A i \in 1..Len(queue) : queue'[i] = queue[i]
      /\ queue'[Len(queue) + 1] = [rec |-> r, ver |-> n]
  BY <1>1, <1>2, <1>6, AppendProperties DEF Types
<1>8. \A i \in 1..Len(queue') : i \in 1..Len(queue) \/ i = Len(queue) + 1
  BY <1>7
<1>9. \A i \in 1..Len(queue) : queue[i].rec \in Rec /\ queue[i].ver \in Nat
  <2>1. \A i \in 1..Len(queue) : queue[i] \in Save
    BY <1>7
  <2> QED BY <2>1, StoreAssumption DEF Save
<1>10. Ahead(r, n) /\ n > issued[r]
  BY <1>2 DEF Order
<1>11. ASSUME NEW q \in Rec PROVE Ahead(q, issued'[q] + 1)
  <2>1. CASE q = r
    <3>1. n + 1 \in Nat /\ n <= n + 1
      BY <1>2
    <3> HIDE DEF n
    <3>2. Ahead(r, n + 1)
      BY <1>2, <1>10, <3>1, AheadMono
    <3> QED BY <1>4, <2>1, <3>2
  <2>2. CASE q # r
    BY <1>4, <2>2 DEF Order
  <2> QED BY <2>1, <2>2
<1>12. job.at # "idle" => job.rec \in Rec /\ job.ver \in Nat /\ job.ver <= issued[job.rec]
  BY <1>1, StoreAssumption DEF Order, Stage
<1> HIDE DEF n
<1>13. ASSUME NEW i \in 1..Len(queue')
       PROVE  /\ Ahead(queue'[i].rec, queue'[i].ver)
              /\ queue'[i].ver <= issued'[queue'[i].rec]
              /\ job.at # "idle" /\ job.rec = queue'[i].rec => job.ver < queue'[i].ver
  <2>1. CASE i \in 1..Len(queue)
    <3>1. queue'[i] = queue[i] /\ queue[i].ver <= issued[queue[i].rec]
      BY <1>7, <2>1 DEF Order
    <3>2. issued[queue[i].rec] <= issued'[queue[i].rec]
      BY <1>2, <1>4, <1>5, <1>9, <1>10, <2>1
    <3> QED BY <1>2, <1>4, <1>5, <1>9, <2>1, <3>1, <3>2 DEF Order
  <2>2. CASE i = Len(queue) + 1
    <3>1. queue'[i].rec = r /\ queue'[i].ver = n
      BY <1>7, <2>2
    <3> QED BY <1>2, <1>4, <1>10, <1>12, <3>1
  <2> QED BY <1>8, <2>1, <2>2
<1>14. ASSUME NEW i \in 1..Len(queue'), NEW j \in 1..Len(queue'), i < j,
              queue'[i].rec = queue'[j].rec
       PROVE  queue'[i].ver < queue'[j].ver
  <2>1. i \in 1..Len(queue)
    BY <1>7, <1>14
  <2>2. CASE j \in 1..Len(queue)
    BY <1>7, <1>14, <2>1, <2>2 DEF Order
  <2>3. CASE j = Len(queue) + 1
    <3>1. queue[i].rec = r /\ queue[i].ver <= issued[r] /\ queue'[j].ver = n
      BY <1>7, <1>14, <2>1, <2>3 DEF Order
    <3> QED BY <1>2, <1>7, <1>9, <1>10, <2>1, <3>1
  <2> QED BY <1>8, <2>2, <2>3
<1>15. job'.at # "idle" => job'.ver <= issued'[job'.rec]
  BY <1>2, <1>4, <1>5, <1>10, <1>12
<1>16. job'.at \in {"init", "rename"} => Ahead(job'.rec, job'.ver)
  BY <1>2 DEF Order
<1>17. /\ \A q \in Rec : AheadNext(q, issued'[q] + 1)
       /\ \A i \in 1..Len(queue') : AheadNext(queue'[i].rec, queue'[i].ver)
       /\ job'.at \in {"init", "rename"} => AheadNext(job'.rec, job'.ver)
  BY <1>3, <1>11, <1>13, <1>16
<1> QED BY <1>2, <1>13, <1>14, <1>15, <1>17 DEF Order, Ahead, AheadNext

LEMMA BeginOrder == ASSUME Shape, Order, Begin PROVE Order'
<1>1. Types /\ Stage /\ queue \in Seq(Save) /\ queue # << >>
  BY DEF Shape, Types, Begin
<1>2. /\ Tail(queue) \in Seq(Save) /\ Len(queue) \in Nat \ {0}
      /\ Len(Tail(queue)) = Len(queue) - 1 /\ Head(queue) = queue[1]
      /\ \A i \in 1..Len(Tail(queue)) : Tail(queue)[i] = queue[i + 1]
  BY <1>1, HeadTailProperties
<1>3. /\ job' = [at |-> "init", rec |-> Head(queue).rec, ver |-> Head(queue).ver]
      /\ queue' = Tail(queue) /\ issued' = issued
      /\ UNCHANGED <<lists, index, files, saved>>
  BY DEF Begin, disk
<1>4. job'.rec = queue[1].rec /\ job'.ver = queue[1].ver
  BY <1>2, <1>3
<1>5. \A q : \A v : Ahead(q, v) <=> AheadNext(q, v)
  BY <1>3 DEF Ahead, AheadNext
<1>6. 1 \in 1..Len(queue)
  BY <1>2
<1>7. \A i \in 1..Len(queue') : i + 1 \in 1..Len(queue) /\ queue'[i] = queue[i + 1] /\ 1 < i + 1
  BY <1>2, <1>3
<1>8. \A r \in Rec : Ahead(r, issued'[r] + 1)
  BY <1>3 DEF Order
<1>9. \A i \in 1..Len(queue') :
        /\ Ahead(queue'[i].rec, queue'[i].ver)
        /\ queue'[i].ver <= issued'[queue'[i].rec]
        /\ job'.rec = queue'[i].rec => job'.ver < queue'[i].ver
  BY <1>3, <1>4, <1>6, <1>7 DEF Order
<1>10. ASSUME NEW i \in 1..Len(queue'), NEW j \in 1..Len(queue'), i < j,
              queue'[i].rec = queue'[j].rec
       PROVE  queue'[i].ver < queue'[j].ver
  <2>1. i + 1 < j + 1
    BY <1>10
  <2> QED BY <1>7, <1>10, <2>1 DEF Order
<1>11. job'.ver <= issued'[job'.rec] /\ Ahead(job'.rec, job'.ver)
  BY <1>3, <1>4, <1>6 DEF Order
<1>12. /\ \A q \in Rec : AheadNext(q, issued'[q] + 1)
       /\ \A i \in 1..Len(queue') : AheadNext(queue'[i].rec, queue'[i].ver)
       /\ AheadNext(job'.rec, job'.ver)
  BY <1>5, <1>8, <1>9, <1>11
<1> QED BY <1>9, <1>10, <1>11, <1>12 DEF Order, Ahead, AheadNext

LEMMA OrderStep == ASSUME Shape, Order, [Next]_vars PROVE Order'
<1>1. Shape' /\ Types /\ Stage
  BY ShapeStep DEF Shape
<1>2. NoJob.at = "idle"
  BY DEF NoJob
<1>3. CASE \E r \in Rec : SaveTurn(r) \/ SaveEnd(r)
  BY <1>3, EnqueueOrder DEF SaveTurn, SaveEnd
<1>4. CASE Begin
  BY <1>4, BeginOrder
<1>5. CASE UNCHANGED <<issued, queue, job>> /\ ~Renamed /\ ~Resolved
  <2>1. job'.at = "idle" \/ (job.at # "idle" /\ job'.rec = job.rec /\ job'.ver = job.ver)
    BY <1>5
  <2> QED BY <1>1, <1>5, <2>1, OrderKept
<1>6. CASE TempWritten
  <2>1. /\ job.at # "idle" /\ job'.rec = job.rec /\ job'.ver = job.ver
        /\ job.at = "init" /\ queue' = queue /\ issued' = issued
    BY <1>1, <1>6 DEF TempWritten, Types
  <2>2. ~Renamed /\ ~Resolved
    BY <2>1 DEF Renamed, Resolved
  <2> QED BY <1>1, <2>1, <2>2, OrderKept
<1>7. CASE Renamed \/ UnlinkRecord \/ UnlinkFails \/ UnlinkWav \/ UnlinkWavFails
  <2>1. /\ job.at # "idle" /\ job'.rec = job.rec /\ job'.ver = job.ver
        /\ job'.at \in {"listing", "unlink", "unlinkWav"}
        /\ queue' = queue /\ issued' = issued
    BY <1>1, <1>7 DEF Renamed, UnlinkRecord, UnlinkFails, UnlinkWav, UnlinkWavFails,
                         Types
  <2> QED BY <1>1, <2>1, OrderKept
<1>8. CASE Resolved \/ WriteFails \/ Crash
  <2>1. /\ job'.at = "idle" /\ issued' = issued
        /\ queue' = queue \/ queue' = << >>
    BY <1>2, <1>8 DEF Resolved, WriteFails, Crash
  <2> QED BY <1>1, <2>1, OrderKept
<1>9. CASE MkdirFails
  <2>1. /\ job'.at = "idle" \/ job' = job
        /\ queue' = queue /\ issued' = issued /\ ready = "mkdir"
    BY <1>2, <1>9 DEF MkdirFails
  <2>2. ~Renamed /\ ~Resolved
    BY <1>1, <2>1 DEF Renamed, Resolved, Stage
  <2>3. job'.at = "idle" \/ (job.at # "idle" /\ job'.rec = job.rec /\ job'.ver = job.ver)
    BY <2>1
  <2>4. job'.at \in {"init", "rename"} => job.at \in {"init", "rename"}
    BY <2>1
  <2> QED BY <1>1, <2>1, <2>2, <2>3, <2>4, OrderKept
<1>10. CASE \E l \in Lister : Readdir(l) \/ ReaddirFails(l) \/ Listed(l)
  <2>1. PICK l \in Lister : Readdir(l) \/ ReaddirFails(l) \/ Listed(l)
    BY <1>10
  <2>2. issued' = issued /\ queue' = queue
    BY <2>1 DEF Readdir, ReaddirFails, Listed
  <2>3. job' = job \/ (/\ job'.at = "unlink" /\ job.at = "listing"
                       /\ job'.rec = job.rec /\ job'.ver = job.ver)
    <3>1. l # "list" /\ lists[l].at # "idle" => job.at = "listing"
      BY <1>1 DEF Lister, Stage
    <3>2. job' = job \/ (l # "list" /\ lists[l].at # "idle" /\ job' = [job EXCEPT !.at = "unlink"])
      BY <2>1 DEF Readdir, ReaddirFails, Listed
    <3> QED BY <1>1, <3>1, <3>2 DEF Types
  <2>4. CASE job' = job
    <3>3. job'.at = "idle" \/ (job.at # "idle" /\ job'.rec = job.rec /\ job'.ver = job.ver)
      BY <2>4
    <3>4. ~Renamed /\ ~Resolved
      BY <1>1, <2>4, <1>2 DEF Renamed, Resolved, Types
    <3> QED BY <1>1, <2>2, <2>4, <3>3, <3>4, OrderKept
  <2>5. CASE job' # job
    <3>1. job'.at = "unlink" /\ job.at # "idle"
          /\ job'.rec = job.rec /\ job'.ver = job.ver
      BY <2>3, <2>5
    <3> QED BY <1>1, <2>2, <3>1, OrderKept
  <2> QED BY <2>4, <2>5
<1>11. CASE Next
  <2>1. ASSUME UNCHANGED <<issued, queue, job>> PROVE Order'
    <3>1. ~Renamed /\ ~Resolved
      BY <1>1, <1>2, <2>1 DEF Renamed, Resolved, Types
    <3> QED BY <1>5, <2>1, <3>1
  <2>2. CASE Sockets
    BY <1>3, <2>1, <2>2 DEF Sockets, ConversationStarts, WavRenamed, ListCalled, store
  <2>3. CASE InitWorks
    BY <2>1, <2>3 DEF InitWorks, MkdirDone, Sweep
  <2>4. ASSUME NEW l \in Lister, NEW r \in Rec, Stat(l, r) \/ Read(l, r) \/ ReadFails(l, r)
        PROVE  Order'
    BY <2>1, <2>4 DEF Stat, Read, ReadFails
  <2>5. CASE \E l \in Lister : ListWorks(l)
    BY <1>10, <2>4, <2>5 DEF ListWorks
  <2>6. CASE SaveWorks
    BY <1>4, <1>6, <1>7, <1>8, <2>5, <2>6 DEF SaveWorks, Lister
  <2>7. CASE Breaks
    <3>1. CASE \E t \in temps : Ages(t)
      BY <2>1, <3>1 DEF Ages, store
    <3> QED BY <1>7, <1>8, <1>9, <1>10, <2>4, <2>7, <3>1 DEF Breaks
  <2> QED BY <1>11, <2>2, <2>3, <2>5, <2>6, <2>7 DEF Next, Lister
<1>12. CASE UNCHANGED vars
  <2>1. ~Renamed /\ ~Resolved
    BY <1>1, <1>2, <1>12 DEF Renamed, Resolved, Types, vars, store
  <2> QED BY <1>5, <1>12, <2>1 DEF vars, store
<1> QED BY <1>11, <1>12

-----------------------------------------------------------------------------
(* The cache.                                                               *)

LEMMA FreshStep == ASSUME Shape, Order, Fresh, [Next]_vars PROVE Fresh'
<1>1. Types /\ Stage
  BY DEF Shape
<1>2. SUFFICES ASSUME NEW r \in Rec, files'[r] # Absent
               PROVE  /\ files'[r].stamp # 0
                      /\ index'[r].stamp = files'[r].stamp => index'[r].ver = files'[r].ver
  BY DEF Fresh, IndexIsFresh, Present
<1>3. files[r] # Absent =>
        /\ files[r].stamp # 0
        /\ index[r].stamp = files[r].stamp => index[r].ver = files[r].ver
  BY DEF Fresh, IndexIsFresh, Present
<1>4. Absent.stamp = 0
  BY DEF Absent
<1>5. CASE files' = files /\ (index'[r] = index[r] \/ index'[r] = Absent)
  BY <1>2, <1>3, <1>4, <1>5
<1>6. ASSUME NEW l \in Lister, Readdir(l) \/ ReaddirFails(l) \/ Listed(l)
      PROVE  files' = files /\ (index'[r] = index[r] \/ index'[r] = Absent)
  BY <1>6 DEF Readdir, ReaddirFails, Listed, disk
<1>7. ASSUME NEW l \in Lister, NEW q \in Rec, Stat(l, q) \/ Read(l, q) \/ ReadFails(l, q)
      PROVE  /\ files'[r].stamp # 0
             /\ index'[r].stamp = files'[r].stamp => index'[r].ver = files'[r].ver
  <2>1. files' = files /\ \/ index' = index
                          \/ index' = [index EXCEPT ![q] = Absent]
                          \/ index' = [index EXCEPT ![q] =
                               [ver |-> files[q].ver, stamp |-> lists[l].stamp[q]]]
    BY <1>7, EntryMoves
  <2>2. index' = [index EXCEPT ![q] =
                    [ver |-> files[q].ver, stamp |-> lists[l].stamp[q]]]
          => index'[r] = index[r] \/ index'[r].ver = files[r].ver
    BY <1>1 DEF Types
  <2>3. index' = [index EXCEPT ![q] = Absent] => index'[r] = index[r] \/ index'[r] = Absent
    BY <1>1 DEF Types
  <2> QED BY <1>2, <1>3, <1>5, <2>1, <2>2, <2>3
<1>8. CASE Renamed
  <2>1. /\ files' = [files EXCEPT ![job.rec] =
                       [ver |-> job.ver, stamp |-> NextStamp(job.rec, job.ver)]]
        /\ index' = index
        /\ job.rec \in Rec /\ job.ver \in Nat \ {0} /\ Ahead(job.rec, job.ver)
    BY <1>1, <1>8, StoreAssumption DEF Renamed, Stage, Order
  <2>2. CASE r = job.rec
    <3> DEFINE a == NextStamp(r, job.ver)
    <3>1. a \in Nat /\ 0 < a /\ index[r].stamp < a
      BY <2>1, <2>2, StampAboveNone DEF Ahead
    <3>2. files'[r].stamp = a
      BY <1>1, <2>1, <2>2 DEF Types
    <3>3. index[r].stamp \in Nat
      BY <1>1, LastStampType, StoreAssumption DEF Types, Stamped
    <3> HIDE DEF a
    <3> QED BY <2>1, <3>1, <3>2, <3>3
  <2>3. CASE r # job.rec
    BY <1>1, <1>2, <1>3, <2>1, <2>3 DEF Types
  <2> QED BY <2>2, <2>3
<1>9. CASE UnlinkRecord
  <2>1. files'[r] = files[r] \/ files'[r] = Absent
    BY <1>1, <1>9 DEF UnlinkRecord, Types
  <2> QED BY <1>2, <1>3, <1>9, <2>1 DEF UnlinkRecord
<1>10. CASE UnlinkWav \/ UnlinkWavFails
  <2>1. files' = files /\ (index'[r] = index[r] \/ index'[r] = Absent)
    BY <1>1, <1>10 DEF UnlinkWav, UnlinkWavFails, Types, disk
  <2> QED BY <1>5, <2>1
<1>11. CASE Crash
  BY <1>5, <1>11 DEF Crash, disk
<1>12. CASE UNCHANGED <<files, index>>
  BY <1>5, <1>12
<1>13. CASE Next
  <2>1. CASE Sockets
    BY <1>12, <2>1 DEF Sockets, ConversationStarts, SaveTurn, WavRenamed, SaveEnd,
         Enqueue, ListCalled, store, disk
  <2>2. CASE InitWorks \/ Begin \/ TempWritten \/ Resolved
    BY <1>12, <2>2 DEF InitWorks, MkdirDone, Sweep, Begin, TempWritten, Resolved, disk
  <2>3. CASE \E l \in Lister : ListWorks(l)
    BY <1>5, <1>6, <1>7, <2>3 DEF ListWorks
  <2>4. CASE SaveWorks
    BY <1>8, <1>9, <1>10, <2>2, <2>3, <2>4 DEF SaveWorks, Lister
  <2>5. CASE Breaks
    <3>1. CASE MkdirFails \/ WriteFails \/ UnlinkFails \/ \E t \in temps : Ages(t)
      BY <1>12, <3>1 DEF MkdirFails, WriteFails, UnlinkFails, Ages, store, disk
    <3>2. CASE \E l \in Lister : ReaddirFails(l) \/ \E q \in Rec : ReadFails(l, q)
      BY <1>5, <1>6, <1>7, <3>2
    <3> QED BY <1>10, <1>11, <2>5, <3>1, <3>2 DEF Breaks
  <2> QED BY <1>13, <2>1, <2>2, <2>3, <2>4, <2>5 DEF Next, Lister
<1> QED BY <1>12, <1>13 DEF vars, store, disk

-----------------------------------------------------------------------------
(* What prune() deletes, and what it leaves.                                *)

\* More records on disk keep what was kept.
LEMMA MoreKeeps ==
    ASSUME NEW S \in SUBSET Rec, NEW T \in SUBSET Rec, NEW r \in Rec,
           Above(S, r) \subseteq Above(T, r), Cardinality(Above(S, r)) >= Cap
    PROVE  Cardinality(Above(T, r)) >= Cap
<1>1. Above(S, r) \in SUBSET Rec /\ Above(T, r) \in SUBSET Rec
  BY DEF Above
<1> DEFINE a == Cardinality(Above(S, r))
           b == Cardinality(Above(T, r))
<1>2. a \in Nat /\ b \in Nat /\ a <= b /\ a >= Cap
  BY <1>1, RecFinite, FS_Subset
<1> HIDE DEF a, b
<1>3. b >= Cap
  BY <1>2, StoreAssumption
<1> QED BY <1>3 DEF b

\* A step that leaves the records, the victims and the save's place alone.
LEMMA RestKept ==
    ASSUME Shape, Rest, UNCHANGED <<files, victims, saved, tidy>>,
           job'.at = "unlinkWav" => job.at = "unlinkWav",
           job'.at \in {"listing", "unlink", "unlinkWav"} =>
             Written /\ job'.rec = job.rec /\ job'.ver = job.ver,
           lists'["prune"].at = "entries" =>
             \/ lists'["prune"].files = Present
             \/ lists["prune"].at = "entries" /\ lists'["prune"].files = lists["prune"].files
    PROVE  Rest'
<1>1. Present' = Present
  BY DEF Present
<1>2. Pruning'
  BY <1>1 DEF Rest, Pruning
<1>3. \A r \in Rec : saved[r] > 0 => Kept(r, saved[r])
  BY DEF Rest, Keeping
<1>4. Written => Kept(job.rec, job.ver)
  BY DEF Rest, Keeping
<1>5. Keeping'
  BY <1>1, <1>3, <1>4 DEF Keeping, Kept, Written
<1>6. Tidy'
  BY <1>1 DEF Rest, Tidy
<1> QED BY <1>2, <1>5, <1>6 DEF Rest

\* The record is on disk before prune() begins.
LEMMA RenamedRest == ASSUME Shape, Order, Rest, Renamed PROVE Rest'
<1>1. Types /\ Stage
  BY DEF Shape
<1>2. /\ files' = [files EXCEPT ![job.rec] =
                     [ver |-> job.ver, stamp |-> NextStamp(job.rec, job.ver)]]
      /\ job.rec \in Rec /\ job.ver \in Nat \ {0} /\ Ahead(job.rec, job.ver)
      /\ UNCHANGED <<victims, saved>> /\ tidy' = FALSE
  BY <1>1, StoreAssumption DEF Renamed, Stage, Order
<1>3. /\ files'[job.rec].ver = job.ver
      /\ \A q \in Rec : q # job.rec => files'[q] = files[q]
      /\ files'[job.rec] # Absent
  BY <1>1, <1>2 DEF Types, Absent
<1>4. job'.rec = job.rec /\ job'.ver = job.ver /\ victims = {}
  BY <1>1 DEF Renamed, Types, Stage
<1>5. Present \subseteq Present' /\ Present' \subseteq Rec
  BY <1>3 DEF Present
<1>6. Pruning'
  <2>1. lists["prune"].at = "idle" /\ lists["prune"] \in Listing
    BY <1>1 DEF Renamed, Stage, Types, Lister
  <2>2. lists' = [lists EXCEPT !["prune"].at = IF Cap > 0 THEN "readdir" ELSE @]
    BY DEF Renamed
  <2>3. lists'["prune"].at # "entries"
    BY <1>1, <2>1, <2>2 DEF Types, Lister, Listing
  <2> QED BY <1>2, <1>4, <2>3 DEF Pruning
<1>7. ASSUME NEW r \in Rec, saved[r] > 0
      PROVE  \/ files'[r].ver >= saved[r]
             \/ /\ files'[r] = Absent /\ Cap > 0
                /\ Cardinality({q \in Present' : q > r}) >= Cap
  <2>1. CASE r = job.rec
    <3>1. saved[r] < job.ver /\ saved[r] \in Nat
      BY <1>1, <1>2, <2>1, StoreAssumption DEF Ahead, Types
    <3> QED BY <1>2, <1>3, <2>1, <3>1
  <2>2. CASE r # job.rec /\ files[r].ver >= saved[r]
    BY <1>3, <2>2
  <2>3. CASE r # job.rec /\ ~(files[r].ver >= saved[r])
    <3>1. files[r] = Absent /\ Cap > 0 /\ Cardinality(Above(Present, r)) >= Cap
      BY <1>7, <2>3 DEF Rest, Keeping, Kept, Above
    <3>2. Present \in SUBSET Rec /\ Present' \in SUBSET Rec
          /\ Above(Present, r) \subseteq Above(Present', r)
      BY <1>5 DEF Above, Present
    <3>3. Cardinality(Above(Present', r)) >= Cap
      BY <3>1, <3>2, MoreKeeps
    <3> QED BY <1>3, <2>3, <3>1, <3>3 DEF Above
  <2> QED BY <2>1, <2>2, <2>3
<1>8. files'[job'.rec].ver >= job'.ver
  BY <1>2, <1>3, <1>4
<1>9. Keeping'
  BY <1>2, <1>7, <1>8 DEF Keeping, Kept
<1>10. Tidy'
  BY <1>2 DEF Tidy
<1> QED BY <1>6, <1>9, <1>10 DEF Rest

\* The rows past the cap have been read from the directory as it is.
LEMMA ListedRest == ASSUME Shape, Rest, Listed("prune") PROVE Rest'
<1>1. Types /\ Stage /\ "prune" \in Lister
  BY DEF Shape, Lister
<1> DEFINE rows == lists["prune"].rows
<1>2. /\ lists["prune"].at = "entries" /\ lists["prune"].files = Present
      /\ rows \subseteq Present /\ rows \in SUBSET Rec /\ Present \in SUBSET Rec
  BY <1>1 DEF Listed, Rest, Pruning, Stage, Present
<1>3. /\ lists' = [lists EXCEPT !["prune"] = NotListing]
      /\ job' = [job EXCEPT !.at = "unlink"]
      /\ victims' = Beyond(rows) /\ tidy' = (rows = Present)
      /\ UNCHANGED <<files, saved>>
  BY <1>2 DEF Listed, disk
<1> HIDE DEF rows
<1>4. Present' = Present
  BY <1>3 DEF Present
<1>5. job.at = "listing" /\ Cap > 0 /\ Cap \in Nat
  BY <1>1, <1>2, StoreAssumption DEF Stage
<1>6. job'.at = "unlink" /\ job'.rec = job.rec /\ job'.ver = job.ver
  BY <1>1, <1>3 DEF Types
<1>7. Pruning'
  <2>1. lists'["prune"].at # "entries"
    BY <1>1, <1>3 DEF Types, NotListing
  <2>2. ASSUME NEW v \in Beyond(rows)
        PROVE  Cardinality({q \in Present \ Beyond(rows) : q > v}) >= Cap
    <3>1. Cardinality(Above(rows \ Beyond(rows), v)) >= Cap
      BY <1>2, NewerAreKept
    <3>2. v \in Rec /\ rows \ Beyond(rows) \in SUBSET Rec /\ Present \ Beyond(rows) \in SUBSET Rec
          /\ Above(rows \ Beyond(rows), v) \subseteq Above(Present \ Beyond(rows), v)
      BY <1>2 DEF Above, Beyond
    <3>3. Cardinality(Above(Present \ Beyond(rows), v)) >= Cap
      BY <3>1, <3>2, MoreKeeps
    <3> QED BY <3>3 DEF Above
  <2> QED BY <1>3, <1>4, <2>1, <2>2 DEF Pruning
<1>8. Keeping'
  <2>1. Kept(job.rec, job.ver)
    BY <1>5 DEF Rest, Keeping, Written
  <2>2. \A r \in Rec : saved[r] > 0 => Kept(r, saved[r])
    BY DEF Rest, Keeping
  <2> QED BY <1>3, <1>4, <1>6, <2>1, <2>2 DEF Keeping, Kept
<1>9. Tidy'
  <2>1. ASSUME rows = Present PROVE Cardinality(Present \ Beyond(rows)) <= Cap
    BY <1>2, <1>5, <2>1, KeptFew
  <2> QED BY <1>3, <1>4, <1>6, <2>1 DEF Tidy
<1> QED BY <1>7, <1>8, <1>9 DEF Rest

\* A record is deleted only while Cap newer ones stay.
LEMMA UnlinkRecordRest == ASSUME Shape, Rest, UnlinkRecord PROVE Rest'
<1>1. Types /\ Stage /\ "prune" \in Lister
  BY DEF Shape, Lister
<1> DEFINE v == Newest(victims)
<1>2. v \in victims /\ v \in Rec /\ victims \in SUBSET Rec /\ Cap > 0
  BY <1>1, NewestFacts DEF UnlinkRecord, Types, Stage
<1>3. /\ files' = [files EXCEPT ![v] = Absent] /\ job' = [job EXCEPT !.at = "unlinkWav"]
      /\ UNCHANGED <<victims, lists, saved, tidy>> /\ job.at = "unlink"
  BY DEF UnlinkRecord
<1>4. v = Newest(victims')
  BY <1>3
<1> HIDE DEF v
<1>5. files'[v] = Absent /\ \A q \in Rec : q # v => files'[q] = files[q]
  BY <1>1, <1>2, <1>3 DEF Types
<1>6. Present' = Present \ {v} /\ Present \in SUBSET Rec
  BY <1>2, <1>5 DEF Present
<1>7. Present' \ victims' = Present \ victims
  BY <1>2, <1>3, <1>6
<1>8. lists["prune"].at # "entries"
  BY <1>1, <1>3 DEF Stage
<1>9. Pruning'
  BY <1>3, <1>7, <1>8 DEF Rest, Pruning
<1>10. Cardinality(Above(Present \ victims, v)) >= Cap
  BY <1>2 DEF Rest, Pruning, Above
\* What was kept is kept, or it is the record that goes.
<1>11. ASSUME NEW r \in Rec, NEW n \in Nat, Kept(r, n)
       PROVE  \/ files'[r].ver >= n
              \/ /\ files'[r] = Absent /\ Cap > 0
                 /\ Cardinality({q \in Present' : q > r}) >= Cap
  <2>1. CASE r # v /\ files[r].ver >= n
    BY <1>5, <2>1
  <2>2. CASE r <= v /\ files'[r] = Absent
    <3>1. Above(Present \ victims, v) \subseteq Above(Present', r)
      <4> SUFFICES ASSUME NEW q \in Present \ victims, q > v
                   PROVE  q \in Present' /\ q > r
        BY DEF Above
      <4>1. q \in Nat /\ v \in Nat /\ r \in Nat /\ q # v
        BY <1>2, <1>6 DEF Rec
      <4> QED BY <1>6, <2>2, <4>1
    <3>2. Above(Present \ victims, v) \in SUBSET Rec /\ Above(Present', r) \in SUBSET Rec
      BY <1>6 DEF Above
    <3> DEFINE a == Cardinality(Above(Present \ victims, v))
               b == Cardinality(Above(Present', r))
    <3>3. a \in Nat /\ b \in Nat /\ a <= b /\ a >= Cap
      BY <1>10, <3>1, <3>2, RecFinite, FS_Subset
    <3> HIDE DEF a, b
    <3>4. b >= Cap
      BY <3>3, StoreAssumption
    <3> QED BY <1>2, <2>2, <3>4 DEF b, Above
  <2>3. CASE r > v /\ ~(files[r].ver >= n)
    <3>1. files[r] = Absent /\ Cardinality({q \in Present : q > r}) >= Cap
      BY <1>11, <2>3 DEF Kept
    <3>2. {q \in Present' : q > r} = {q \in Present : q > r}
      BY <1>2, <1>6, <2>3 DEF Rec
    <3>3. r # v
      BY <1>2, <2>3 DEF Rec
    <3> QED BY <1>2, <1>5, <3>1, <3>2, <3>3
  <2>4. r \in Nat /\ v \in Nat
    BY <1>2 DEF Rec
  <2>5. r # v /\ ~(files[r].ver >= n) => files'[r] = Absent
    BY <1>5, <1>11 DEF Kept
  <2>6. r < v \/ r = v \/ r > v
    BY <2>4
  <2>7. r = v => r <= v /\ files'[r] = Absent
    BY <1>5, <2>4
  <2>8. r < v => r <= v /\ r # v
    BY <2>4
  <2>9. r > v => r # v
    BY <2>4
  <2> QED BY <2>1, <2>2, <2>3, <2>5, <2>6, <2>7, <2>8, <2>9
<1>12. Keeping'
  <2>1. ASSUME NEW r \in Rec, saved[r] > 0
        PROVE  \/ files'[r].ver >= saved[r]
               \/ /\ files'[r] = Absent /\ Cap > 0
                  /\ Cardinality({q \in Present' : q > r}) >= Cap
    <3>1. saved[r] \in Nat /\ Kept(r, saved[r])
      BY <1>1, <2>1, StoreAssumption DEF Types, Rest, Keeping
    <3> QED BY <1>11, <3>1
  <2>2. /\ job'.rec = job.rec /\ job'.ver = job.ver
        /\ job.rec \in Rec /\ job.ver \in Nat /\ Kept(job.rec, job.ver)
    BY <1>1, <1>3, StoreAssumption DEF Types, Stage, Rest, Keeping, Written
  <2>3. \/ files'[job.rec].ver >= job.ver
        \/ /\ files'[job.rec] = Absent /\ Cap > 0
           /\ Cardinality({q \in Present' : q > job.rec}) >= Cap
    BY <1>11, <2>2
  <2> QED BY <1>3, <2>1, <2>2, <2>3 DEF Keeping, Kept
<1>13. Tidy'
  BY <1>3, <1>4, <1>6, <1>7 DEF Rest, Tidy
<1> QED BY <1>9, <1>12, <1>13 DEF Rest

\* A victim is off the list once its record is gone, or has not been deleted.
LEMMA UnlinkWavRest == ASSUME Shape, Rest, UnlinkWav \/ UnlinkWavFails PROVE Rest'
<1>1. Types /\ Stage /\ "prune" \in Lister
  BY DEF Shape, Lister
<1> DEFINE v == Newest(victims)
<1>2. v \in victims /\ victims \in SUBSET Rec
  BY <1>1, NewestFacts DEF UnlinkWav, UnlinkWavFails, Types, Stage
<1>3. /\ victims' = victims \ {v} /\ job' = [job EXCEPT !.at = "unlink"]
      /\ UNCHANGED <<files, lists, saved, tidy>> /\ job.at = "unlinkWav"
  BY DEF UnlinkWav, UnlinkWavFails, disk
<1>4. tidy => v \notin Present
  BY <1>3 DEF Rest, Tidy
<1> HIDE DEF v
<1>5. Present' = Present /\ Present \in SUBSET Rec
  BY <1>3 DEF Present
<1>6. job'.at = "unlink" /\ job'.rec = job.rec /\ job'.ver = job.ver
  BY <1>1, <1>3 DEF Types
<1>7. lists["prune"].at # "entries"
  BY <1>1, <1>3 DEF Stage
<1>8. Pruning'
  <2>1. ASSUME NEW w \in victims'
        PROVE  Cardinality({q \in Present \ victims' : q > w}) >= Cap
    <3>1. w \in Rec /\ Cardinality(Above(Present \ victims, w)) >= Cap
      BY <1>2, <1>3, <2>1 DEF Rest, Pruning, Above
    <3>2. /\ Present \ victims \in SUBSET Rec /\ Present \ victims' \in SUBSET Rec
          /\ Above(Present \ victims, w) \subseteq Above(Present \ victims', w)
      BY <1>3, <1>5 DEF Above
    <3>3. Cardinality(Above(Present \ victims', w)) >= Cap
      BY <3>1, <3>2, MoreKeeps
    <3> QED BY <3>3 DEF Above
  <2> QED BY <1>3, <1>5, <1>7, <2>1 DEF Pruning
<1>9. Keeping'
  <2>1. Kept(job.rec, job.ver) /\ \A r \in Rec : saved[r] > 0 => Kept(r, saved[r])
    BY <1>3 DEF Rest, Keeping, Written
  <2> QED BY <1>3, <1>5, <1>6, <2>1 DEF Keeping, Kept
<1>10. Tidy'
  <2>1. tidy => Present \ victims' = Present \ victims
    BY <1>3, <1>4
  <2> QED BY <1>3, <1>5, <1>6, <2>1 DEF Rest, Tidy
<1> QED BY <1>8, <1>9, <1>10 DEF Rest

\* The save resolves once nothing is left to delete, or the process is killed.
LEMMA SettledRest == ASSUME Shape, Rest, Resolved \/ Crash \/ UnlinkFails PROVE Rest'
<1>1. Types /\ Stage /\ "prune" \in Lister
  BY DEF Shape, Lister
<1>2. files' = files /\ Present' = Present
  BY DEF Resolved, Crash, UnlinkFails, disk, Present
<1>3. NoJob.at = "idle" /\ NotListing.at = "idle"
  BY DEF NoJob, NotListing
<1>4. \A r \in Rec : saved[r] > 0 => Kept(r, saved[r])
  BY DEF Rest, Keeping
<1>5. CASE Resolved
  <2>1. /\ saved' = [saved EXCEPT ![job.rec] = job.ver] /\ job' = NoJob
        /\ victims' = victims /\ lists' = lists /\ tidy' = tidy
    BY <1>5 DEF Resolved
  <2>2. Kept(job.rec, job.ver) /\ lists["prune"].at # "entries"
    BY <1>1, <1>5 DEF Resolved, Rest, Keeping, Written, Stage
  <2>3. \A r \in Rec : saved'[r] > 0 => Kept(r, saved'[r])
    <3>1. \A r \in Rec : saved'[r] = IF r = job.rec THEN job.ver ELSE saved[r]
      BY <1>1, <2>1 DEF Types
    <3> QED BY <1>4, <2>2, <3>1
  <2>4. Keeping'
    BY <1>2, <1>3, <2>1, <2>3 DEF Keeping, Kept, Written
  <2>5. Pruning' /\ Tidy'
    BY <1>2, <1>3, <2>1, <2>2 DEF Rest, Pruning, Tidy
  <2> QED BY <2>4, <2>5 DEF Rest
<1>6. CASE Crash
  <2>1. /\ saved' = saved /\ job' = NoJob /\ victims' = {}
        /\ lists' = [l \in Lister |-> NotListing] /\ tidy' = (tidy /\ victims = {})
    BY <1>6 DEF Crash
  <2>2. lists'["prune"].at = "idle"
    BY <1>1, <1>3, <2>1
  <2>3. Keeping'
    BY <1>2, <1>3, <1>4, <2>1 DEF Keeping, Kept, Written
  <2>4. Pruning' /\ Tidy'
    BY <1>2, <1>3, <2>1, <2>2 DEF Rest, Pruning, Tidy
  <2> QED BY <2>3, <2>4 DEF Rest
<1>7. CASE UnlinkFails
  <2>1. /\ job.at = "unlink" /\ job' = [job EXCEPT !.at = "unlinkWav"]
        /\ tidy' = FALSE /\ UNCHANGED <<saved, victims, lists>>
    BY <1>7 DEF UnlinkFails
  <2>2. job'.rec = job.rec /\ job'.ver = job.ver /\ Kept(job.rec, job.ver)
        /\ lists["prune"].at # "entries"
    BY <1>1, <2>1 DEF Types, Stage, Rest, Keeping, Written
  <2>3. Keeping'
    BY <1>2, <1>4, <2>1, <2>2 DEF Keeping, Kept
  <2>4. Pruning' /\ Tidy'
    BY <1>2, <2>1, <2>2 DEF Rest, Pruning, Tidy
  <2> QED BY <2>3, <2>4 DEF Rest
<1> QED BY <1>5, <1>6, <1>7

LEMMA RestStep == ASSUME Shape, Order, Rest, [Next]_vars PROVE Rest'
<1>1. Types /\ Stage /\ "prune" \in Lister /\ "list" \in Lister
  BY DEF Shape, Lister
<1>2. NoJob.at = "idle" /\ NotListing.at = "idle"
  BY DEF NoJob, NotListing
<1>3. CASE UNCHANGED <<files, victims, saved, tidy, job, lists>>
  BY <1>3, RestKept DEF Written
<1>4. CASE \E r \in Rec : SaveTurn(r) \/ SaveEnd(r) \/ ConversationStarts(r) \/ WavRenamed(r)
  BY <1>3, <1>4 DEF SaveTurn, SaveEnd, ConversationStarts, WavRenamed, Enqueue, store, disk
<1>5. CASE ListCalled
  <2>1. lists'["prune"] = lists["prune"]
    BY <1>1, <1>5 DEF ListCalled, Types
  <2> QED BY <1>5, <2>1, RestKept DEF ListCalled, disk, Written
<1>6. CASE InitWorks \/ \E t \in temps : Ages(t)
  BY <1>3, <1>6 DEF InitWorks, MkdirDone, Sweep, Ages, store, disk
<1>7. CASE Begin \/ TempWritten \/ WriteFails
  <2>1. job'.at \in {"idle", "init", "rename"} /\ UNCHANGED <<files, victims, saved, tidy, lists>>
    BY <1>1, <1>2, <1>7 DEF Begin, TempWritten, WriteFails, disk, Types
  <2> QED BY <2>1, RestKept
<1>8. CASE MkdirFails
  <2>1. lists'["prune"] = lists["prune"] /\ (job'.at = "idle" \/ job' = job)
        /\ UNCHANGED <<files, victims, saved, tidy>>
    BY <1>1, <1>2, <1>8 DEF MkdirFails, Stage, disk
  <2> QED BY <2>1, RestKept DEF Written
<1>9. ASSUME NEW l \in Lister, Readdir(l) \/ ReaddirFails(l) \/ Listed(l)
      PROVE  Rest'
  <2>1. CASE Listed(l) /\ l # "list"
    BY <2>1, ListedRest DEF Lister
  <2>2. CASE Readdir(l)
    <3>1. lists' = [lists EXCEPT ![l] =
                      [at |-> "entries", files |-> Present, left |-> Present,
                       rows |-> {}, stamp |-> [q \in Present |-> 0]]]
          /\ UNCHANGED <<files, victims, saved, tidy, job>>
      BY <2>2 DEF Readdir, disk
    <3>2. lists'["prune"] = lists["prune"] \/ lists'["prune"].files = Present
      BY <1>1, <3>1 DEF Types
    <3> QED BY <3>1, <3>2, RestKept DEF Written
  <2>3. CASE ReaddirFails(l) \/ (Listed(l) /\ l = "list")
    <3>1. lists' = [lists EXCEPT ![l] = NotListing]
          /\ UNCHANGED <<files, victims, saved, tidy>>
          /\ (job' = job \/ (l = "prune" /\ job' = [job EXCEPT !.at = "unlink"]))
      BY <2>3 DEF ReaddirFails, Listed, disk
    <3>2. lists'["prune"] = lists["prune"] \/ lists'["prune"].at = "idle"
      BY <1>1, <1>2, <3>1 DEF Types
    <3>3. lists[l].at # "idle"
      BY <2>3 DEF ReaddirFails, Listed
    <3>4. l = "prune" => job.at = "listing"
      BY <1>1, <3>3 DEF Stage
    <3>5. job' = job \/ (/\ Written /\ job'.at = "unlink"
                         /\ job'.rec = job.rec /\ job'.ver = job.ver)
      BY <1>1, <3>1, <3>4 DEF Types, Written
    <3> QED BY <3>1, <3>2, <3>5, RestKept DEF Written
  <2> QED BY <1>9, <2>1, <2>2, <2>3
<1>10. ASSUME NEW l \in Lister, NEW q \in Rec, Stat(l, q) \/ Read(l, q) \/ ReadFails(l, q)
       PROVE  Rest'
  <2>1. PICK row : Moves(l, row)
    BY <1>10, EntryMoves
  <2>2. UNCHANGED <<files, victims, saved, tidy, job>>
    BY <1>10, EntryMoves
  <2>3. \/ lists'["prune"] = lists["prune"]
        \/ lists["prune"].at = "entries" /\ lists'["prune"].files = lists["prune"].files
    BY <1>1, <2>1 DEF Moves, Types
  <2> QED BY <2>2, <2>3, RestKept DEF Written
<1>11. CASE Next
  <2>1. CASE Sockets
    BY <1>4, <1>5, <2>1 DEF Sockets
  <2>3. CASE \E l \in Lister : ListWorks(l)
    BY <1>9, <1>10, <2>3 DEF ListWorks
  <2>4. CASE SaveWorks
    BY <1>7, <2>3, <2>4, RenamedRest, UnlinkRecordRest, UnlinkWavRest, SettledRest
       DEF SaveWorks, Lister
  <2>5. CASE Breaks
    BY <1>6, <1>7, <1>8, <1>9, <1>10, <2>5, SettledRest, UnlinkWavRest DEF Breaks
  <2> QED BY <1>6, <1>11, <2>1, <2>3, <2>4, <2>5 DEF Next, Lister
<1> QED BY <1>3, <1>11 DEF vars, store, disk

-----------------------------------------------------------------------------
(* The recordings.                                                          *)

\* A step that takes no record away and resolves and issues no save.
LEMMA RecordingsKept ==
    ASSUME Shape, Recordings, Present \subseteq Present',
           UNCHANGED <<saved, issued, stray>>,
           \A r \in wavs' : conv'[r] = "over" => r \in wavs /\ conv[r] = "over",
           job.at = "unlinkWav" => job'.at = "unlinkWav" /\ victims' = victims,
           job'.at \in {"listing", "unlink", "unlinkWav"} =>
             \/ Written /\ job'.rec = job.rec /\ job'.ver = job.ver
             \/ job'.rec \in Present'
    PROVE  Recordings'
<1> SUFFICES ASSUME NEW r \in wavs' \ stray', conv'[r] = "over"
             PROVE  \/ r \in Present'
                    \/ job'.at = "unlinkWav" /\ r = Newest(victims')
                    \/ saved[r] < issued[r]
                       /\ ~(Written' /\ job'.rec = r /\ job'.ver = issued[r])
  BY DEF Recordings
<1>1. \/ r \in Present
      \/ job.at = "unlinkWav" /\ r = Newest(victims)
      \/ saved[r] < issued[r] /\ ~(Written /\ job.rec = r /\ job.ver = issued[r])
  BY DEF Recordings
<1>2. Written' => job'.at \in {"listing", "unlink", "unlinkWav"}
  BY DEF Written
<1> QED BY <1>1, <1>2

LEMMA RecordingsStep == ASSUME Shape, Order, Recordings, [Next]_vars PROVE Recordings'
<1>1. Types /\ Stage /\ "prune" \in Lister /\ "list" \in Lister /\ wavs \in SUBSET Rec
  BY DEF Shape, Lister, Types
<1>2. NoJob.at = "idle"
  BY DEF NoJob
<1>3. files' = files => Present \subseteq Present'
  BY DEF Present
<1>4. ASSUME UNCHANGED <<files, wavs, conv, saved, issued, stray>>,
             job' = job /\ victims' = victims
      PROVE  Recordings'
  BY <1>3, <1>4, RecordingsKept DEF Written
<1>5. ASSUME NEW r \in Rec, ConversationStarts(r) \/ WavRenamed(r) PROVE Recordings'
  <2>1. \A q \in wavs' : conv'[q] = "over" => q \in wavs /\ conv[q] = "over"
    BY <1>1, <1>5 DEF ConversationStarts, WavRenamed, disk, Types
  <2>2. UNCHANGED <<files, saved, issued, stray, job, victims>>
    BY <1>5 DEF ConversationStarts, WavRenamed, store, disk, past
  <2> QED BY <1>3, <2>1, <2>2, RecordingsKept DEF Written
<1>6. ASSUME NEW r \in Rec, SaveTurn(r) \/ SaveEnd(r) PROVE Recordings'
  <2>1. /\ issued' = [issued EXCEPT ![r] = issued[r] + 1]
        /\ UNCHANGED <<files, wavs, saved, stray, job, victims>>
        /\ \A q \in Rec : q # r => conv'[q] = conv[q]
    BY <1>1, <1>6 DEF SaveTurn, SaveEnd, Enqueue, disk, past, Types
  <2>2. SUFFICES ASSUME NEW q \in wavs \ stray, conv'[q] = "over"
                 PROVE  \/ q \in Present'
                        \/ job'.at = "unlinkWav" /\ q = Newest(victims')
                        \/ saved[q] < issued'[q]
                           /\ ~(Written' /\ job'.rec = q /\ job'.ver = issued'[q])
    BY <2>1 DEF Recordings
  <2>3. CASE q = r
    <3>1. issued'[q] = issued[q] + 1 /\ issued[q] \in Nat /\ saved[q] < issued[q] + 1
      BY <1>1, <2>1, <2>3, StoreAssumption DEF Types, Order, Ahead
    <3>2. Written /\ job.rec = q => job.ver <= issued[q] /\ job.ver \in Nat
      BY <1>1, StoreAssumption DEF Order, Written, Stage
    <3>3. Written' = Written
      BY <2>1 DEF Written
    <3> QED BY <2>1, <3>1, <3>2, <3>3
  <2>4. CASE q # r
    <3>1. issued'[q] = issued[q] /\ conv[q] = "over"
      BY <1>1, <2>1, <2>2, <2>4 DEF Types
    <3>2. Written' = Written /\ Present' = Present
      BY <2>1 DEF Written, Present
    <3> QED BY <2>1, <2>2, <3>1, <3>2 DEF Recordings
  <2> QED BY <2>3, <2>4
<1>7. CASE ListCalled \/ InitWorks \/ \E t \in temps : Ages(t)
  BY <1>4, <1>7 DEF ListCalled, InitWorks, MkdirDone, Sweep, Ages, store, disk, past
<1>8. CASE Begin \/ TempWritten \/ WriteFails
  <2>1. /\ job'.at \in {"idle", "init", "rename"} /\ job.at \in {"idle", "init", "rename"}
        /\ UNCHANGED <<files, wavs, conv, saved, issued, stray>>
    BY <1>1, <1>2, <1>8 DEF Begin, TempWritten, WriteFails, disk, past, Types
  <2> QED BY <1>3, <2>1, RecordingsKept
<1>9. CASE MkdirFails
  <2>1. /\ job' = job \/ (job.at = "init" /\ job'.at = "idle")
        /\ UNCHANGED <<files, wavs, conv, saved, issued, stray, victims>>
    BY <1>2, <1>9 DEF MkdirFails, disk
  <2> QED BY <1>3, <1>4, <2>1, RecordingsKept
<1>10. CASE UnlinkFails
  <2>1. /\ job.at = "unlink" /\ job'.rec = job.rec /\ job'.ver = job.ver
        /\ UNCHANGED <<files, wavs, conv, saved, issued, stray>>
    BY <1>1, <1>10 DEF UnlinkFails, disk, Types
  <2> QED BY <1>3, <2>1, RecordingsKept DEF Written
<1>11. ASSUME NEW l \in Lister, Readdir(l) \/ ReaddirFails(l) \/ Listed(l)
       PROVE  Recordings'
  <2>1. /\ UNCHANGED <<files, wavs, conv, saved, issued, stray>>
        /\ \/ job' = job /\ victims' = victims
           \/ lists[l].at # "idle" /\ l = "prune" /\ job' = [job EXCEPT !.at = "unlink"]
    BY <1>11 DEF Readdir, ReaddirFails, Listed, disk, past, Lister
  <2>2. CASE job' = job /\ victims' = victims
    BY <1>4, <2>1, <2>2
  <2>3. CASE lists[l].at # "idle" /\ l = "prune" /\ job' = [job EXCEPT !.at = "unlink"]
    <3>1. job.at = "listing" /\ job'.rec = job.rec /\ job'.ver = job.ver
      BY <1>1, <2>3 DEF Stage, Types
    <3> QED BY <1>3, <2>1, <3>1, RecordingsKept DEF Written
  <2> QED BY <2>1, <2>2, <2>3
<1>12. ASSUME NEW l \in Lister, NEW q \in Rec, Stat(l, q) \/ Read(l, q) \/ ReadFails(l, q)
       PROVE  Recordings'
  BY <1>4, <1>12, EntryMoves
<1>13. CASE Renamed
  <2>1. /\ files' = [files EXCEPT ![job.rec] =
                       [ver |-> job.ver, stamp |-> NextStamp(job.rec, job.ver)]]
        /\ job.rec \in Rec /\ job.ver # 0 /\ job.at = "rename" /\ job'.rec = job.rec
        /\ UNCHANGED <<wavs, conv, saved, issued, stray, victims>>
    BY <1>1, <1>13 DEF Renamed, Stage, past, Types
  <2>2. files'[job.rec] # Absent /\ \A q \in Rec : q # job.rec => files'[q] = files[q]
    BY <1>1, <2>1 DEF Types, Absent
  <2>3. Present \subseteq Present' /\ job.rec \in Present'
    BY <2>1, <2>2 DEF Present
  <2> QED BY <2>1, <2>3, RecordingsKept
<1>14. CASE UnlinkRecord
  <2> DEFINE v == Newest(victims)
  <2>1. /\ files' = [files EXCEPT ![v] = Absent]
        /\ job.at = "unlink" /\ job'.at = "unlinkWav" /\ job'.rec = job.rec /\ job'.ver = job.ver
        /\ UNCHANGED <<wavs, conv, saved, issued, stray, victims>>
    BY <1>1, <1>14 DEF UnlinkRecord, past, Types
  <2>2. Newest(victims') = v
    BY <2>1
  <2> HIDE DEF v
  <2>3. \A q \in Present : q = v \/ q \in Present'
    BY <1>1, <2>1 DEF Present, Types
  <2>4. Written' /\ Written
    BY <2>1 DEF Written
  <2> QED BY <2>1, <2>2, <2>3, <2>4 DEF Recordings
<1>15. CASE UnlinkWav \/ UnlinkWavFails
  <2> DEFINE v == Newest(victims)
  <2>1. /\ job.at = "unlinkWav" /\ job'.at = "unlink" /\ job'.rec = job.rec /\ job'.ver = job.ver
        /\ wavs' \ stray' = (wavs \ stray) \ {v}
        /\ UNCHANGED <<files, conv, saved, issued>>
    BY <1>1, <1>15 DEF UnlinkWav, UnlinkWavFails, disk, Types
  <2>2. Written' /\ Written /\ Present' = Present
    BY <2>1 DEF Written, Present
  <2>3. \A q \in wavs' \ stray' : q \in wavs \ stray /\ q # Newest(victims)
    BY <2>1
  <2> HIDE DEF v
  <2> QED BY <2>1, <2>2, <2>3 DEF Recordings
<1>16. CASE Resolved
  <2>1. /\ job.at = "unlink" /\ job' = NoJob
        /\ saved' = [saved EXCEPT ![job.rec] = job.ver]
        /\ UNCHANGED <<files, wavs, conv, issued, stray>>
    BY <1>16 DEF Resolved, disk, past
  <2>2. Written /\ ~Written' /\ Present' = Present
    BY <1>2, <2>1 DEF Written, Present
  <2>3. SUFFICES ASSUME NEW q \in wavs \ stray, saved[q] < issued[q],
                        ~(job.rec = q /\ job.ver = issued[q])
                 PROVE  saved'[q] < issued[q]
    BY <2>1, <2>2 DEF Recordings
  <2>4. saved'[q] = IF q = job.rec THEN job.ver ELSE saved[q]
    BY <1>1, <2>1 DEF Types
  <2>5. job.rec = q => job.ver <= issued[q] /\ job.ver \in Nat /\ issued[q] \in Nat
    BY <1>1, <2>1, StoreAssumption DEF Order, Stage, Types
  <2> QED BY <2>3, <2>4, <2>5
<1>17. CASE Crash
  <2>1. /\ UNCHANGED <<files, wavs>>
        /\ stray' = stray \cup (wavs \ Present)
    BY <1>17 DEF Crash, disk
  <2> QED BY <2>1 DEF Recordings, Present
<1>18. CASE Next
  <2>1. CASE Sockets
    BY <1>5, <1>6, <1>7, <2>1 DEF Sockets
  <2>2. CASE \E l \in Lister : ListWorks(l)
    BY <1>11, <1>12, <2>2 DEF ListWorks
  <2>3. CASE SaveWorks
    BY <1>8, <1>13, <1>14, <1>15, <1>16, <2>2, <2>3 DEF SaveWorks, Lister
  <2>4. CASE Breaks
    BY <1>7, <1>8, <1>9, <1>10, <1>11, <1>12, <1>15, <1>17, <2>4 DEF Breaks
  <2> QED BY <1>7, <1>18, <2>1, <2>2, <2>3, <2>4 DEF Next, Lister
<1> QED BY <1>4, <1>18 DEF vars, store, disk, past

-----------------------------------------------------------------------------
(* The theorems.                                                            *)

LEMMA InitInv == ASSUME Init PROVE Shape /\ Order /\ Fresh /\ Rest /\ Recordings
<1>1. Shape
  BY InitShape
<1>2. /\ issued = [r \in Rec |-> 0] /\ saved = [r \in Rec |-> 0]
      /\ files = [r \in Rec |-> Absent] /\ index = [r \in Rec |-> Absent]
      /\ lists = [l \in Lister |-> NotListing] /\ queue = << >>
      /\ job.at = "idle" /\ victims = {} /\ wavs = {} /\ Present = {}
  BY DEF Init, NoJob, Present
<1>3. \A l \in Lister : lists[l].at = "idle"
  BY <1>2 DEF NotListing
<1>4. ASSUME NEW r \in Rec PROVE Ahead(r, issued[r] + 1)
  <2>1. NextStamp(r, 1) \in Nat /\ 0 < NextStamp(r, 1)
    BY StampAboveNone
  <2> QED BY <1>2, <1>3, <2>1 DEF Ahead, Absent
<1>5. Order
  <2>1. Len(queue) = 0
    BY <1>2
  <2> QED BY <1>2, <1>4, <2>1 DEF Order
<1>6. Fresh /\ Recordings
  BY <1>2 DEF Fresh, IndexIsFresh, Recordings
<1>7. Rest
  <2>1. Cardinality(Present \ victims) <= Cap
    BY <1>2, FS_EmptySet, StoreAssumption
  <2> QED BY <1>2, <1>3, <2>1 DEF Rest, Pruning, Keeping, Tidy, Written, Lister
<1> QED BY <1>1, <1>5, <1>6, <1>7

\* Every reachable state of the store satisfies the invariant, whatever the number
\* of conversations and saves, the cap, and wherever crashes and failures come.
THEOREM StoreInvariance == Spec => []SInv
<1>1. Init => SInv
  BY InitInv DEF SInv
<1>2. SInv /\ [Next]_vars => SInv'
  BY ShapeStep, OrderStep, FreshStep, RestStep, RecordingsStep DEF SInv
<1> QED BY <1>1, <1>2, PTL DEF Spec

\* The state has its shape: a listing and prune() touch the directory only once
\* init() has resolved, and rows are deleted only by the save that runs.
THEOREM StoreIsTyped == Spec => []TypeOK
<1>1. SInv => TypeOK
  <2> SUFFICES ASSUME Types, Stage PROVE TypeOK
    BY DEF SInv, Shape
  <2>1. \A l \in Lister : lists[l] \in Listing
    BY DEF Types
  <2>2. \A l \in Lister :
          /\ lists[l].at \in {"idle", "init", "readdir", "entries"}
          /\ lists[l].left \subseteq lists[l].files
          /\ lists[l].rows \subseteq lists[l].files
    BY <2>1, ListingFacts DEF Stage
  <2>3. queue \in Seq([rec : Rec, ver : 1..MaxSaves])
    BY DEF Types, Save
  <2> QED BY <2>2, <2>3 DEF TypeOK, Types, Stage
<1> QED BY <1>1, StoreInvariance, PTL

\* save() that resolved is never lost, to failures, crashes, later saves of the
\* same conversation or a listing that interleaves: the record says at least as
\* much, or the cap took it while SESSION_MAX_RECORDS newer ones were there.
THEOREM ResolvedSavesStay == Spec => []ResolvedSavesLast
<1>1. SInv => ResolvedSavesLast
  BY DEF SInv, Rest, Keeping, Kept, ResolvedSavesLast
<1> QED BY <1>1, StoreInvariance, PTL

\* prune() leaves at most the cap, and a recording no longer than its record.
THEOREM TheCapHolds == Spec => []CapHolds
<1>1. SInv => CapHolds
  <2> SUFFICES ASSUME SInv PROVE CapHolds
    OBVIOUS
  <2>1. Types /\ Stage /\ Order /\ Tidy /\ Recordings
    BY DEF SInv, Shape, Rest
  <2>2. tidy /\ job.at = "idle" /\ Cap > 0 => Cardinality(Present) <= Cap
    <3>1. job.at = "idle" => Present \ victims = Present
      BY <2>1 DEF Stage
    <3> QED BY <2>1, <3>1 DEF Tidy
  <2>3. ASSUME NEW r \in wavs \ stray, conv[r] = "over", saved[r] = issued[r]
        PROVE  r \in Present \/ (job.at = "unlinkWav" /\ r = Newest(victims))
    <3>1. issued[r] \in Nat
      BY <2>1, StoreAssumption DEF Types
    <3> QED BY <2>1, <2>3, <3>1 DEF Recordings
  <2> QED BY <2>2, <2>3 DEF CapHolds
<1> QED BY <1>1, StoreInvariance, PTL

\* readIndexEntry() never takes from the cache what the file no longer says.
THEOREM IndexStaysFresh == Spec => []IndexIsFresh
<1>1. SInv => IndexIsFresh
  BY DEF SInv, Fresh
<1> QED BY <1>1, StoreInvariance, PTL
=============================================================================
