---------------------------- MODULE VideoAssets ----------------------------
(***************************************************************************)
(* What is stored of a clip, from its upload to the end of its retention:  *)
(* accept_upload, the delete operation and enforce_retention of            *)
(* src/data/video/service.py, the upload handler of src/api/app.py, the    *)
(* asset row (postgres.py) and the media object (storage.py).              *)
(*                                                                         *)
(* An asset is named by the content of its clip, so a clip that comes      *)
(* again meets its own row, object, mapping and jobs.  Nearly everybody    *)
(* reads the row in one transaction and writes all of it in a later one.   *)
(* The worker's chain is reduced to what it reads and writes of these      *)
(* (VideoJobs has the rest); clips are short enough to be sent whole.      *)
(***************************************************************************)
EXTENDS Naturals, FiniteSets

CONSTANTS
  Clips,
  Uploads,         \* upload requests
  SizeOf,          \* clip -> its bytes
  Quota,           \* tenant_quota_bytes
  Retention,       \* the source's retention_policy_days
  MaxTime,         \* bound: the clock, in days
  MaxSweeps,       \* bound: runs of enforce_retention
  MaxFaults       \* bound: failures of storage, provider or database, crashes

ASSUME AssetAssumption ==
  /\ Clips # {}
  /\ SizeOf \in [Clips -> Nat \ {0}]
  /\ {Quota, Retention, MaxTime, MaxSweeps, MaxFaults} \subseteq Nat

VARIABLES
  row,       \* clip -> video_assets_restricted: its status and retention_until
  stored,     \* clip -> is its object in the media store?
  remote,    \* clip -> the provider's copy and the mapping row that names it; was a
             \* copy made that nothing names?
  chain,     \* clip -> the stage its jobs are at
  deletion,  \* clip -> its delete job
  upload,    \* request -> how far it is, its clip and its received_at
  work,      \* clip -> what its worker does, and the row it read
  sweep,     \* the retention sweep: the clips it listed, and what it read
  now, left, \* the clock, and what is left of the bounds
  met,       \* clips somebody else worked on while the sweep had listed them
  excess,    \* history: the bytes that races have let past the quota, see QuotaKept
  undone     \* clips whose object a failed upload took away

assetVars == <<row, stored, remote, chain, deletion, upload, work, sweep, now, left,
               met, excess, undone>>

Usable == {"ready", "processing", "processed"}
Kept == Usable \cup {"failed"}
Absent == [status |-> "absent", until |-> 0]
Unmapped == [copy |-> FALSE, mapped |-> FALSE, gone |-> FALSE, stray |-> FALSE]
NoWork == [pc |-> "idle", status |-> "absent", read |-> Absent]
AnyClip == CHOOSE c \in Clips : TRUE
NoSweep == [pc |-> "idle", due |-> {}, clip |-> AnyClip,
            mapping |-> Unmapped, read |-> Absent]

AssetInit ==
  /\ row = [c \in Clips |-> Absent]
  /\ stored = [c \in Clips |-> FALSE]
  /\ remote = [c \in Clips |-> Unmapped]
  /\ chain = [c \in Clips |-> "none"]
  /\ deletion = [c \in Clips |-> "none"]
  /\ upload = [u \in Uploads |-> [pc |-> "new", clip |-> AnyClip, at |-> 0]]
  /\ work = [c \in Clips |-> NoWork]
  /\ sweep = NoSweep
  /\ now = 0
  /\ left = [sweeps |-> MaxSweeps, trouble |-> MaxFaults]
  /\ met = {} /\ excess = 0 /\ undone = {}

Fault == left.trouble > 0 /\ left' = [left EXCEPT !.trouble = @ - 1]
Uploading == {u \in Uploads : upload[u].pc \in {"store", "put", "undo"}}
\* The sum of the clips' sizes: every byte of every clip counts once.
Bytes(clips) == Cardinality(UNION {{c} \X (1..SizeOf[c]) : c \in clips})

\* History: somebody works on a clip that the sweep has listed.
Together(c) ==
  /\ c \in sweep.due
  /\ \/ work[c].pc # "idle"
     \/ \E u \in Uploading : upload[u].clip = c
Meet == met' = met \cup {c \in Clips : Together(c)'}

-----------------------------------------------------------------------------
(* accept_upload, and the handler around it.                               *)

Goto(u, pc) == upload' = [upload EXCEPT ![u].pc = pc]

Fits(c, statuses) == Bytes({d \in Clips : row[d].status \in statuses}) + SizeOf[c] <= Quota
(* History: an upload that is let in beside another one may be one too     *)
(* many.                                                                   *)
Decide(u, c, fits) ==
  /\ upload' = [upload EXCEPT ![u] =
       [pc |-> IF fits THEN "store" ELSE "refused", clip |-> c, at |-> now]]
  /\ excess' = IF fits /\ Uploading # {} THEN excess + SizeOf[c] ELSE excess

(* Mutant of Measure: only clips that wait for their processing count.     *)
MeasureReady(u, c) ==
  /\ upload[u].pc = "new"
  /\ Decide(u, c, Fits(c, {"ready"}))
  /\ UNCHANGED <<row, stored, remote, chain, deletion, work, sweep, now, left, undone>>
  /\ Meet

(* The quota counts every row that is not deleted, the clip's own too.     *)
Measure(u, c) ==
  /\ upload[u].pc = "new"
  /\ Decide(u, c, Fits(c, Kept))
  /\ UNCHANGED <<row, stored, remote, chain, deletion, work, sweep, now, left, undone>>
  /\ Meet

(* MediaStorage.store: the key is the asset's, an object there is replaced.*)
(* An error may hide that it was stored.                                   *)
StoreMedia(u) ==
  /\ upload[u].pc = "store"
  /\ stored' = [stored EXCEPT ![upload[u].clip] = TRUE] \/ UNCHANGED stored
  /\ \/ stored'[upload[u].clip] /\ Goto(u, "put") /\ UNCHANGED left
     \/ Fault /\ Goto(u, "failed")
  /\ UNCHANGED <<row, remote, chain, deletion, work, sweep, now, excess, undone>>
  /\ Meet

(* Mutant of PutAsset: the retention period is taken off the receipt.      *)
PutAssetBackwards(u) ==
  /\ upload[u].pc = "put"
  /\ row' = [row EXCEPT ![upload[u].clip] =
               [status |-> "ready", until |-> upload[u].at - Retention]]
  /\ Goto(u, "enqueue")
  /\ UNCHANGED <<stored, remote, chain, deletion, work, sweep, now, left, excess, undone>>
  /\ Meet

(* put_asset replaces the row, the one of an earlier upload included; an   *)
(* error may hide the commit.                                              *)
PutAsset(u) ==
  LET new == [row EXCEPT ![upload[u].clip] =
                [status |-> "ready", until |-> upload[u].at + Retention]] IN
  /\ upload[u].pc = "put"
  /\ \/ row' = new /\ Goto(u, "enqueue") /\ UNCHANGED left
     \/ row' \in {row, new} /\ Fault /\ Goto(u, "undo")
  /\ UNCHANGED <<stored, remote, chain, deletion, work, sweep, now, excess, undone>>
  /\ Meet

(* The object of an upload without metadata is removed again, be it the    *)
(* one an earlier upload of the clip has stored; an error is suppressed.   *)
UndoMedia(u) ==
  /\ upload[u].pc = "undo"
  /\ \/ /\ stored' = [stored EXCEPT ![upload[u].clip] = FALSE]
        /\ undone' = undone \cup {upload[u].clip}
        /\ UNCHANGED left
     \/ Fault /\ UNCHANGED <<stored, undone>>
  /\ Goto(u, "failed")
  /\ UNCHANGED <<row, remote, chain, deletion, work, sweep, now, excess>>
  /\ Meet

(* enqueue_asset_run: a chain that was started is not started again.       *)
EnqueueChain(u) ==
  /\ upload[u].pc = "enqueue"
  /\ chain' = [chain EXCEPT ![upload[u].clip] = IF @ = "none" THEN "upload" ELSE @]
  /\ Goto(u, "done")
  /\ UNCHANGED <<row, stored, remote, deletion, work, sweep, now, left, excess, undone>>
  /\ Meet

UploadDies(u) ==
  /\ upload[u].pc \in {"store", "put", "undo", "enqueue"}
  /\ Fault
  /\ Goto(u, "dead")
  /\ UNCHANGED <<row, stored, remote, chain, deletion, work, sweep, now, excess, undone>>
  /\ Meet

-----------------------------------------------------------------------------
(* The worker.  update_asset_status reads the row, and writes it whole.    *)

Mark(c, status) == work' = [work EXCEPT ![c].pc = "read", ![c].status = status]

FetchClip(c) ==
  /\ chain[c] = "upload" /\ work[c].pc = "idle"
  /\ CASE remote[c].mapped -> chain' = [chain EXCEPT ![c] = "analyze"] /\ UNCHANGED work
       [] ~ remote[c].mapped /\ stored[c] ->
            work' = [work EXCEPT ![c].pc = "send"] /\ UNCHANGED chain
       [] ~ remote[c].mapped /\ ~ stored[c] ->
            chain' = [chain EXCEPT ![c] = "over"] /\ Mark(c, "failed")
  /\ UNCHANGED <<row, stored, remote, deletion, upload, sweep, now, left, excess, undone>>
  /\ Meet

(* Before put_mapping only the worker knows the provider's copy.  An error *)
(* may hide that it was made; the job is tried again, or fails.            *)
SendClip(c) ==
  /\ work[c].pc = "send"
  /\ \/ work' = [work EXCEPT ![c].pc = "map"] /\ UNCHANGED <<remote, chain, left>>
     \/ /\ remote' \in {remote, [remote EXCEPT ![c].stray = TRUE]} /\ Fault
        /\ \/ work' = [work EXCEPT ![c] = NoWork] /\ UNCHANGED chain
           \/ chain' = [chain EXCEPT ![c] = "over"] /\ Mark(c, "failed")
  /\ UNCHANGED <<row, stored, deletion, upload, sweep, now, excess, undone>>
  /\ Meet

MapClip(c) ==
  /\ work[c].pc = "map"
  /\ remote' = [remote EXCEPT ![c].copy = TRUE, ![c].mapped = TRUE]
  /\ chain' = [chain EXCEPT ![c] = "analyze"]
  /\ Mark(c, "processing")
  /\ UNCHANGED <<row, stored, deletion, upload, sweep, now, left, excess, undone>>
  /\ Meet

AnalyzeClip(c) ==
  /\ chain[c] = "analyze" /\ work[c].pc = "idle"
  /\ chain' = [chain EXCEPT ![c] = "over"]
  /\ \/ Mark(c, IF stored[c] /\ remote[c].copy THEN "processed" ELSE "failed")
        /\ UNCHANGED left
     \/ Mark(c, "failed") /\ Fault
  /\ UNCHANGED <<row, stored, remote, deletion, upload, sweep, now, excess, undone>>
  /\ Meet

(* The worker dies, or a failure of the database ends its operation: the   *)
(* job is left running or failed, and nobody takes it up again.            *)
WorkerDies(c) ==
  /\ work[c].pc # "idle"
  /\ Fault
  /\ work' = [work EXCEPT ![c] = NoWork]
  /\ chain' = [chain EXCEPT ![c] = "over"]
  /\ remote' = [remote EXCEPT ![c].stray = @ \/ work[c].pc = "map"]
  /\ UNCHANGED <<row, stored, deletion, upload, sweep, now, excess, undone>>
  /\ Meet

ReadRow(c) ==
  /\ work[c].pc = "read"
  /\ work' = [work EXCEPT ![c].pc = "write", ![c].read = row[c]]
  /\ UNCHANGED <<row, stored, remote, chain, deletion, upload, sweep, now, left, excess, undone>>
  /\ Meet

(* History: the row of a clip that was deleted is brought back.            *)
WriteRow(c) ==
  /\ work[c].pc = "write"
  /\ row' = [row EXCEPT ![c] = [work[c].read EXCEPT !.status = work[c].status]]
  /\ work' = [work EXCEPT ![c] = NoWork]
  /\ excess' = IF row[c].status \notin Kept /\ stored[c] THEN excess + SizeOf[c] ELSE excess
  /\ UNCHANGED <<stored, remote, chain, deletion, upload, sweep, now, left, undone>>
  /\ Meet

-----------------------------------------------------------------------------
(* enforce_retention.                                                      *)

Step(pc) == sweep' = [sweep EXCEPT !.pc = pc]
Leave == sweep' = [NoSweep EXCEPT !.pc = "next", !.due = sweep.due \ {sweep.clip}]

ListExpired ==
  /\ sweep.pc = "idle" /\ left.sweeps > 0
  /\ left' = [left EXCEPT !.sweeps = @ - 1]
  /\ sweep' = [NoSweep EXCEPT !.pc = "next", !.due =
                 {c \in Clips : row[c].status \in Kept /\ row[c].until <= now}]
  /\ UNCHANGED <<row, stored, remote, chain, deletion, upload, work, now, excess, undone>>
  /\ Meet

(* A delete job that has completed once is not run again; any other is,    *)
(* a failed or a running one included.                                     *)
BeginDeletion(c) ==
  /\ sweep.pc = "next" /\ c \in sweep.due
  /\ IF deletion[c] = "completed"
     THEN sweep' = [sweep EXCEPT !.due = @ \ {c}] /\ UNCHANGED deletion
     ELSE /\ deletion' = [deletion EXCEPT ![c] = "running"]
          /\ sweep' = [sweep EXCEPT !.pc = "remote", !.clip = c, !.mapping = remote[c]]
  /\ UNCHANGED <<row, stored, remote, chain, upload, work, now, left, excess, undone>>
  /\ Meet

(* Mutant of DeleteRemote: the provider's copy is left where it is.        *)
KeepRemote ==
  /\ sweep.pc = "remote"
  /\ Step("media")
  /\ UNCHANGED <<row, stored, remote, chain, deletion, upload, work, now, left, excess, undone>>
  /\ Meet

DeleteRemote ==
  /\ sweep.pc = "remote"
  /\ IF sweep.mapping.mapped /\ ~ sweep.mapping.gone
     THEN remote' = [remote EXCEPT ![sweep.clip].copy = FALSE] /\ Step("mark")
     ELSE UNCHANGED remote /\ Step("media")
  /\ UNCHANGED <<row, stored, chain, deletion, upload, work, now, left, excess, undone>>
  /\ Meet
MarkRemoteDeleted ==
  /\ sweep.pc = "mark"
  /\ remote' = [remote EXCEPT ![sweep.clip].gone = TRUE]
  /\ Step("media")
  /\ UNCHANGED <<row, stored, chain, deletion, upload, work, now, left, excess, undone>>
  /\ Meet
DeleteMedia ==
  /\ sweep.pc = "media"
  /\ stored' = [stored EXCEPT ![sweep.clip] = FALSE]
  /\ Step("read")
  /\ UNCHANGED <<row, remote, chain, deletion, upload, work, now, left, excess, undone>>
  /\ Meet
ReadDeleted ==
  /\ sweep.pc = "read"
  /\ sweep' = [sweep EXCEPT !.pc = "write", !.read = row[sweep.clip]]
  /\ UNCHANGED <<row, stored, remote, chain, deletion, upload, work, now, left, excess, undone>>
  /\ Meet
WriteDeleted ==
  /\ sweep.pc = "write"
  /\ row' = [row EXCEPT ![sweep.clip] = [sweep.read EXCEPT !.status = "deleted"]]
  /\ Step("finish")
  /\ UNCHANGED <<stored, remote, chain, deletion, upload, work, now, left, excess, undone>>
  /\ Meet
FinishDeletion ==
  /\ sweep.pc = "finish"
  /\ deletion' = [deletion EXCEPT ![sweep.clip] = "completed"]
  /\ Leave
  /\ UNCHANGED <<row, stored, remote, chain, upload, work, now, left, excess, undone>>
  /\ Meet

(* The provider or the media store fails, perhaps with the copy deleted:   *)
(* the job is set to retry or failed, and the next sweep takes it up.      *)
DeletionFails ==
  LET c == sweep.clip IN
  /\ sweep.pc \in {"remote", "media"}
  /\ Fault
  /\ \/ UNCHANGED <<stored, remote>>
     \/ /\ sweep.pc = "remote" /\ sweep.mapping.mapped /\ ~ sweep.mapping.gone
        /\ remote' = [remote EXCEPT ![c].copy = FALSE] /\ UNCHANGED stored
     \/ /\ sweep.pc = "media"
        /\ stored' = [stored EXCEPT ![c] = FALSE] /\ UNCHANGED remote
  /\ deletion' = [deletion EXCEPT ![c] = "broken"]
  /\ Leave
  /\ UNCHANGED <<row, chain, upload, work, now, excess, undone>>
  /\ Meet
SweepDies ==
  /\ sweep.pc # "idle"
  /\ Fault
  /\ sweep' = NoSweep
  /\ UNCHANGED <<row, stored, remote, chain, deletion, upload, work, now, excess, undone>>
  /\ Meet
SweepEnds ==
  /\ sweep.pc = "next" /\ sweep.due = {}
  /\ sweep' = NoSweep
  /\ UNCHANGED <<row, stored, remote, chain, deletion, upload, work, now, left, excess, undone>>
  /\ Meet

Tick ==
  /\ now < MaxTime
  /\ now' = now + 1
  /\ UNCHANGED <<row, stored, remote, chain, deletion, upload, work, sweep, left, excess, undone>>
  /\ Meet

-----------------------------------------------------------------------------
AssetNext ==
  \/ \E u \in Uploads : \/ \E c \in Clips : Measure(u, c)
                         \/ StoreMedia(u) \/ PutAsset(u) \/ UndoMedia(u)
                         \/ EnqueueChain(u) \/ UploadDies(u)
  \/ \E c \in Clips : \/ FetchClip(c) \/ SendClip(c) \/ MapClip(c) \/ AnalyzeClip(c)
                       \/ ReadRow(c) \/ WriteRow(c) \/ WorkerDies(c) \/ BeginDeletion(c)
  \/ ListExpired \/ DeleteRemote \/ MarkRemoteDeleted \/ DeleteMedia
  \/ ReadDeleted \/ WriteDeleted \/ FinishDeletion \/ DeletionFails
  \/ SweepDies \/ SweepEnds \/ Tick

AssetSpec == AssetInit /\ [][AssetNext]_assetVars

-----------------------------------------------------------------------------
(* Properties                                                              *)

(* The shape of the state.                                                 *)
AssetTypeOK ==
  /\ row \in [Clips -> [status: Kept \cup {"absent", "deleted"}, until: Nat]]
  /\ stored \in [Clips -> BOOLEAN]
  /\ remote \in [Clips -> [copy: BOOLEAN, mapped: BOOLEAN, gone: BOOLEAN, stray: BOOLEAN]]
  /\ chain \in [Clips -> {"none", "upload", "analyze", "over"}]
  /\ deletion \in [Clips -> {"none", "running", "broken", "completed"}]
  /\ upload \in [Uploads -> [pc: {"new", "refused", "store", "put", "undo", "enqueue",
                                  "done", "failed", "dead"},
                           clip: Clips, at: 0..MaxTime]]
  /\ {met, undone} \subseteq SUBSET Clips /\ excess \in Nat
  /\ sweep.due \subseteq Clips

\* An upload of the clip broke off, perhaps with its object in the store.
BrokenOff(c) == \E u \in Uploads : upload[u].clip = c /\ upload[u].pc \in {"undo", "failed", "dead"}

(* What is stored of a tenant's clips exceeds the quota only by what races *)
(* cost, one clip each: an upload let in while another one was on its way  *)
(* (the sum is taken before the clip is stored), and a worker that writes  *)
(* back the row of a clip whose deletion went past it.  Whatever else goes *)
(* wrong or overlaps costs nothing.                                        *)
QuotaKept ==
  Bytes({c \in Clips : row[c].status \in Kept /\ stored[c]}) <= Quota + excess

(* The row tells what is stored: one that says deleted has neither a copy  *)
(* that its mapping names nor a stored object, through failures, crashes   *)
(* and repeated sweeps, but for an upload that has begun again; a clip that*)
(* is shown as waiting, processing or processed can be fetched, but for    *)
(* what a failed second upload took away or the sweep is deleting.  All as *)
(* long as nobody worked on the clip while a sweep had listed it.          *)
RowTellsMedia ==
  \A c \in Clips \ met :
    /\ row[c].status = "deleted" =>
         \/ ~ remote[c].copy /\ ~ stored[c]
         \/ BrokenOff(c)
         \/ \E u \in Uploads : upload[u].clip = c /\ upload[u].pc = "put"
    /\ row[c].status \in Usable /\ c \notin undone =>
         stored[c] \/ deletion[c] \in {"running", "broken"}

(* "Local deletion is incomplete until the corresponding Reka deletion     *)
(* succeeds or enters a monitored retry/dead-letter state": a clip whose   *)
(* row says deleted has no copy left at the provider.  It does not hold: a *)
(* worker that dies before put_mapping leaves a copy nobody can name.      *)
DeletionReachesProvider ==
  \A c \in Clips \ met : row[c].status = "deleted" => ~ remote[c].copy /\ ~ remote[c].stray

=============================================================================
