------------------------------- MODULE Media -------------------------------
(***************************************************************************)
(* internal/media: the life of one upload, from the presigned URL through  *)
(* the client's PUT, Complete, the processing job and Delete.  Assets have *)
(* rows, objects and jobs of their own, so one stands for all.             *)
(*                                                                         *)
(* The row is in Postgres, the objects are in S3 and the job is in a Redis *)
(* stream: each statement or command is a step, and any of them may fail   *)
(* or be the last of its process.  The queue redelivers what is not        *)
(* acknowledged, to other workers too, and gives up in the end (see        *)
(* StreamQueue).  Refused calls change nothing and are left out.           *)
(***************************************************************************)
EXTENDS Naturals

CONSTANTS Completers,  \* server goroutines that serve Complete
          Deleters,    \* server goroutines that serve Delete
          Workers      \* goroutines that run the media worker's handler

VARIABLES asset,       \* the row: its status, and whether it names a thumbnail
          original,    \* the uploaded object: "none", "image" or "corrupt"
          thumb,       \* is there a thumbnail object
          urlOpen,     \* may the client still PUT to the presigned URL
          resizable,   \* the content type is JPEG or PNG
          queued,      \* is the job in the stream
          complete,    \* what each Complete is doing
          work,        \* what each worker is doing with the job
          removal,     \* what each Delete is doing
          deleting,    \* history: has a Delete begun
          lost         \* history: a crash, a failed write nobody looks at, or
                       \* the queue's last attempt has left the row behind

assetStore == <<asset, original, thumb, urlOpen, resizable>>
mediaProcs == <<complete, work, removal>>
mediaVars == <<assetStore, queued, mediaProcs, deleting, lost>>

AssetStates == {"none", "pending", "processing", "ready", "failed", "gone"}
CompleteSteps == {"idle", "exists", "claim", "publish", "markFailed"}
WorkSteps == {"idle", "get", "download", "thumbnail", "markFailed", "put",
              "markReady", "ack"}
RemovalSteps == {"idle", "original", "thumb", "row"}

MediaTypeOK ==
  /\ asset \in [status: AssetStates, thumbed: BOOLEAN]
  /\ original \in {"none", "image", "corrupt"}
  /\ {thumb, urlOpen, resizable, queued, deleting, lost} \subseteq BOOLEAN
  /\ complete \in [Completers -> CompleteSteps]
  /\ work \in [Workers -> [step: WorkSteps, bytes: {"none", "image", "corrupt"}]]
  /\ removal \in [Deleters -> [step: RemovalSteps, thumbed: BOOLEAN]]

FreeWorker == [step |-> "idle", bytes |-> "none"]
FreeDeleter == [step |-> "idle", thumbed |-> FALSE]

MediaInit ==
  /\ asset = [status |-> "none", thumbed |-> FALSE]
  /\ original = "none"
  /\ thumb = FALSE /\ urlOpen = FALSE /\ queued = FALSE
  /\ resizable \in BOOLEAN
  /\ complete = [c \in Completers |-> "idle"]
  /\ work = [w \in Workers |-> FreeWorker]
  /\ removal = [d \in Deleters |-> FreeDeleter]
  /\ deleting = FALSE /\ lost = FALSE

HasRow == asset.status \notin {"none", "gone"}

\* An UPDATE by id changes nothing when the row is gone.
UpdateStatus(status) ==
  asset' = IF HasRow THEN [asset EXCEPT !.status = status] ELSE asset

-----------------------------------------------------------------------------
\* Presign: the client learns the URL only once the row is there.
Presign ==
  /\ asset.status = "none"
  /\ asset' = [asset EXCEPT !.status = "pending"]
  /\ urlOpen' = TRUE
  /\ UNCHANGED <<original, thumb, resizable, queued, mediaProcs, deleting, lost>>

\* The client's PUT goes past the API, as often as it likes until the URL
\* expires, whatever has become of the asset.
Upload ==
  /\ urlOpen
  /\ original' \in {"image", "corrupt"}
  /\ UNCHANGED <<asset, thumb, urlOpen, resizable, queued, mediaProcs, deleting, lost>>

UrlExpires ==
  /\ urlOpen
  /\ urlOpen' = FALSE
  /\ UNCHANGED <<asset, original, thumb, resizable, queued, mediaProcs, deleting, lost>>

-----------------------------------------------------------------------------
CompleteAt(c, step) == complete[c] = step
CompleteGoesTo(c, step) == complete' = [complete EXCEPT ![c] = step]

\* Complete: the asset must be pending when it is read.
ReadPending(c) ==
  /\ CompleteAt(c, "idle")
  /\ asset.status = "pending"
  /\ CompleteGoesTo(c, "exists")
  /\ UNCHANGED <<assetStore, queued, work, removal, deleting, lost>>

\* The object must be in the bucket; otherwise the call is refused.
CheckUpload(c) ==
  /\ CompleteAt(c, "exists")
  /\ CompleteGoesTo(c, IF original = "none" THEN "idle" ELSE "claim")
  /\ UNCHANGED <<assetStore, queued, work, removal, deleting, lost>>

\* markProcessing: only one caller advances a pending asset.
MarkProcessing(c) ==
  /\ CompleteAt(c, "claim")
  /\ IF asset.status = "pending"
     THEN UpdateStatus("processing") /\ CompleteGoesTo(c, "publish")
     ELSE CompleteGoesTo(c, "idle") /\ UNCHANGED asset
  /\ UNCHANGED <<original, thumb, urlOpen, resizable, queued, work, removal,
                 deleting, lost>>

\* Publish: the answer may be lost although the job is in the stream.
PublishJob(c) ==
  /\ CompleteAt(c, "publish")
  /\ \/ queued' = TRUE /\ CompleteGoesTo(c, "idle")
     \/ queued' \in {queued, TRUE} /\ CompleteGoesTo(c, "markFailed")
  /\ UNCHANGED <<assetStore, work, removal, deleting, lost>>

\* markFailed whatever the status is by now; its own failure is ignored.
FailAfterPublish(c) ==
  /\ CompleteAt(c, "markFailed")
  /\ \/ UpdateStatus("failed") /\ UNCHANGED lost
     \/ lost' = TRUE /\ UNCHANGED asset
  /\ CompleteGoesTo(c, "idle")
  /\ UNCHANGED <<original, thumb, urlOpen, resizable, queued, work, removal, deleting>>

\* An error, or the end of the process, at any step.
CompleteStops(c) ==
  /\ ~CompleteAt(c, "idle")
  /\ CompleteGoesTo(c, "idle")
  /\ lost' = (lost \/ complete[c] \in {"publish", "markFailed"})
  /\ UNCHANGED <<assetStore, queued, work, removal, deleting>>

-----------------------------------------------------------------------------
WorkerAt(w, step) == work[w].step = step
WorkGoesTo(w, step) == work' = [work EXCEPT ![w].step = step]

\* A worker is handed the job, for the first time or again, while another may
\* still be at it.
TakeJob(w) ==
  /\ WorkerAt(w, "idle")
  /\ queued
  /\ WorkGoesTo(w, "get")
  /\ UNCHANGED <<assetStore, queued, complete, removal, deleting, lost>>

\* A deleted asset and one that is ready need no work.
ReadAsset(w) ==
  /\ WorkerAt(w, "get")
  /\ WorkGoesTo(w, IF HasRow /\ asset.status # "ready" THEN "download" ELSE "ack")
  /\ UNCHANGED <<assetStore, queued, complete, removal, deleting, lost>>

\* Fault: the row becomes ready before its thumbnail is stored.
EarlyDownload(w) ==
  /\ WorkerAt(w, "download")
  /\ original # "none"
  /\ asset' = IF HasRow THEN [status |-> "ready", thumbed |-> resizable] ELSE asset
  /\ WorkGoesTo(w, "ack")
  /\ UNCHANGED <<original, thumb, urlOpen, resizable, queued, complete, removal,
                 deleting, lost>>

\* The object must be there; WebP is its own thumbnail.
Download(w) ==
  /\ WorkerAt(w, "download")
  /\ original # "none"
  /\ work' = [work EXCEPT ![w] = [step |-> IF resizable THEN "thumbnail" ELSE "markReady",
                                  bytes |-> original]]
  /\ UNCHANGED <<assetStore, queued, complete, removal, deleting, lost>>

\* Thumbnail: what cannot be decoded will never be.
MakeThumbnail(w) ==
  /\ WorkerAt(w, "thumbnail")
  /\ WorkGoesTo(w, IF work[w].bytes = "image" THEN "put" ELSE "markFailed")
  /\ UNCHANGED <<assetStore, queued, complete, removal, deleting, lost>>

\* A corrupt image fails for good; the failure of this write is ignored.
GiveUpOnImage(w) ==
  /\ WorkerAt(w, "markFailed")
  /\ \/ UpdateStatus("failed") /\ UNCHANGED lost
     \/ lost' = TRUE /\ UNCHANGED asset
  /\ WorkGoesTo(w, "ack")
  /\ UNCHANGED <<original, thumb, urlOpen, resizable, queued, complete, removal, deleting>>

PutThumbnail(w) ==
  /\ WorkerAt(w, "put")
  /\ thumb' = TRUE
  /\ WorkGoesTo(w, "markReady")
  /\ UNCHANGED <<asset, original, urlOpen, resizable, queued, complete, removal,
                 deleting, lost>>

\* markReady also revives an asset that was marked failed meanwhile.  The
\* media.processed event after it is best effort and nobody here listens.
MarkReady(w) ==
  /\ WorkerAt(w, "markReady")
  /\ asset' = IF HasRow THEN [status |-> "ready", thumbed |-> resizable] ELSE asset
  /\ WorkGoesTo(w, "ack")
  /\ UNCHANGED <<original, thumb, urlOpen, resizable, queued, complete, removal,
                 deleting, lost>>

Acknowledge(w) ==
  /\ WorkerAt(w, "ack")
  /\ queued' = FALSE
  /\ work' = [work EXCEPT ![w] = FreeWorker]
  /\ UNCHANGED <<assetStore, complete, removal, deleting, lost>>

\* The handler returns an error or its process ends: the job stays.  A PUT
\* that reported an error may have stored the object.
WorkStops(w) ==
  /\ ~WorkerAt(w, "idle")
  /\ thumb' \in {thumb, thumb \/ WorkerAt(w, "put")}
  /\ work' = [work EXCEPT ![w] = FreeWorker]
  /\ UNCHANGED <<asset, original, urlOpen, resizable, queued, complete, removal,
                 deleting, lost>>

\* After its last attempt the queue moves the job to the dead letters.
DeadLetterJob ==
  /\ queued
  /\ queued' = FALSE
  /\ lost' = TRUE
  /\ UNCHANGED <<assetStore, mediaProcs, deleting>>

-----------------------------------------------------------------------------
RemovalAt(d, step) == removal[d].step = step
RemovalGoesTo(d, step) == removal' = [removal EXCEPT ![d].step = step]

\* Delete notes whether the row names a thumbnail of its own.
BeginDelete(d) ==
  /\ RemovalAt(d, "idle")
  /\ HasRow
  /\ removal' = [removal EXCEPT ![d] = [step |-> "original", thumbed |-> asset.thumbed]]
  /\ deleting' = TRUE
  /\ UNCHANGED <<assetStore, queued, complete, work, lost>>

\* An object that cannot be removed is logged and left.
RemoveOriginal(d) ==
  /\ RemovalAt(d, "original")
  /\ original' \in {"none", original}
  /\ RemovalGoesTo(d, IF removal[d].thumbed THEN "thumb" ELSE "row")
  /\ UNCHANGED <<asset, thumb, urlOpen, resizable, queued, complete, work, deleting, lost>>

RemoveThumbnail(d) ==
  /\ RemovalAt(d, "thumb")
  /\ thumb' \in {FALSE, thumb}
  /\ RemovalGoesTo(d, "row")
  /\ UNCHANGED <<asset, original, urlOpen, resizable, queued, complete, work, deleting, lost>>

DeleteRow(d) ==
  /\ RemovalAt(d, "row")
  /\ asset' = [status |-> "gone", thumbed |-> FALSE]
  /\ removal' = [removal EXCEPT ![d] = FreeDeleter]
  /\ UNCHANGED <<original, thumb, urlOpen, resizable, queued, complete, work, deleting, lost>>

\* The last statement fails, or the process ends.
DeleteStops(d) ==
  /\ ~RemovalAt(d, "idle")
  /\ removal' = [removal EXCEPT ![d] = FreeDeleter]
  /\ UNCHANGED <<assetStore, queued, complete, work, deleting, lost>>

-----------------------------------------------------------------------------
CompleteStep(c) ==
  \/ ReadPending(c) \/ CheckUpload(c) \/ MarkProcessing(c)
  \/ PublishJob(c) \/ FailAfterPublish(c) \/ CompleteStops(c)

WorkStep(w) ==
  \/ TakeJob(w) \/ ReadAsset(w) \/ Download(w) \/ MakeThumbnail(w)
  \/ GiveUpOnImage(w) \/ PutThumbnail(w) \/ MarkReady(w)
  \/ Acknowledge(w) \/ WorkStops(w)

RemovalStep(d) ==
  \/ BeginDelete(d) \/ RemoveOriginal(d) \/ RemoveThumbnail(d)
  \/ DeleteRow(d) \/ DeleteStops(d)

MediaNext ==
  \/ Presign \/ Upload \/ UrlExpires \/ DeadLetterJob
  \/ \E c \in Completers : CompleteStep(c)
  \/ \E w \in Workers : WorkStep(w)
  \/ \E d \in Deleters : RemovalStep(d)

MediaSpec == MediaInit /\ [][MediaNext]_mediaVars

-----------------------------------------------------------------------------
\* What a ready asset's URLs point at is in the bucket, until somebody begins
\* to delete it, whoever else was processing, completing or re-uploading it.
ReadyMeansStored ==
  (asset.status = "ready" /\ ~deleting) =>
     original # "none" /\ asset.thumbed = resizable /\ (resizable => thumb)

\* "surface the failure rather than leaving it stuck with no job queued"
\* (service.go:124-125): an asset that is processing has a job, or a Complete
\* that is about to queue it, unless a crash, an unheeded write or the queue's
\* last attempt came in between.
StuckOnlyWhenLost ==
  asset.status = "processing" =>
     \/ queued
     \/ \E c \in Completers : complete[c] \in {"publish", "markFailed"}
     \/ lost

AssetsAreAccountedFor == ReadyMeansStored /\ StuckOnlyWhenLost
=============================================================================
