------------------------------ MODULE Uploads -------------------------------
(***************************************************************************)
(* An instructor's videos: MediaService with its Upload rows, the lessons  *)
(* that refer to them (AuthoringService), Cloudflare Stream, which stores  *)
(* and encodes, its webhooks, the maintenance sweep and the queue of       *)
(* deletions (StreamCleanupService, StreamCleanupProcessor).  Upload u and *)
(* its video carry one number.  Requests are cut at their awaits, and a    *)
(* process may die at any of them.                                         *)
(***************************************************************************)
EXTENDS Integers, FiniteSets

CONSTANTS
  MaxUploads,      \* bound: how many uploads may be reserved
  Slots,           \* lesson rows, of courses and of their revisions
  Requests,        \* requests in flight
  MaxOutstanding,  \* STREAM_MAX_OUTSTANDING_UPLOADS
  MayCrashMedia    \* whether a process may die between two awaits

Uploaded == 1..MaxUploads
None == 0

ASSUME UploadAssumption ==
  /\ MaxUploads \in Nat /\ MaxOutstanding \in Nat
  /\ None \notin Slots
  /\ MayCrashMedia \in BOOLEAN

VARIABLES
  upload,    \* Uploaded -> Upload row
  video,     \* Uploaded -> the video at Cloudflare
  slot,      \* Slots -> Lesson.cfVideoUid, "absent" for a row that does not exist
  jobs,      \* the delete-cf-video jobs in the queue
  hooks,     \* encoding webhooks that Cloudflare sends, perhaps repeatedly
  request,   \* Requests -> the request in flight
  sweep      \* the maintenance sweep, one row at a time

mediaVars == <<upload, video, slot, jobs, hooks, request, sweep>>

Absent == -1
Transient == {"CREATED", "UPLOADING", "PROCESSING"}
UploadStatus == {"none", "READY", "FAILED", "ABANDONED"} \cup Transient
VideoState == {"none", "reserved", "received", "ready", "failed", "deleted"}

UploadRow == [status : UploadStatus, uid : BOOLEAN, lesson : Slots \cup {None}]
RequestState ==
  [at : {"idle", "reserve", "init", "save", "undo", "fail", "ask", "record", "pollAsk",
         "poll", "abandon", "enqueue", "attach", "link", "clear", "wipe", "remove", "release"},
   upload : 0..MaxUploads, slot : Slots \cup {None}, prior : 0..MaxUploads,
   saw : VideoState]
Free == [at |-> "idle", upload |-> None, slot |-> None, prior |-> None, saw |-> "none"]

UploadTypeOK ==
  /\ upload \in [Uploaded -> UploadRow]
  /\ video \in [Uploaded -> VideoState]
  /\ slot \in [Slots -> {Absent} \cup 0..MaxUploads]
  /\ jobs \subseteq Uploaded
  /\ hooks \subseteq Uploaded \X {"ready", "failed"}
  /\ request \in [Requests -> RequestState]
  /\ sweep \in [at : {"idle", "check", "enqueue"}, upload : 0..MaxUploads]

UploadInit ==
  /\ upload = [u \in Uploaded |-> [status |-> "none", uid |-> FALSE, lesson |-> None]]
  /\ video = [u \in Uploaded |-> "none"]
  /\ slot = [l \in Slots |-> Absent]
  /\ jobs = {} /\ hooks = {}
  /\ request = [r \in Requests |-> Free]
  /\ sweep = [at |-> "idle", upload |-> None]

-----------------------------------------------------------------------------
\* countLessonsByCfVideoUid: the lessons that refer to u.
Users(u) == {l \in Slots : slot[l] = u}

At(r, at) == request[r].at = at
Open(r, at, u, l, prior) ==
  /\ At(r, "idle")
  /\ request' = [request EXCEPT ![r] =
       [at |-> at, upload |-> u, slot |-> l, prior |-> prior, saw |-> "none"]]
Goto(r, at) == request' = [request EXCEPT ![r].at = at]
Close(r) == request' = [request EXCEPT ![r] = Free]
Hear(r, at, saw) == request' = [request EXCEPT ![r].at = at, ![r].saw = saw]
Set(u, status) == upload' = [upload EXCEPT ![u].status = status]

\* enqueueCloudflareDelete swallows the queue's errors; one job per video.
Enqueue(u) == jobs' = jobs \cup {u} \/ (MayCrashMedia /\ UNCHANGED jobs)

-----------------------------------------------------------------------------
(* createTusUpload. *)

Outstanding == {u \in Uploaded : upload[u].status \in {"CREATED", "UPLOADING"}}

BeginReserve(r) ==
  /\ Cardinality(Outstanding) < MaxOutstanding
  /\ Open(r, "reserve", None, None, None)
  /\ UNCHANGED <<upload, video, slot, jobs, hooks, sweep>>

CreateRow(r) ==
  /\ At(r, "reserve")
  /\ \E u \in Uploaded :
       /\ upload[u].status = "none" /\ \A v \in 1..(u - 1) : upload[v].status # "none"
       /\ Set(u, "CREATED")
       /\ request' = [request EXCEPT ![r].at = "init", ![r].upload = u]
  /\ UNCHANGED <<video, slot, jobs, hooks, sweep>>

\* Cloudflare may refuse.
InitTus(r) ==
  /\ At(r, "init")
  /\ \/ video' = [video EXCEPT ![request[r].upload] = "reserved"] /\ Goto(r, "save")
     \/ UNCHANGED video /\ Goto(r, "fail")
  /\ UNCHANGED <<upload, slot, jobs, hooks, sweep>>

\* updateAfterCfInit looks at no status; when it fails the video goes too.
SaveUid(r) ==
  /\ At(r, "save")
  /\ \/ /\ upload' = [upload EXCEPT ![request[r].upload].status = "UPLOADING",
                                    ![request[r].upload].uid = TRUE]
        /\ Close(r)
     \/ UNCHANGED upload /\ Goto(r, "undo")
  /\ UNCHANGED <<video, slot, jobs, hooks, sweep>>

\* deleteCloudflareVideo, whose failure is ignored.
UndoTus(r) ==
  /\ At(r, "undo")
  /\ video' = [video EXCEPT ![request[r].upload] = "deleted"] \/ UNCHANGED video
  /\ Goto(r, "fail")
  /\ UNCHANGED <<upload, slot, jobs, hooks, sweep>>

MarkInitFailed(r) ==
  /\ At(r, "fail")
  /\ Set(request[r].upload, "FAILED")
  /\ Close(r)
  /\ UNCHANGED <<video, slot, jobs, hooks, sweep>>

-----------------------------------------------------------------------------
(* Cloudflare Stream. *)

ReceiveBytes(u) ==
  /\ video[u] = "reserved"
  /\ video' = [video EXCEPT ![u] = "received"]
  /\ UNCHANGED <<upload, slot, jobs, hooks, request, sweep>>

Encode(u) ==
  /\ video[u] = "received"
  /\ \E outcome \in {"ready", "failed"} :
       /\ video' = [video EXCEPT ![u] = outcome]
       /\ hooks' = hooks \cup {<<u, outcome>>}
  /\ UNCHANGED <<upload, slot, jobs, request, sweep>>

\* A job of the queue: it succeeds, or all its attempts fail.
DeleteVideo(u) ==
  /\ u \in jobs
  /\ jobs' = jobs \ {u}
  /\ video' = [video EXCEPT ![u] = "deleted"]
  /\ UNCHANGED <<upload, slot, hooks, request, sweep>>

FailDelete(u) ==
  /\ MayCrashMedia /\ u \in jobs
  /\ jobs' = jobs \ {u}
  /\ UNCHANGED <<upload, video, slot, hooks, request, sweep>>

-----------------------------------------------------------------------------
(* Encoding: completeUpload, getUploadStatus, handleStreamWebhook. *)

BeginComplete(r, u) ==
  /\ upload[u].status = "UPLOADING" /\ upload[u].uid
  /\ Open(r, "ask", u, None, None)
  /\ UNCHANGED <<upload, video, slot, jobs, hooks, sweep>>

\* fetchTusUploadProgress, fetchCloudflareVideo: refused until all bytes are there.
AskProgress(r) ==
  /\ At(r, "ask")
  /\ IF video[request[r].upload] \in {"received", "ready", "failed"}
     THEN Hear(r, "record", video[request[r].upload])
     ELSE Close(r)
  /\ UNCHANGED <<upload, video, slot, jobs, hooks, sweep>>

\* Mutant: every received video is taken for encoded.
RecordAsReady(r) ==
  /\ At(r, "record")
  /\ Set(request[r].upload, IF request[r].saw = "failed" THEN "FAILED" ELSE "READY")
  /\ Close(r)
  /\ UNCHANGED <<video, slot, jobs, hooks, sweep>>

\* markFailed, markReady or markProcessing, whatever the status is by now.
RecordProgress(r) ==
  /\ At(r, "record")
  /\ Set(request[r].upload, CASE request[r].saw = "failed" -> "FAILED"
                              [] request[r].saw = "ready"  -> "READY"
                              [] OTHER                     -> "PROCESSING")
  /\ Close(r)
  /\ UNCHANGED <<video, slot, jobs, hooks, sweep>>

BeginPoll(r, u) ==
  /\ upload[u].status = "PROCESSING" /\ upload[u].uid
  /\ Open(r, "pollAsk", u, None, None)
  /\ UNCHANGED <<upload, video, slot, jobs, hooks, sweep>>

AskEncoding(r) ==
  /\ At(r, "pollAsk")
  /\ IF video[request[r].upload] \in {"ready", "failed"}
     THEN Hear(r, "poll", video[request[r].upload])
     ELSE Close(r)
  /\ UNCHANGED <<upload, video, slot, jobs, hooks, sweep>>

\* Mutant: neither asks for the status they start from.
SettledAnyway(u, outcome) == Set(u, IF outcome = "ready" THEN "READY" ELSE "FAILED")

\* Mutant: only before the owner has reported completion.
SettledEarly(u, outcome) ==
  IF upload[u].status \in {"CREATED", "UPLOADING"}
  THEN Set(u, IF outcome = "ready" THEN "READY" ELSE "FAILED")
  ELSE UNCHANGED upload

\* Mutant: the provider's word is stored as it is.
SettledRaw(u, outcome) ==
  IF upload[u].status \in Transient THEN Set(u, outcome) ELSE UNCHANGED upload

\* markReadyFromEncoding, markFailedFromEncoding.
Settled(u, outcome) ==
  IF upload[u].status \in Transient
  THEN Set(u, IF outcome = "ready" THEN "READY" ELSE "FAILED")
  ELSE UNCHANGED upload

RecordEncoding(r) ==
  /\ At(r, "poll")
  /\ Settled(request[r].upload, request[r].saw)
  /\ Close(r)
  /\ UNCHANGED <<video, slot, jobs, hooks, sweep>>

\* A row is found by its uid; the webhook may come again.
ReceiveHook(hook) ==
  /\ hook \in hooks /\ upload[hook[1]].uid
  /\ Settled(hook[1], hook[2])
  /\ UNCHANGED <<video, slot, jobs, hooks, request, sweep>>

-----------------------------------------------------------------------------
(* discardUpload. *)

BeginDiscard(r, u) ==
  /\ upload[u].status \notin {"none", "ABANDONED"} /\ upload[u].lesson = None
  /\ Open(r, "abandon", u, None, IF upload[u].uid THEN u ELSE None)
  /\ UNCHANGED <<upload, video, slot, jobs, hooks, sweep>>

MarkAbandoned(r) ==
  /\ At(r, "abandon")
  /\ Set(request[r].upload, "ABANDONED")
  /\ IF request[r].prior # None THEN Goto(r, "enqueue") ELSE Close(r)
  /\ UNCHANGED <<video, slot, jobs, hooks, sweep>>

EnqueueDelete(r) ==
  /\ At(r, "enqueue")
  /\ Enqueue(request[r].prior)
  /\ Close(r)
  /\ UNCHANGED <<upload, video, slot, hooks, sweep>>

-----------------------------------------------------------------------------
(* Lessons: addLesson, updateLesson, removeLesson, revisions. *)

\* assertAttachableUpload, for the owner's own course.
Attachable(u, l) ==
  /\ upload[u].uid /\ upload[u].status \in {"PROCESSING", "READY"}
  /\ upload[u].lesson \in {None, l}

BeginAttach(r, u, l) ==
  /\ slot[l] # u /\ Attachable(u, l)
  /\ Open(r, "attach", u, l, IF slot[l] = Absent THEN None ELSE slot[l])
  /\ UNCHANGED <<upload, video, slot, jobs, hooks, sweep>>

\* addLesson creates the lesson and links the upload in a second statement.
CreateLesson(r) ==
  /\ At(r, "attach") /\ slot[request[r].slot] = Absent
  /\ slot' = [slot EXCEPT ![request[r].slot] = request[r].upload]
  /\ Goto(r, "link")
  /\ UNCHANGED <<upload, video, jobs, hooks, sweep>>

LinkUpload(r) ==
  /\ At(r, "link")
  /\ upload' = IF slot[request[r].slot] = Absent THEN upload   \* foreign key
               ELSE [upload EXCEPT ![request[r].upload].lesson = request[r].slot]
  /\ Close(r)
  /\ UNCHANGED <<video, slot, jobs, hooks, sweep>>

Detached(uploads, l) ==
  [v \in Uploaded |-> IF v \in uploads /\ upload[v].lesson = l
                      THEN [upload[v] EXCEPT !.lesson = None] ELSE upload[v]]

\* updateLesson's transaction; Upload.lessonId is unique.
ReplaceVideo(r) ==
  LET u == request[r].upload
      l == request[r].slot
      detached == Detached({request[r].prior}, l)
  IN /\ At(r, "attach") /\ slot[l] # Absent
     /\ \A v \in Uploaded \ {u} : detached[v].lesson # l
     /\ upload' = [detached EXCEPT ![u].lesson = l]
     /\ slot' = [slot EXCEPT ![l] = u]
     /\ IF request[r].prior # None THEN Goto(r, "release") ELSE Close(r)
     /\ UNCHANGED <<video, jobs, hooks, sweep>>

BeginClear(r, l, emptied) ==
  /\ slot[l] \in Uploaded
  /\ Open(r, IF emptied THEN "wipe" ELSE "clear", None, l, slot[l])
  /\ UNCHANGED <<upload, video, slot, jobs, hooks, sweep>>

\* updateLesson with cfVideoUid "" empties the column; with null it detaches the
\* upload and leaves the column, because null ?? undefined is undefined.
ClearVideo(r) ==
  /\ At(r, "clear") \/ At(r, "wipe")
  /\ slot[request[r].slot] # Absent
  /\ upload' = Detached({request[r].prior}, request[r].slot)
  /\ slot' = IF At(r, "wipe") THEN [slot EXCEPT ![request[r].slot] = None] ELSE slot
  /\ Goto(r, "release")
  /\ UNCHANGED <<video, jobs, hooks, sweep>>

BeginRemoveLesson(r, l) ==
  /\ slot[l] # Absent
  /\ Open(r, "remove", None, l, slot[l])
  /\ UNCHANGED <<upload, video, slot, jobs, hooks, sweep>>

\* onDelete: SetNull clears the upload's lesson.
DeleteLesson(r) ==
  /\ At(r, "remove") /\ slot[request[r].slot] # Absent
  /\ slot' = [slot EXCEPT ![request[r].slot] = Absent]
  /\ upload' = Detached(Uploaded, request[r].slot)
  /\ IF request[r].prior # None THEN Goto(r, "release") ELSE Close(r)
  /\ UNCHANGED <<video, jobs, hooks, sweep>>

\* maybeEnqueueCloudflareDeleteIfUnreferenced: count, then queue.
ReleaseVideo(r) ==
  /\ At(r, "release")
  /\ IF Users(request[r].prior) = {} THEN Goto(r, "enqueue") ELSE Close(r)
  /\ UNCHANGED <<upload, video, slot, jobs, hooks, sweep>>

\* cloneCourseForRevision and approveCourseRevision copy the uid alone.
CopyLesson(from, to) ==
  /\ from # to /\ slot[from] # Absent /\ slot[to] # slot[from]
  /\ slot' = [slot EXCEPT ![to] = slot[from]]
  /\ UNCHANGED <<upload, video, jobs, hooks, request, sweep>>

-----------------------------------------------------------------------------
(* runMaintenanceSweep, one row of one of its four lists at a time. *)

\* Mutant: the sweep abandons and never looks at what is abandoned.
SweepStale(u) ==
  /\ sweep.at = "idle" /\ upload[u].status \in {"CREATED", "UPLOADING"}
  /\ Set(u, "ABANDONED")
  /\ sweep' = IF upload[u].uid THEN [at |-> "enqueue", upload |-> u] ELSE sweep
  /\ UNCHANGED <<video, slot, jobs, hooks, request>>

SweepBegins(u) ==
  /\ sweep.at = "idle"
  /\ \/ /\ upload[u].status \in {"CREATED", "UPLOADING"}     \* expired or stale
        /\ Set(u, "ABANDONED")
        /\ sweep' = IF upload[u].uid THEN [at |-> "enqueue", upload |-> u] ELSE sweep
     \/ /\ upload[u].uid
        /\ \/ upload[u].status = "ABANDONED"
           \/ upload[u].status = "FAILED" /\ upload[u].lesson = None
        /\ sweep' = [at |-> "check", upload |-> u]
        /\ UNCHANGED upload
  /\ UNCHANGED <<video, slot, jobs, hooks, request>>

SweepChecks ==
  /\ sweep.at = "check"
  /\ sweep' = IF Users(sweep.upload) = {} THEN [sweep EXCEPT !.at = "enqueue"]
              ELSE [at |-> "idle", upload |-> None]
  /\ UNCHANGED <<upload, video, slot, jobs, hooks, request>>

SweepEnqueues ==
  /\ sweep.at = "enqueue"
  /\ Enqueue(sweep.upload)
  /\ sweep' = [at |-> "idle", upload |-> None]
  /\ UNCHANGED <<upload, video, slot, hooks, request>>

-----------------------------------------------------------------------------
Abort(r) ==
  /\ MayCrashMedia /\ ~ At(r, "idle")
  /\ Close(r)
  /\ UNCHANGED <<upload, video, slot, jobs, hooks, sweep>>

AbortSweep ==
  /\ MayCrashMedia /\ sweep.at # "idle"
  /\ sweep' = [at |-> "idle", upload |-> None]
  /\ UNCHANGED <<upload, video, slot, jobs, hooks, request>>

OpenRequest(r) ==
  \/ BeginReserve(r)
  \/ \E u \in Uploaded :
       \/ BeginComplete(r, u) \/ BeginPoll(r, u) \/ BeginDiscard(r, u)
       \/ \E l \in Slots : BeginAttach(r, u, l)
  \/ \E l \in Slots, emptied \in BOOLEAN : BeginClear(r, l, emptied)
  \/ \E l \in Slots : BeginRemoveLesson(r, l)

ServeRequest(r) ==
  \/ CreateRow(r) \/ InitTus(r) \/ SaveUid(r) \/ UndoTus(r) \/ MarkInitFailed(r)
  \/ AskProgress(r) \/ RecordProgress(r) \/ AskEncoding(r) \/ RecordEncoding(r)
  \/ MarkAbandoned(r) \/ EnqueueDelete(r)
  \/ CreateLesson(r) \/ LinkUpload(r) \/ ReplaceVideo(r) \/ ClearVideo(r)
  \/ DeleteLesson(r) \/ ReleaseVideo(r)

\* A transaction whose lesson is gone, or whose unique lessonId is taken, is refused.
Refused(r) ==
  /\ \/ request[r].at \in {"clear", "wipe", "remove"} /\ slot[request[r].slot] = Absent
     \/ At(r, "reserve") /\ \A u \in Uploaded : upload[u].status # "none"
     \/ At(r, "attach") /\ \E v \in Uploaded \ {request[r].upload, request[r].prior} :
                             upload[v].lesson = request[r].slot
  /\ Close(r)
  /\ UNCHANGED <<upload, video, slot, jobs, hooks, sweep>>

Sweep == (\E u \in Uploaded : SweepBegins(u)) \/ SweepChecks \/ SweepEnqueues \/ AbortSweep

UploadNext ==
  \/ \E r \in Requests : OpenRequest(r) \/ ServeRequest(r) \/ Refused(r) \/ Abort(r)
  \/ Sweep
  \/ \E u \in Uploaded : ReceiveBytes(u) \/ Encode(u) \/ DeleteVideo(u) \/ FailDelete(u)
  \/ \E hook \in hooks : ReceiveHook(hook)
  \/ \E from, to \in Slots : CopyLesson(from, to)

UploadSpec == UploadInit /\ [][UploadNext]_mediaVars

\* Requests run on; the hourly sweep comes back to every row; answering, sweeping,
\* queueing and deleting may fail, but not always.  Nothing makes the owner's page
\* poll: it stops when the page is closed, and the sweep passes PROCESSING rows by.
UploadFairSpec ==
  /\ UploadSpec
  /\ \A r \in Requests : WF_mediaVars(ServeRequest(r) \/ Refused(r))
  /\ \A u \in Uploaded :
       /\ SF_mediaVars(\E r \in Requests : AskEncoding(r) /\ request[r].upload = u)
       /\ SF_mediaVars(\E r \in Requests : RecordEncoding(r) /\ request[r].upload = u)
       /\ SF_mediaVars(SweepBegins(u))
       /\ SF_mediaVars(SweepChecks /\ sweep.upload = u)
       /\ SF_mediaVars(SweepEnqueues /\ u \in jobs' \ jobs)
       /\ SF_mediaVars(DeleteVideo(u))

-----------------------------------------------------------------------------
(* Properties. *)

\* Playback is offered for READY uploads: Cloudflare had encoded the video, whatever
\* answers arrived late, and it is a different matter whether it was deleted since.
ReadyWasEncoded ==
  \A u \in Uploaded : upload[u].status = "READY" => video[u] \in {"ready", "deleted"}

\* upload.repository.ts: "Atomically marks READY only from a non-terminal encoding
\* state".  An upload that was discarded or swept comes back only through its owner's
\* own request that was under way, never through a late or repeated webhook or poll.
AbandonedStaysAbandoned ==
  [][\A u \in Uploaded :
       upload[u].status = "ABANDONED" /\ upload'[u].status # "ABANDONED"
         => \E r \in Requests : /\ request[r].upload = u
                                /\ request[r].at \in {"record", "save", "fail"}]_mediaVars

\* A video that its owner discarded or abandoned is deleted in the end, although the
\* discard may die before it queues the job, the queue may refuse and the job may fail.
AbandonedIsDeleted ==
  \A u \in Uploaded :
    (upload[u].status = "ABANDONED" /\ upload[u].uid /\ Users(u) = {})
      ~> (video[u] = "deleted" \/ upload[u].status # "ABANDONED" \/ Users(u) # {})

\* An owner who keeps a page open does not wait for ever once Cloudflare is done, even
\* if its webhook came before the PROCESSING that completeUpload writes over READY:
\* one of the page's polls settles the upload, although any of them may die.  (Without
\* the page it may stay PROCESSING for ever, if the webhook does not come again.)
Polled(u) == \E r \in Requests : At(r, "pollAsk") /\ request[r].upload = u

EncodingSettlesWhilePolled ==
  \A u \in Uploaded :
    []<>Polled(u)
      => []<>(upload[u].status # "PROCESSING" \/ video[u] \notin {"ready", "failed"})
=============================================================================
