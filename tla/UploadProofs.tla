---------------------------- MODULE UploadProofs ----------------------------
(***************************************************************************)
(* Uploads proved for every number of uploads, lessons and requests.       *)
(***************************************************************************)
EXTENDS Uploads, TLAPS

-----------------------------------------------------------------------------
(* The invariant. *)

\* A request or the sweep names an upload wherever the code goes on with one.
NamesUpload ==
  /\ \A r \in Requests :
       /\ request[r].at \in {"init", "save", "undo", "fail", "ask", "record", "pollAsk", "poll",
                            "abandon", "attach", "link"}
            => request[r].upload \in Uploaded
       /\ request[r].at \in {"clear", "wipe", "release", "enqueue"}
            => request[r].prior \in Uploaded
  /\ sweep.at # "idle" => sweep.upload \in Uploaded

Encoded(u) == video[u] \in {"ready", "deleted"}

\* A request carries Cloudflare's answer that the video is encoded.
HeardReady(r, u) ==
  request[r].at \in {"record", "poll"} /\ request[r].saw = "ready" /\ request[r].upload = u

\* Nobody has heard, or will be told, that the video is encoded.
Fresh(u) ==
  /\ video[u] \in {"none", "deleted"}
  /\ upload[u].status # "READY"
  /\ <<u, "ready">> \notin hooks
  /\ \A r \in Requests : ~ HeardReady(r, u)

Answers ==
  \A u \in Uploaded :
    /\ upload[u].status = "READY" => Encoded(u)
    /\ <<u, "ready">> \in hooks => Encoded(u)
    /\ \A r \in Requests : HeardReady(r, u) => Encoded(u)

\* One request at most is about to ask Cloudflare for the video of an upload, and
\* until then the upload is fresh.
Starts ==
  /\ \A u \in Uploaded : upload[u].status = "none" => Fresh(u)
  /\ \A r \in Requests : request[r].at = "init" =>
       /\ upload[request[r].upload].status # "none" /\ Fresh(request[r].upload)
       /\ \A q \in Requests :
            request[q].at = "init" /\ request[q].upload = request[r].upload => q = r

UploadInv == UploadTypeOK /\ NamesUpload /\ Answers /\ Starts

LEMMA UploadInit_Inv == UploadInit => UploadInv
<1> SUFFICES ASSUME UploadInit PROVE UploadInv
  OBVIOUS
<1>1. UploadTypeOK
  BY UploadAssumption
     DEF UploadInit, UploadTypeOK, UploadRow, UploadStatus, VideoState, RequestState, Free, None
<1>2. NamesUpload
  BY DEF UploadInit, NamesUpload, Free
<1>3. Answers /\ Starts
  BY DEF UploadInit, Answers, Starts, Fresh, HeardReady, Free
<1> QED
  BY <1>1, <1>2, <1>3 DEF UploadInv

-----------------------------------------------------------------------------
(* What the small writes of the model do. *)

Ats == {"idle", "reserve", "init", "save", "undo", "fail", "ask", "record", "pollAsk", "poll",
        "abandon", "enqueue", "attach", "link", "clear", "wipe", "remove", "release"}

LEMMA Open_Lemma ==
  ASSUME UploadTypeOK, NEW r \in Requests, NEW at \in Ats, NEW u \in 0..MaxUploads,
         NEW l \in Slots \cup {None}, NEW p \in 0..MaxUploads, Open(r, at, u, l, p)
  PROVE  /\ request' \in [Requests -> RequestState]
         /\ request'[r] = [at |-> at, upload |-> u, slot |-> l, prior |-> p, saw |-> "none"]
         /\ \A q \in Requests : q # r => request'[q] = request[q]
<1>1. [at |-> at, upload |-> u, slot |-> l, prior |-> p, saw |-> "none"] \in RequestState
  BY DEF Ats, RequestState, VideoState
<1> QED
  BY <1>1 DEF Open, UploadTypeOK

LEMMA Close_Lemma ==
  ASSUME UploadTypeOK, NEW r \in Requests, Close(r)
  PROVE  /\ request' \in [Requests -> RequestState]
         /\ request'[r] = Free /\ request'[r].at = "idle"
         /\ \A q \in Requests : q # r => request'[q] = request[q]
<1>1. Free \in RequestState /\ Free.at = "idle"
  BY UploadAssumption DEF Free, RequestState, VideoState, None
<1> QED
  BY <1>1 DEF Close, UploadTypeOK

LEMMA Goto_Lemma ==
  ASSUME UploadTypeOK, NEW r \in Requests, NEW at \in Ats, Goto(r, at)
  PROVE  /\ request' \in [Requests -> RequestState]
         /\ request'[r].at = at /\ request'[r].upload = request[r].upload
         /\ request'[r].prior = request[r].prior
         /\ \A q \in Requests : q # r => request'[q] = request[q]
<1>1. request[r] \in RequestState /\ request \in [Requests -> RequestState]
  BY DEF UploadTypeOK
<1>2. request' = [request EXCEPT ![r] = [request[r] EXCEPT !.at = at]]
  BY DEF Goto
<1>3. /\ [request[r] EXCEPT !.at = at] \in RequestState
      /\ [request[r] EXCEPT !.at = at].at = at
      /\ [request[r] EXCEPT !.at = at].upload = request[r].upload
      /\ [request[r] EXCEPT !.at = at].prior = request[r].prior
  BY <1>1 DEF RequestState, Ats
<1> QED
  BY <1>1, <1>2, <1>3

LEMMA Set_Lemma ==
  ASSUME UploadTypeOK, NEW u \in Uploaded, NEW status \in UploadStatus, Set(u, status)
  PROVE  /\ upload' \in [Uploaded -> UploadRow]
         /\ upload'[u].status = status
         /\ \A v \in Uploaded : v # u => upload'[v] = upload[v]
<1>1. upload[u] \in UploadRow /\ upload \in [Uploaded -> UploadRow]
  BY DEF UploadTypeOK
<1>2. upload' = [upload EXCEPT ![u] = [upload[u] EXCEPT !.status = status]]
  BY DEF Set
<1>3. /\ [upload[u] EXCEPT !.status = status] \in UploadRow
      /\ [upload[u] EXCEPT !.status = status].status = status
  BY <1>1 DEF UploadRow
<1> QED
  BY <1>1, <1>2, <1>3

\* Detaching uploads from a lesson leaves their status alone.
LEMMA Detached_Lemma ==
  ASSUME UploadTypeOK, NEW S, NEW l
  PROVE  /\ Detached(S, l) \in [Uploaded -> UploadRow]
         /\ \A v \in Uploaded : Detached(S, l)[v].status = upload[v].status
<1>1. ASSUME NEW v \in Uploaded
      PROVE  /\ [upload[v] EXCEPT !.lesson = None] \in UploadRow
             /\ [upload[v] EXCEPT !.lesson = None].status = upload[v].status
  <2>1. upload[v] \in UploadRow
    BY DEF UploadTypeOK
  <2> QED
    BY <2>1 DEF UploadRow
<1>2. ASSUME NEW v \in Uploaded
      PROVE  Detached(S, l)[v] \in UploadRow /\ Detached(S, l)[v].status = upload[v].status
  BY <1>1 DEF Detached, UploadTypeOK
<1> QED
  BY <1>2 DEF Detached

LEMMA Hear_Lemma ==
  ASSUME UploadTypeOK, NEW r \in Requests, NEW at \in Ats, NEW saw \in VideoState,
         Hear(r, at, saw)
  PROVE  /\ request' \in [Requests -> RequestState]
         /\ request'[r].at = at /\ request'[r].upload = request[r].upload
         /\ request'[r].prior = request[r].prior /\ request'[r].saw = saw
         /\ \A q \in Requests : q # r => request'[q] = request[q]
<1>1. request[r] \in RequestState /\ request \in [Requests -> RequestState]
  BY DEF UploadTypeOK
<1>2. request' = [request EXCEPT ![r] = [request[r] EXCEPT !.at = at, !.saw = saw]]
  BY <1>1 DEF Hear
<1>3. /\ [request[r] EXCEPT !.at = at, !.saw = saw] \in RequestState
      /\ [request[r] EXCEPT !.at = at, !.saw = saw].at = at
      /\ [request[r] EXCEPT !.at = at, !.saw = saw].upload = request[r].upload
      /\ [request[r] EXCEPT !.at = at, !.saw = saw].prior = request[r].prior
      /\ [request[r] EXCEPT !.at = at, !.saw = saw].saw = saw
  BY <1>1 DEF RequestState, Ats
<1> QED
  BY <1>1, <1>2, <1>3

-----------------------------------------------------------------------------
(* What a request that asks, or ends, does. *)

\* A step that leaves the rows, the videos and the webhooks alone keeps the invariant if
\* whoever hears of a video now hears the truth.
LEMMA Quiet_Inv ==
  ASSUME UploadInv, NEW r \in Requests,
         UNCHANGED <<upload, video, hooks>>, UploadTypeOK', NamesUpload',
         \A q \in Requests : q # r => request'[q] = request[q],
         request'[r].at # "init",
         request'[r].at \in {"record", "poll"} => request'[r].saw = video[request'[r].upload]
  PROVE  UploadInv'
<1>1. ASSUME NEW q \in Requests, NEW u \in Uploaded, HeardReady(q, u)'
      PROVE  Encoded(u) /\ (HeardReady(q, u) \/ video[u] = "ready")
  <2>1. CASE q = r
    BY <1>1, <2>1 DEF HeardReady, Encoded
  <2>2. CASE q # r
    BY <1>1, <2>2 DEF HeardReady, UploadInv, Answers
  <2> QED
    BY <2>1, <2>2
<1>2. Answers'
  BY <1>1 DEF UploadInv, Answers, Encoded
<1>3. ASSUME NEW u \in Uploaded, Fresh(u) PROVE Fresh(u)'
  BY <1>1, <1>3 DEF Fresh
<1>4. ASSUME NEW q \in Requests, request'[q].at = "init"
      PROVE  request'[q] = request[q] /\ request[q].upload \in Uploaded
  BY <1>4 DEF UploadInv, NamesUpload
<1>5. Starts'
  BY <1>3, <1>4 DEF UploadInv, Starts
<1> QED
  BY <1>2, <1>5 DEF UploadInv

\* Every request starts this way.
LEMMA Open_Inv ==
  ASSUME UploadInv, NEW r \in Requests,
         NEW at \in {"reserve", "ask", "pollAsk", "abandon", "attach", "clear", "wipe", "remove"},
         NEW u \in 0..MaxUploads, NEW l \in Slots \cup {None}, NEW p \in 0..MaxUploads,
         Open(r, at, u, l, p),
         at \in {"ask", "pollAsk", "abandon", "attach"} => u \in Uploaded,
         at \in {"clear", "wipe"} => p \in Uploaded,
         UNCHANGED <<upload, video, slot, jobs, hooks, sweep>>
  PROVE  UploadInv'
<1>1. UploadTypeOK /\ NamesUpload /\ at \in Ats
  BY DEF UploadInv, Ats
<1>2. /\ request' \in [Requests -> RequestState]
      /\ request'[r] = [at |-> at, upload |-> u, slot |-> l, prior |-> p, saw |-> "none"]
      /\ \A q \in Requests : q # r => request'[q] = request[q]
  BY <1>1, Open_Lemma
<1>3. UploadTypeOK'
  BY <1>1, <1>2 DEF UploadTypeOK
<1>4. NamesUpload'
  BY <1>1, <1>2 DEF NamesUpload
<1> QED
  BY <1>2, <1>3, <1>4, Quiet_Inv

LEMMA OpenRequest_Inv ==
  ASSUME UploadInv, NEW r \in Requests, OpenRequest(r)
  PROVE  UploadInv'
<1> USE UploadAssumption
<1>0. slot \in [Slots -> {Absent} \cup 0..MaxUploads]
  BY DEF UploadInv, UploadTypeOK
<1>1. CASE BeginReserve(r)
  BY <1>1, Open_Inv DEF BeginReserve, None
<1>2. ASSUME NEW u \in Uploaded, BeginComplete(r, u) \/ BeginPoll(r, u) PROVE UploadInv'
  BY <1>2, Open_Inv DEF BeginComplete, BeginPoll, Uploaded, None
<1>3. ASSUME NEW u \in Uploaded, BeginDiscard(r, u) PROVE UploadInv'
  <2>1. u \in 0..MaxUploads /\ (IF upload[u].uid THEN u ELSE None) \in 0..MaxUploads
    BY DEF Uploaded, None
  <2> QED
    BY <1>3, <2>1, Open_Inv DEF BeginDiscard
<1>4. ASSUME NEW u \in Uploaded, NEW l \in Slots, BeginAttach(r, u, l) PROVE UploadInv'
  <2>1. u \in 0..MaxUploads /\ (IF slot[l] = Absent THEN None ELSE slot[l]) \in 0..MaxUploads
    BY <1>0 DEF Uploaded, None
  <2> QED
    BY <1>4, <2>1, Open_Inv DEF BeginAttach
<1>5. ASSUME NEW l \in Slots, NEW emptied \in BOOLEAN, BeginClear(r, l, emptied) PROVE UploadInv'
  <2>1. slot[l] \in Uploaded /\ slot[l] \in 0..MaxUploads /\ None \in 0..MaxUploads
    BY <1>5 DEF BeginClear, Uploaded, None
  <2>2. (IF emptied THEN "wipe" ELSE "clear") \in {"wipe", "clear"}
    OBVIOUS
  <2> QED
    BY <1>5, <2>1, <2>2, Open_Inv DEF BeginClear
<1>6. ASSUME NEW l \in Slots, BeginRemoveLesson(r, l) PROVE UploadInv'
  <2>1. slot[l] \in 0..MaxUploads /\ None \in 0..MaxUploads
    BY <1>0, <1>6 DEF BeginRemoveLesson, None
  <2> QED
    BY <1>6, <2>1, Open_Inv DEF BeginRemoveLesson
<1> QED
  BY <1>1, <1>2, <1>3, <1>4, <1>5, <1>6 DEF OpenRequest

\* A request that is refused or dies changes nothing else.
LEMMA Close_Inv ==
  ASSUME UploadInv, NEW r \in Requests, Close(r),
         UNCHANGED <<upload, video, slot, jobs, hooks, sweep>>
  PROVE  UploadInv'
<1>1. UploadTypeOK /\ NamesUpload
  BY DEF UploadInv
<1>2. UploadTypeOK'
  BY <1>1, Close_Lemma DEF UploadTypeOK
<1>3. NamesUpload'
  BY <1>1, Close_Lemma DEF NamesUpload
<1> QED
  BY <1>1, <1>2, <1>3, Close_Lemma, Quiet_Inv

\* The answers that requests hear are Cloudflare's.
LEMMA Ask_Inv ==
  ASSUME UploadInv, NEW r \in Requests, AskProgress(r) \/ AskEncoding(r)
  PROVE  UploadInv'
<1>0. UploadTypeOK /\ NamesUpload /\ request[r].upload \in Uploaded
  BY DEF UploadInv, NamesUpload, AskProgress, AskEncoding, At
<1>1. CASE Close(r)
  BY <1>1, Close_Inv DEF AskProgress, AskEncoding
<1>2. ASSUME NEW at \in {"record", "poll"}, Hear(r, at, video[request[r].upload])
      PROVE  UploadInv'
  <2>1. video[request[r].upload] \in VideoState /\ at \in Ats
    BY <1>0, <1>2 DEF UploadTypeOK, Ats
  <2>2. /\ request' \in [Requests -> RequestState]
        /\ request'[r].at = at /\ request'[r].upload = request[r].upload
        /\ request'[r].prior = request[r].prior
        /\ request'[r].saw = video[request[r].upload]
        /\ \A q \in Requests : q # r => request'[q] = request[q]
    BY <1>0, <1>2, <2>1, Hear_Lemma
  <2>3. UNCHANGED <<upload, video, slot, jobs, hooks, sweep>>
    BY DEF AskProgress, AskEncoding
  <2>4. UploadTypeOK'
    BY <1>0, <2>2, <2>3 DEF UploadTypeOK
  <2>5. NamesUpload'
    BY <1>0, <2>2, <2>3 DEF NamesUpload
  <2> QED
    BY <2>2, <2>3, <2>4, <2>5, Quiet_Inv
<1> QED
  BY <1>1, <1>2 DEF AskProgress, AskEncoding

-----------------------------------------------------------------------------
(* What a request or the sweep does to the rows. *)

\* Rows may change while the videos do not: nobody starts, nobody hears, and a row
\* becomes READY only because of an answer or a webhook that says so.
LEMMA Rows_Inv ==
  ASSUME UploadInv, UploadTypeOK', NamesUpload', UNCHANGED <<video, hooks>>,
         \A q \in Requests : \/ request'[q] = request[q]
                             \/ request'[q].at \notin {"init", "record", "poll"},
         \A u \in Uploaded :
           \/ upload'[u].status = upload[u].status
           \/ /\ upload'[u].status # "none"
              /\ upload'[u].status = "READY" =>
                   <<u, "ready">> \in hooks \/ \E q \in Requests : HeardReady(q, u)
  PROVE  UploadInv'
<1>1. \A q \in Requests, u \in Uploaded : HeardReady(q, u)' => HeardReady(q, u)
  BY DEF HeardReady
<1>2. Answers'
  BY <1>1 DEF UploadInv, Answers, Encoded
<1>3. ASSUME NEW u \in Uploaded, Fresh(u) PROVE Fresh(u)'
  BY <1>1, <1>3 DEF Fresh
<1>4. ASSUME NEW q \in Requests, request'[q].at = "init"
      PROVE  request'[q] = request[q] /\ request[q].upload \in Uploaded
  BY <1>4 DEF UploadInv, NamesUpload
<1>5. Starts'
  BY <1>3, <1>4 DEF UploadInv, Starts
<1> QED
  BY <1>2, <1>5 DEF UploadInv

\* One row gets a new status.
LEMMA Set_Inv ==
  ASSUME UploadInv, NEW u \in Uploaded, NEW status \in UploadStatus, Set(u, status),
         status # "none",
         status = "READY" => <<u, "ready">> \in hooks \/ \E q \in Requests : HeardReady(q, u),
         UNCHANGED <<video, slot, jobs, hooks>>,
         request' \in [Requests -> RequestState], NamesUpload',
         sweep' \in [at : {"idle", "check", "enqueue"}, upload : 0..MaxUploads],
         \A q \in Requests : \/ request'[q] = request[q]
                             \/ request'[q].at \notin {"init", "record", "poll"}
  PROVE  UploadInv'
<1>1. UploadTypeOK
  BY DEF UploadInv
<1>2. /\ upload' \in [Uploaded -> UploadRow]
      /\ upload'[u].status = status
      /\ \A v \in Uploaded : v # u => upload'[v] = upload[v]
  BY <1>1, Set_Lemma
<1>3. UploadTypeOK'
  BY <1>1, <1>2 DEF UploadTypeOK
<1> QED
  BY <1>2, <1>3, Rows_Inv

\* A request writes a status and ends.
LEMMA SetAndClose_Inv ==
  ASSUME UploadInv, NEW r \in Requests, NEW status \in UploadStatus,
         request[r].upload \in Uploaded, Set(request[r].upload, status), status # "none",
         status = "READY" => HeardReady(r, request[r].upload), Close(r),
         UNCHANGED <<video, slot, jobs, hooks, sweep>>
  PROVE  UploadInv'
<1>1. UploadTypeOK /\ NamesUpload
  BY DEF UploadInv
<1>2. /\ request' \in [Requests -> RequestState] /\ request'[r].at = "idle"
      /\ \A q \in Requests : q # r => request'[q] = request[q]
  BY <1>1, Close_Lemma
<1>3. NamesUpload'
  BY <1>1, <1>2 DEF NamesUpload
<1> QED
  BY <1>1, <1>2, <1>3, Set_Inv DEF UploadTypeOK

LEMMA CreateRow_Inv ==
  ASSUME UploadInv, NEW r \in Requests, CreateRow(r)
  PROVE  UploadInv'
<1>1. PICK u \in Uploaded :
        /\ upload[u].status = "none" /\ Set(u, "CREATED")
        /\ request' = [request EXCEPT ![r].at = "init", ![r].upload = u]
  BY DEF CreateRow
<1>2. UploadTypeOK /\ NamesUpload /\ u \in 0..MaxUploads /\ "CREATED" \in UploadStatus
  BY UploadAssumption DEF UploadInv, Uploaded, UploadStatus, Transient
<1>3. request[r] \in RequestState /\ request \in [Requests -> RequestState]
  BY <1>2 DEF UploadTypeOK
<1>4. /\ [request[r] EXCEPT !.at = "init", !.upload = u] \in RequestState
      /\ [request[r] EXCEPT !.at = "init", !.upload = u].at = "init"
      /\ [request[r] EXCEPT !.at = "init", !.upload = u].upload = u
  BY <1>2, <1>3 DEF RequestState
<1>5. /\ request' \in [Requests -> RequestState]
      /\ request'[r].at = "init" /\ request'[r].upload = u
      /\ \A q \in Requests : q # r => request'[q] = request[q]
  BY <1>1, <1>3, <1>4
<1>6. /\ upload' \in [Uploaded -> UploadRow] /\ upload'[u].status = "CREATED"
      /\ \A v \in Uploaded : v # u => upload'[v] = upload[v]
  BY <1>1, <1>2, Set_Lemma
<1>7. UNCHANGED <<video, slot, jobs, hooks, sweep>>
  BY DEF CreateRow
<1>8. UploadTypeOK'
  BY <1>2, <1>5, <1>6, <1>7 DEF UploadTypeOK
<1>9. NamesUpload'
  BY <1>2, <1>5, <1>7 DEF NamesUpload
<1>10. \A q \in Requests, v \in Uploaded : HeardReady(q, v)' => HeardReady(q, v)
  BY <1>5 DEF HeardReady
<1>11. Answers'
  BY <1>6, <1>7, <1>10 DEF UploadInv, Answers, Encoded
<1>12. ASSUME NEW v \in Uploaded, Fresh(v) PROVE Fresh(v)'
  BY <1>6, <1>7, <1>10, <1>12 DEF Fresh
<1>13. Fresh(u)
  BY <1>1 DEF UploadInv, Starts
<1>14. ASSUME NEW q \in Requests, q # r, request[q].at = "init"
       PROVE  request[q].upload \in Uploaded /\ request[q].upload # u
  BY <1>1, <1>2, <1>14 DEF NamesUpload, UploadInv, Starts
<1>15. \A v \in Uploaded : upload'[v].status = "none" => Fresh(v)'
  BY <1>6, <1>12 DEF UploadInv, Starts
<1>16. ASSUME NEW q \in Requests, request'[q].at = "init"
       PROVE  /\ upload'[request'[q].upload].status # "none" /\ Fresh(request[q].upload)'
              /\ \A p \in Requests :
                   request'[p].at = "init" /\ request'[p].upload = request'[q].upload => p = q
  <2>1. CASE q = r
    BY <1>5, <1>6, <1>12, <1>13, <1>14, <2>1
  <2>2. CASE q # r
    BY <1>5, <1>6, <1>12, <1>14, <1>16, <2>2 DEF UploadInv, Starts
  <2> QED
    BY <2>1, <2>2
<1>17. Starts'
  BY <1>15, <1>16 DEF Starts
<1> QED
  BY <1>8, <1>9, <1>11, <1>17 DEF UploadInv

LEMMA SaveUid_Inv ==
  ASSUME UploadInv, NEW r \in Requests, SaveUid(r)
  PROVE  UploadInv'
<1>1. UploadTypeOK /\ NamesUpload /\ request[r].upload \in Uploaded
  BY DEF UploadInv, NamesUpload, SaveUid, At
<1>2. CASE Close(r)
  <2>1. CASE UNCHANGED upload
    BY <1>2, <2>1, Close_Inv DEF SaveUid
  <2>2. CASE upload' = [upload EXCEPT ![request[r].upload].status = "UPLOADING",
                                      ![request[r].upload].uid = TRUE]
    <3> DEFINE u == request[r].upload
               row == [upload[u] EXCEPT !.status = "UPLOADING", !.uid = TRUE]
    <3>1. upload[u] \in UploadRow /\ upload \in [Uploaded -> UploadRow] /\ u \in Uploaded
      BY <1>1 DEF UploadTypeOK
    <3>2. row \in UploadRow /\ row.status = "UPLOADING"
      BY <3>1 DEF UploadRow, UploadStatus, Transient
    <3>3. upload' = [upload EXCEPT ![u] = row]
      BY <2>2, <3>1
    <3>4. /\ upload' \in [Uploaded -> UploadRow] /\ upload'[u].status = "UPLOADING"
          /\ \A v \in Uploaded : v # u => upload'[v] = upload[v]
      BY <3>1, <3>2, <3>3
    <3>5. UploadTypeOK'
      BY <1>1, <1>2, <3>4, Close_Lemma DEF SaveUid, UploadTypeOK
    <3>6. NamesUpload'
      BY <1>1, <1>2, Close_Lemma DEF SaveUid, NamesUpload
    <3> QED
      BY <1>1, <1>2, <3>4, <3>5, <3>6, Close_Lemma, Rows_Inv DEF SaveUid
  <2> QED
    BY <1>2, <2>1, <2>2 DEF SaveUid, Goto
<1>3. CASE UNCHANGED upload /\ Goto(r, "undo")
  <2>1. "undo" \in Ats
    BY DEF Ats
  <2>2. UploadTypeOK'
    BY <1>1, <1>3, <2>1, Goto_Lemma DEF SaveUid, UploadTypeOK
  <2>3. NamesUpload'
    BY <1>1, <1>3, <2>1, Goto_Lemma DEF SaveUid, NamesUpload
  <2> QED
    BY <1>1, <1>3, <2>1, <2>2, <2>3, Goto_Lemma, Quiet_Inv DEF SaveUid
<1> QED
  BY <1>2, <1>3 DEF SaveUid

\* MediaService writes the outcome it has, whatever the row says by now.
LEMMA Record_Inv ==
  ASSUME UploadInv, NEW r \in Requests,
         MarkInitFailed(r) \/ RecordProgress(r) \/ RecordEncoding(r)
  PROVE  UploadInv'
<1>0. UploadTypeOK /\ NamesUpload /\ request[r].upload \in Uploaded
  BY DEF UploadInv, NamesUpload, MarkInitFailed, RecordProgress, RecordEncoding, At
<1>1. CASE MarkInitFailed(r)
  BY <1>0, <1>1, SetAndClose_Inv DEF MarkInitFailed, UploadStatus
<1>2. CASE RecordProgress(r)
  <2> DEFINE status == CASE request[r].saw = "failed" -> "FAILED"
                         [] request[r].saw = "ready"  -> "READY"
                         [] OTHER                     -> "PROCESSING"
  <2>1. /\ status \in UploadStatus /\ status # "none"
        /\ status = "READY" => request[r].saw = "ready"
    BY DEF UploadStatus, Transient
  <2>2. Set(request[r].upload, status) /\ Close(r) /\ At(r, "record")
    BY <1>2 DEF RecordProgress
  <2>3. status = "READY" => HeardReady(r, request[r].upload)
    BY <2>1, <2>2 DEF HeardReady, At
  <2> HIDE DEF status
  <2> QED
    BY <1>0, <1>2, <2>1, <2>2, <2>3, SetAndClose_Inv DEF RecordProgress
<1>3. CASE RecordEncoding(r)
  <2>1. CASE upload[request[r].upload].status \in Transient
    <3> DEFINE status == IF request[r].saw = "ready" THEN "READY" ELSE "FAILED"
    <3>1. /\ status \in UploadStatus /\ status # "none"
          /\ status = "READY" => request[r].saw = "ready"
      BY DEF UploadStatus
    <3>2. Set(request[r].upload, status) /\ Close(r) /\ At(r, "poll")
      BY <1>3, <2>1 DEF RecordEncoding, Settled
    <3>3. status = "READY" => HeardReady(r, request[r].upload)
      BY <3>1, <3>2 DEF HeardReady, At
    <3> HIDE DEF status
    <3> QED
      BY <1>0, <1>3, <3>1, <3>2, <3>3, SetAndClose_Inv DEF RecordEncoding
  <2>2. CASE upload[request[r].upload].status \notin Transient
    BY <1>3, <2>2, Close_Inv DEF RecordEncoding, Settled
  <2> QED
    BY <2>1, <2>2
<1> QED
  BY <1>1, <1>2, <1>3

LEMMA MarkAbandoned_Inv ==
  ASSUME UploadInv, NEW r \in Requests, MarkAbandoned(r)
  PROVE  UploadInv'
<1>1. UploadTypeOK /\ NamesUpload /\ request[r].upload \in Uploaded
  BY DEF UploadInv, NamesUpload, MarkAbandoned, At
<1>2. "ABANDONED" \in UploadStatus
  BY DEF UploadStatus
<1>3. CASE Close(r)
  BY <1>1, <1>2, <1>3, SetAndClose_Inv DEF MarkAbandoned
<1>4. CASE request[r].prior # None /\ Goto(r, "enqueue")
  <2>1. "enqueue" \in Ats /\ request[r].prior \in Uploaded
    BY <1>1, <1>4, UploadAssumption DEF Ats, UploadTypeOK, RequestState, None, Uploaded
  <2>2. /\ request' \in [Requests -> RequestState] /\ request'[r].at = "enqueue"
        /\ request'[r].prior = request[r].prior
        /\ \A q \in Requests : q # r => request'[q] = request[q]
    BY <1>1, <1>4, <2>1, Goto_Lemma
  <2>3. NamesUpload'
    BY <1>1, <2>1, <2>2 DEF MarkAbandoned, NamesUpload
  <2> QED
    BY <1>1, <1>2, <2>2, <2>3, Set_Inv DEF MarkAbandoned, UploadTypeOK
<1> QED
  BY <1>3, <1>4 DEF MarkAbandoned

\* What a request on a lesson does next: it goes on or ends, and rows keep their status.
LEMMA Lesson_Inv ==
  ASSUME UploadInv, NEW r \in Requests, UNCHANGED <<video, jobs, hooks, sweep>>,
         Close(r) \/ (\E at \in {"link", "release", "enqueue"} :
                       /\ Goto(r, at)
                       /\ at = "link" => request[r].upload \in Uploaded
                       /\ at \in {"release", "enqueue"} => request[r].prior \in Uploaded),
         upload' \in [Uploaded -> UploadRow],
         \A u \in Uploaded : upload'[u].status = upload[u].status,
         slot' \in [Slots -> {Absent} \cup 0..MaxUploads]
  PROVE  UploadInv'
<1>1. UploadTypeOK /\ NamesUpload
  BY DEF UploadInv
<1>2. /\ request' \in [Requests -> RequestState]
      /\ \A q \in Requests : q # r => request'[q] = request[q]
      /\ request'[r].at \in {"idle", "link", "release", "enqueue"}
      /\ request'[r].at = "link" => request'[r].upload \in Uploaded
      /\ request'[r].at \in {"release", "enqueue"} => request'[r].prior \in Uploaded
  <2>1. CASE Close(r)
    BY <1>1, <2>1, Close_Lemma
  <2>2. CASE ~ Close(r)
    <3>1. PICK at \in {"link", "release", "enqueue"} :
            /\ Goto(r, at)
            /\ at = "link" => request[r].upload \in Uploaded
            /\ at \in {"release", "enqueue"} => request[r].prior \in Uploaded
      BY <2>2
    <3>2. at \in Ats
      BY DEF Ats
    <3> QED
      BY <1>1, <3>1, <3>2, Goto_Lemma
  <2> QED
    BY <2>1, <2>2
<1>3. UploadTypeOK'
  BY <1>1, <1>2 DEF UploadTypeOK
<1>4. NamesUpload'
  BY <1>1, <1>2 DEF NamesUpload
<1>5. \A q \in Requests : \/ request'[q] = request[q]
                         \/ request'[q].at \notin {"init", "record", "poll"}
  BY <1>2
<1> QED
  BY <1>3, <1>4, <1>5, Rows_Inv

LEMMA LessonSteps_Inv ==
  ASSUME UploadInv, NEW r \in Requests,
         \/ CreateLesson(r) \/ LinkUpload(r) \/ ReplaceVideo(r) \/ ClearVideo(r)
         \/ DeleteLesson(r) \/ ReleaseVideo(r)
  PROVE  UploadInv'
<1>1. /\ UploadTypeOK /\ NamesUpload /\ upload \in [Uploaded -> UploadRow]
      /\ slot \in [Slots -> {Absent} \cup 0..MaxUploads]
      /\ None \in 0..MaxUploads /\ request[r] \in RequestState
      /\ request[r].upload \in 0..MaxUploads
      /\ request[r].prior # None => request[r].prior \in Uploaded
      /\ request[r].slot \in Slots \cup {None}
  BY UploadAssumption DEF UploadInv, UploadTypeOK, RequestState, None, Uploaded
<1>2. CASE CreateLesson(r)
  <2>1. request[r].upload \in Uploaded /\ Goto(r, "link")
    BY <1>1, <1>2 DEF NamesUpload, CreateLesson, At
  <2>2. slot' \in [Slots -> {Absent} \cup 0..MaxUploads]
    BY <1>1, <1>2 DEF CreateLesson
  <2> QED
    BY <1>1, <1>2, <2>1, <2>2, Lesson_Inv DEF CreateLesson
<1>3. CASE LinkUpload(r)
  <2> DEFINE u == request[r].upload
             row == [upload[u] EXCEPT !.lesson = request[r].slot]
  <2>1. u \in Uploaded /\ upload[u] \in UploadRow
    BY <1>1, <1>3 DEF NamesUpload, LinkUpload, At
  <2>2. row \in UploadRow /\ row.status = upload[u].status
    BY <1>1, <2>1 DEF UploadRow
  <2>3. upload' = upload \/ upload' = [upload EXCEPT ![u] = row]
    BY <1>3 DEF LinkUpload
  <2>4. /\ upload' \in [Uploaded -> UploadRow]
        /\ \A v \in Uploaded : upload'[v].status = upload[v].status
    BY <1>1, <2>1, <2>2, <2>3
  <2> QED
    BY <1>1, <1>3, <2>4, Lesson_Inv DEF LinkUpload
<1>4. CASE ReplaceVideo(r)
  <2> DEFINE u == request[r].upload
             l == request[r].slot
             d == Detached({request[r].prior}, l)
             row == [d[u] EXCEPT !.lesson = l]
  <2>1. u \in Uploaded
    BY <1>1, <1>4 DEF NamesUpload, ReplaceVideo, At
  <2>2. d \in [Uploaded -> UploadRow] /\ \A v \in Uploaded : d[v].status = upload[v].status
    BY <1>1, Detached_Lemma
  <2>3. upload' = [d EXCEPT ![u] = row]
    BY <1>4 DEF ReplaceVideo
  <2> HIDE DEF d
  <2>4. row \in UploadRow /\ row.status = d[u].status
    BY <1>1, <2>1, <2>2 DEF UploadRow
  <2>5. /\ upload' \in [Uploaded -> UploadRow]
        /\ \A v \in Uploaded : upload'[v].status = upload[v].status
    BY <2>1, <2>2, <2>3, <2>4
  <2>6. slot' \in [Slots -> {Absent} \cup 0..MaxUploads]
    BY <1>1, <1>4 DEF ReplaceVideo
  <2> QED
    BY <1>1, <1>4, <2>5, <2>6, Lesson_Inv DEF ReplaceVideo
<1>5. CASE ClearVideo(r)
  <2>1. request[r].prior \in Uploaded /\ Goto(r, "release")
    BY <1>1, <1>5 DEF NamesUpload, ClearVideo, At
  <2>2. /\ upload' \in [Uploaded -> UploadRow]
        /\ \A v \in Uploaded : upload'[v].status = upload[v].status
    BY <1>1, <1>5, Detached_Lemma DEF ClearVideo
  <2>3. slot' \in [Slots -> {Absent} \cup 0..MaxUploads]
    BY <1>1, <1>5 DEF ClearVideo
  <2> QED
    BY <1>1, <1>5, <2>1, <2>2, <2>3, Lesson_Inv DEF ClearVideo
<1>6. CASE DeleteLesson(r)
  <2>1. /\ upload' \in [Uploaded -> UploadRow]
        /\ \A v \in Uploaded : upload'[v].status = upload[v].status
    BY <1>1, <1>6, Detached_Lemma DEF DeleteLesson
  <2>2. slot' \in [Slots -> {Absent} \cup 0..MaxUploads]
    BY <1>1, <1>6 DEF DeleteLesson
  <2> QED
    BY <1>1, <1>6, <2>1, <2>2, Lesson_Inv DEF DeleteLesson
<1>7. CASE ReleaseVideo(r)
  <2>1. request[r].prior \in Uploaded
    BY <1>1, <1>7 DEF NamesUpload, ReleaseVideo, At
  <2> QED
    BY <1>1, <1>7, <2>1, Lesson_Inv DEF ReleaseVideo
<1> QED
  BY <1>2, <1>3, <1>4, <1>5, <1>6, <1>7

LEMMA EnqueueDelete_Inv ==
  ASSUME UploadInv, NEW r \in Requests, EnqueueDelete(r)
  PROVE  UploadInv'
<1>1. UploadTypeOK /\ NamesUpload /\ request[r].prior \in Uploaded
  BY DEF UploadInv, NamesUpload, EnqueueDelete, At
<1>2. jobs' \subseteq Uploaded
  BY <1>1 DEF EnqueueDelete, Enqueue, UploadTypeOK
<1>3. /\ request' \in [Requests -> RequestState] /\ request'[r].at = "idle"
      /\ \A q \in Requests : q # r => request'[q] = request[q]
  BY <1>1, Close_Lemma DEF EnqueueDelete
<1>4. UploadTypeOK'
  BY <1>1, <1>2, <1>3 DEF EnqueueDelete, UploadTypeOK
<1>5. NamesUpload'
  BY <1>1, <1>3 DEF EnqueueDelete, NamesUpload
<1> QED
  BY <1>3, <1>4, <1>5, Quiet_Inv DEF EnqueueDelete

\* The sweep and the webhooks write rows too.
LEMMA Sweep_Inv ==
  ASSUME UploadInv, Sweep
  PROVE  UploadInv'
<1>1. UploadTypeOK /\ NamesUpload /\ None \in 0..MaxUploads
  BY UploadAssumption DEF UploadInv, None
<1>2. ASSUME NEW u \in Uploaded, SweepBegins(u) PROVE UploadInv'
  <2>1. u \in 0..MaxUploads /\ "ABANDONED" \in UploadStatus
    BY DEF Uploaded, UploadStatus
  <2>2. /\ sweep' \in [at : {"idle", "check", "enqueue"}, upload : 0..MaxUploads]
        /\ sweep'.at # "idle" => sweep'.upload \in Uploaded
    BY <1>1, <1>2, <2>1 DEF SweepBegins, UploadTypeOK, NamesUpload
  <2>3. NamesUpload'
    BY <1>1, <1>2, <2>2 DEF SweepBegins, NamesUpload
  <2>4. CASE Set(u, "ABANDONED")
    BY <1>1, <1>2, <2>1, <2>2, <2>3, <2>4, Set_Inv DEF SweepBegins, UploadTypeOK
  <2>5. CASE UNCHANGED upload
    <3>1. UploadTypeOK'
      BY <1>1, <1>2, <2>2, <2>5 DEF SweepBegins, UploadTypeOK
    <3> QED
      BY <1>2, <2>3, <2>5, <3>1, Rows_Inv DEF SweepBegins
  <2> QED
    BY <1>2, <2>4, <2>5 DEF SweepBegins
<1>3. CASE SweepChecks \/ SweepEnqueues \/ AbortSweep
  <2>1. sweep \in [at : {"idle", "check", "enqueue"}, upload : 0..MaxUploads]
    BY <1>1 DEF UploadTypeOK
  <2>2. sweep' \in [at : {"idle", "check", "enqueue"}, upload : 0..MaxUploads]
    BY <1>1, <1>3, <2>1 DEF SweepChecks, SweepEnqueues, AbortSweep
  <2>3. sweep'.at # "idle" => sweep'.upload \in Uploaded
    BY <1>1, <1>3, <2>1 DEF SweepChecks, SweepEnqueues, AbortSweep, NamesUpload
  <2>4. jobs' \subseteq Uploaded
    BY <1>1, <1>3 DEF SweepChecks, SweepEnqueues, AbortSweep, Enqueue, UploadTypeOK, NamesUpload
  <2>5. UNCHANGED <<upload, video, slot, hooks, request>>
    BY <1>3 DEF SweepChecks, SweepEnqueues, AbortSweep
  <2>6. UploadTypeOK'
    BY <1>1, <2>2, <2>4, <2>5 DEF UploadTypeOK
  <2>7. NamesUpload'
    BY <1>1, <2>3, <2>5 DEF NamesUpload
  <2> QED
    BY <2>5, <2>6, <2>7, Rows_Inv
<1> QED
  BY <1>2, <1>3 DEF Sweep

LEMMA ReceiveHook_Inv ==
  ASSUME UploadInv, NEW hook \in hooks, ReceiveHook(hook)
  PROVE  UploadInv'
<1>1. UploadTypeOK /\ NamesUpload
  BY DEF UploadInv
<1>2. PICK u \in Uploaded, outcome \in {"ready", "failed"} : hook = <<u, outcome>>
  BY <1>1 DEF UploadTypeOK
<1>3. Settled(u, outcome) /\ UNCHANGED <<video, slot, jobs, hooks, request, sweep>>
  BY <1>2 DEF ReceiveHook
<1>4. NamesUpload'
  BY <1>1, <1>3 DEF NamesUpload
<1>5. CASE upload[u].status \in Transient
  <2>1. CASE outcome = "ready"
    <3>1. Set(u, "READY") /\ "READY" \in UploadStatus /\ <<u, "ready">> \in hooks
      BY <1>2, <1>3, <1>5, <2>1 DEF Settled, UploadStatus
    <3> QED
      BY <1>1, <1>3, <1>4, <3>1, Set_Inv DEF UploadTypeOK
  <2>2. CASE outcome # "ready"
    <3>1. Set(u, "FAILED") /\ "FAILED" \in UploadStatus
      BY <1>3, <1>5, <2>2 DEF Settled, UploadStatus
    <3> QED
      BY <1>1, <1>3, <1>4, <3>1, Set_Inv DEF UploadTypeOK
  <2> QED
    BY <2>1, <2>2
<1>6. CASE upload[u].status \notin Transient
  <2>1. UNCHANGED <<upload, video, slot, jobs, hooks, request, sweep>>
    BY <1>3, <1>6 DEF Settled
  <2>2. UploadTypeOK'
    BY <1>1, <2>1 DEF UploadTypeOK
  <2> QED
    BY <1>4, <2>1, <2>2, Rows_Inv
<1> QED
  BY <1>5, <1>6

LEMMA CopyLesson_Inv ==
  ASSUME UploadInv, NEW from \in Slots, NEW to \in Slots, CopyLesson(from, to)
  PROVE  UploadInv'
<1>1. UploadTypeOK'
  BY DEF UploadInv, CopyLesson, UploadTypeOK
<1>2. NamesUpload'
  BY DEF UploadInv, CopyLesson, NamesUpload
<1> QED
  BY <1>1, <1>2, Rows_Inv DEF CopyLesson

-----------------------------------------------------------------------------
(* What happens to the videos. *)

\* A fresh upload's video may be asked for; nobody has heard of it.
LEMMA InitTus_Inv ==
  ASSUME UploadInv, NEW r \in Requests, InitTus(r)
  PROVE  UploadInv'
<1> DEFINE u == request[r].upload
<1>1. /\ UploadTypeOK /\ NamesUpload /\ u \in Uploaded /\ Fresh(u)
      /\ upload[u].status # "none"
      /\ \A q \in Requests : request[q].at = "init" /\ request[q].upload = u => q = r
  BY DEF UploadInv, NamesUpload, Starts, InitTus, At
<1>2. PICK at \in {"save", "fail"} : Goto(r, at)
  BY DEF InitTus
<1>3. /\ request' \in [Requests -> RequestState] /\ request'[r].at = at
      /\ request'[r].upload = u
      /\ \A q \in Requests : q # r => request'[q] = request[q]
  <2>1. at \in Ats
    BY DEF Ats
  <2> QED
    BY <1>1, <1>2, <2>1, Goto_Lemma
<1>4. /\ video' \in [Uploaded -> VideoState]
      /\ \A v \in Uploaded : v # u => video'[v] = video[v]
  BY <1>1 DEF InitTus, UploadTypeOK, VideoState
<1>5. UNCHANGED <<upload, slot, jobs, hooks, sweep>>
  BY DEF InitTus
<1>6. UploadTypeOK'
  BY <1>1, <1>3, <1>4, <1>5 DEF UploadTypeOK
<1>7. NamesUpload'
  BY <1>1, <1>3, <1>5 DEF NamesUpload
<1>8. \A q \in Requests, v \in Uploaded : HeardReady(q, v)' => HeardReady(q, v) /\ v # u
  BY <1>1, <1>3 DEF HeardReady, Fresh
<1>9. Answers'
  BY <1>1, <1>4, <1>5, <1>8 DEF UploadInv, Answers, Encoded, Fresh
<1>10. ASSUME NEW v \in Uploaded, v # u, Fresh(v) PROVE Fresh(v)'
  BY <1>4, <1>5, <1>8, <1>10 DEF Fresh
<1>11. ASSUME NEW q \in Requests, request'[q].at = "init"
       PROVE  /\ q # r /\ request'[q] = request[q]
              /\ request[q].upload \in Uploaded /\ request[q].upload # u
  <2>1. q # r
    BY <1>3, <1>11
  <2> QED
    BY <1>1, <1>3, <1>11, <2>1 DEF NamesUpload
<1>12. Starts'
  BY <1>1, <1>5, <1>10, <1>11 DEF UploadInv, Starts
<1> QED
  BY <1>6, <1>7, <1>9, <1>12 DEF UploadInv

\* A video that is not fresh, or is deleted, may change without anybody hearing of it.
LEMMA Video_Inv ==
  ASSUME UploadInv, UploadTypeOK', NamesUpload', UNCHANGED upload,
         \A q \in Requests : \/ request'[q] = request[q]
                             \/ request'[q].at \notin {"init", "record", "poll"},
         \A u \in Uploaded :
           /\ Encoded(u) => Encoded(u)'
           /\ Fresh(u) => video'[u] \in {"none", "deleted"}
           /\ <<u, "ready">> \in hooks'
                => <<u, "ready">> \in hooks \/ (Encoded(u)' /\ ~ Fresh(u))
  PROVE  UploadInv'
<1>1. \A q \in Requests, u \in Uploaded : HeardReady(q, u)' => HeardReady(q, u)
  BY DEF HeardReady
<1>2. Answers'
  BY <1>1 DEF UploadInv, Answers
<1>3. ASSUME NEW u \in Uploaded, Fresh(u) PROVE Fresh(u)'
  BY <1>1, <1>3 DEF Fresh
<1>4. ASSUME NEW q \in Requests, request'[q].at = "init"
      PROVE  request'[q] = request[q] /\ request[q].upload \in Uploaded
  BY <1>4 DEF UploadInv, NamesUpload
<1>5. Starts'
  BY <1>3, <1>4 DEF UploadInv, Starts
<1> QED
  BY <1>2, <1>5 DEF UploadInv

LEMMA UndoTus_Inv ==
  ASSUME UploadInv, NEW r \in Requests, UndoTus(r)
  PROVE  UploadInv'
<1>1. UploadTypeOK /\ NamesUpload /\ request[r].upload \in Uploaded /\ "fail" \in Ats
  BY DEF UploadInv, NamesUpload, UndoTus, At, Ats
<1>2. /\ request' \in [Requests -> RequestState] /\ request'[r].at = "fail"
      /\ request'[r].upload = request[r].upload
      /\ \A q \in Requests : q # r => request'[q] = request[q]
  BY <1>1, Goto_Lemma DEF UndoTus
<1>3. UploadTypeOK'
  BY <1>1, <1>2 DEF UndoTus, UploadTypeOK, VideoState
<1>4. NamesUpload'
  BY <1>1, <1>2 DEF UndoTus, NamesUpload
<1>5. \A u \in Uploaded : video'[u] = video[u] \/ video'[u] = "deleted"
  BY <1>1 DEF UndoTus, UploadTypeOK
<1> QED
  BY <1>2, <1>3, <1>4, <1>5, Video_Inv DEF UndoTus, Encoded, Fresh

LEMMA Cloudflare_Inv ==
  ASSUME UploadInv, NEW u \in Uploaded,
         ReceiveBytes(u) \/ Encode(u) \/ DeleteVideo(u) \/ FailDelete(u)
  PROVE  UploadInv'
<1>1. UploadTypeOK /\ NamesUpload
  BY DEF UploadInv
<1>2. NamesUpload'
  BY <1>1 DEF ReceiveBytes, Encode, DeleteVideo, FailDelete, NamesUpload
<1>3. CASE ReceiveBytes(u)
  <2>1. UploadTypeOK'
    BY <1>1, <1>3 DEF ReceiveBytes, UploadTypeOK, VideoState
  <2> QED
    BY <1>1, <1>2, <1>3, <2>1, Video_Inv DEF ReceiveBytes, Encoded, Fresh, UploadTypeOK
<1>4. CASE Encode(u)
  <2>1. PICK outcome \in {"ready", "failed"} :
          video' = [video EXCEPT ![u] = outcome] /\ hooks' = hooks \cup {<<u, outcome>>}
    BY <1>4 DEF Encode
  <2>2. UploadTypeOK'
    BY <1>1, <1>4, <2>1 DEF Encode, UploadTypeOK, VideoState
  <2>3. video[u] = "received" /\ UNCHANGED <<upload, slot, jobs, request, sweep>>
    BY <1>4 DEF Encode
  <2>4. ASSUME NEW v \in Uploaded, <<v, "ready">> \in hooks'
        PROVE  <<v, "ready">> \in hooks \/ (v = u /\ video'[v] = "ready")
    <3>1. <<v, "ready">> \in hooks \/ <<v, "ready">> = <<u, outcome>>
      BY <2>1, <2>4
    <3>2. <<v, "ready">> = <<u, outcome>> => v = u /\ outcome = "ready"
      OBVIOUS
    <3>3. video'[u] = outcome
      BY <1>1, <2>1 DEF UploadTypeOK
    <3> QED
      BY <3>1, <3>2, <3>3
  <2> QED
    BY <1>1, <1>2, <2>1, <2>2, <2>3, <2>4, Video_Inv DEF Encoded, Fresh, UploadTypeOK
<1>5. CASE DeleteVideo(u) \/ FailDelete(u)
  <2>1. UploadTypeOK'
    BY <1>1, <1>5 DEF DeleteVideo, FailDelete, UploadTypeOK, VideoState
  <2> QED
    BY <1>1, <1>2, <1>5, <2>1, Video_Inv
       DEF DeleteVideo, FailDelete, Encoded, Fresh, UploadTypeOK
<1> QED
  BY <1>3, <1>4, <1>5

-----------------------------------------------------------------------------
LEMMA UploadNext_Inv == UploadInv /\ [UploadNext]_mediaVars => UploadInv'
<1> SUFFICES ASSUME UploadInv, [UploadNext]_mediaVars PROVE UploadInv'
  OBVIOUS
<1>1. ASSUME NEW r \in Requests, Refused(r) \/ Abort(r) PROVE UploadInv'
  BY <1>1, Close_Inv DEF Refused, Abort
<1>2. ASSUME NEW r \in Requests, ServeRequest(r) PROVE UploadInv'
  BY <1>2, CreateRow_Inv, InitTus_Inv, SaveUid_Inv, UndoTus_Inv, Record_Inv, Ask_Inv,
     MarkAbandoned_Inv, EnqueueDelete_Inv, LessonSteps_Inv DEF ServeRequest
<1>3. CASE UNCHANGED mediaVars
  <2>1. UploadTypeOK' /\ NamesUpload'
    BY <1>3 DEF mediaVars, UploadInv, UploadTypeOK, NamesUpload
  <2> QED
    BY <1>3, <2>1, Rows_Inv DEF mediaVars
<1> QED
  BY <1>1, <1>2, <1>3, OpenRequest_Inv, Sweep_Inv, Cloudflare_Inv, ReceiveHook_Inv,
     CopyLesson_Inv DEF UploadNext

\* The invariant of the uploads.
THEOREM UploadInvAlways == UploadSpec => []UploadInv
  BY UploadInit_Inv, UploadNext_Inv, PTL DEF UploadSpec

\* Rows, videos, requests and the sweeper keep the shapes Prisma and Cloudflare give them.
THEOREM UploadTypeCorrect == UploadSpec => []UploadTypeOK
<1>1. UploadInv => UploadTypeOK
  BY DEF UploadInv
<1> QED
  BY <1>1, UploadInvAlways, PTL

\* An upload is READY only when Cloudflare had encoded its video, whatever answers and
\* webhooks arrive late, repeatedly or out of order, and whoever dies in between
\* (completeUpload, refreshEncodingStatus, syncUploadFromStreamWebhook).
THEOREM ReadyMeansEncoded == UploadSpec => []ReadyWasEncoded
<1>1. UploadInv => ReadyWasEncoded
  BY DEF UploadInv, Answers, Encoded, ReadyWasEncoded
<1> QED
  BY <1>1, UploadInvAlways, PTL

-----------------------------------------------------------------------------
(* What revives an abandoned upload. *)

\* What AbandonedStaysAbandoned says of one step.
RevivedByOwner ==
  \A u \in Uploaded :
    upload[u].status = "ABANDONED" /\ upload'[u].status # "ABANDONED"
      => \E r \in Requests : /\ request[r].upload = u
                             /\ request[r].at \in {"record", "save", "fail"}

LEMMA Serve_Revives ==
  ASSUME UploadInv, NEW r \in Requests, ServeRequest(r)
  PROVE  RevivedByOwner
<1>1. /\ UploadTypeOK
      /\ request[r].at \in {"save", "fail", "record", "poll", "abandon", "link", "attach"} =>
           request[r].upload \in Uploaded
  BY DEF UploadInv, NamesUpload
<1>2. CASE MarkInitFailed(r) \/ RecordProgress(r) \/ SaveUid(r)
  <2>1. \A v \in Uploaded : v # request[r].upload => upload'[v] = upload[v]
    BY <1>1, <1>2 DEF MarkInitFailed, RecordProgress, SaveUid, Set, UploadTypeOK
  <2> QED
    BY <1>2, <2>1 DEF MarkInitFailed, RecordProgress, SaveUid, At, RevivedByOwner
<1>3. ASSUME NEW u \in Uploaded, CreateRow(r)
      PROVE  upload[u].status = "ABANDONED" => upload'[u] = upload[u]
  BY <1>1, <1>3 DEF CreateRow, Set, UploadTypeOK
<1>4. ASSUME NEW u \in Uploaded, RecordEncoding(r)
      PROVE  upload[u].status = "ABANDONED" => upload'[u] = upload[u]
  BY <1>1, <1>4 DEF RecordEncoding, Settled, Set, At, Transient, UploadTypeOK
<1>5. ASSUME NEW u \in Uploaded, MarkAbandoned(r)
      PROVE  upload'[u].status \in {upload[u].status, "ABANDONED"}
  <2>1. request[r].upload \in Uploaded /\ Set(request[r].upload, "ABANDONED")
    BY <1>1, <1>5 DEF MarkAbandoned, At
  <2> QED
    BY <1>1, <2>1, Set_Lemma DEF UploadStatus
<1>6. ASSUME NEW u \in Uploaded, LinkUpload(r) PROVE upload'[u].status = upload[u].status
  <2> DEFINE v == request[r].upload
             row == [upload[v] EXCEPT !.lesson = request[r].slot]
  <2>1. v \in Uploaded /\ upload[v] \in UploadRow /\ upload \in [Uploaded -> UploadRow]
    BY <1>1, <1>6 DEF LinkUpload, At, UploadTypeOK
  <2>2. row.status = upload[v].status
    BY <2>1 DEF UploadRow
  <2>3. upload' = upload \/ upload' = [upload EXCEPT ![v] = row]
    BY <1>6 DEF LinkUpload
  <2> QED
    BY <2>1, <2>2, <2>3
<1>7. ASSUME NEW u \in Uploaded, ReplaceVideo(r) PROVE upload'[u].status = upload[u].status
  <2> DEFINE v == request[r].upload
             d == Detached({request[r].prior}, request[r].slot)
             row == [d[v] EXCEPT !.lesson = request[r].slot]
  <2>1. v \in Uploaded
    BY <1>1, <1>7 DEF ReplaceVideo, At
  <2>2. d \in [Uploaded -> UploadRow] /\ \A w \in Uploaded : d[w].status = upload[w].status
    BY <1>1, Detached_Lemma
  <2>3. upload' = [d EXCEPT ![v] = row]
    BY <1>7 DEF ReplaceVideo
  <2> HIDE DEF d
  <2>4. row.status = d[v].status
    BY <2>1, <2>2 DEF UploadRow
  <2> QED
    BY <2>1, <2>2, <2>3, <2>4
<1>8. ASSUME NEW u \in Uploaded, ClearVideo(r) \/ DeleteLesson(r)
      PROVE  upload'[u].status = upload[u].status
  BY <1>1, <1>8, Detached_Lemma DEF ClearVideo, DeleteLesson
<1>9. CASE \/ InitTus(r) \/ UndoTus(r) \/ AskProgress(r) \/ AskEncoding(r) \/ EnqueueDelete(r)
           \/ CreateLesson(r) \/ ReleaseVideo(r)
  BY <1>9 DEF InitTus, UndoTus, AskProgress, AskEncoding, EnqueueDelete, CreateLesson,
     ReleaseVideo, RevivedByOwner
<1> QED
  BY <1>2, <1>3, <1>4, <1>5, <1>6, <1>7, <1>8, <1>9 DEF ServeRequest, RevivedByOwner

LEMMA Step_RevivedByOwner ==
  ASSUME UploadInv, [UploadNext]_mediaVars
  PROVE  RevivedByOwner
<1>1. UploadTypeOK
  BY DEF UploadInv
<1>2. ASSUME NEW u \in Uploaded, SweepBegins(u) PROVE RevivedByOwner
  <2>1. CASE Set(u, "ABANDONED")
    BY <1>1, <2>1, Set_Lemma DEF UploadStatus, RevivedByOwner
  <2>2. CASE UNCHANGED upload
    BY <2>2 DEF RevivedByOwner
  <2> QED
    BY <1>2, <2>1, <2>2 DEF SweepBegins
<1>3. ASSUME NEW hook \in hooks, ReceiveHook(hook) PROVE RevivedByOwner
  BY <1>1, <1>3 DEF ReceiveHook, Settled, Set, Transient, UploadTypeOK, RevivedByOwner
<1>4. ASSUME NEW r \in Requests, OpenRequest(r) \/ Refused(r) \/ Abort(r) PROVE RevivedByOwner
  BY <1>4 DEF OpenRequest, BeginReserve, BeginComplete, BeginPoll, BeginDiscard, BeginAttach,
     BeginClear, BeginRemoveLesson, Refused, Abort, RevivedByOwner
<1>5. CASE SweepChecks \/ SweepEnqueues \/ AbortSweep \/ UNCHANGED mediaVars
  BY <1>5 DEF SweepChecks, SweepEnqueues, AbortSweep, mediaVars, RevivedByOwner
<1>6. ASSUME NEW u \in Uploaded,
             ReceiveBytes(u) \/ Encode(u) \/ DeleteVideo(u) \/ FailDelete(u)
      PROVE  RevivedByOwner
  BY <1>6 DEF ReceiveBytes, Encode, DeleteVideo, FailDelete, RevivedByOwner
<1>7. ASSUME NEW from \in Slots, NEW to \in Slots, CopyLesson(from, to) PROVE RevivedByOwner
  BY <1>7 DEF CopyLesson, RevivedByOwner
<1> QED
  BY <1>2, <1>3, <1>4, <1>5, <1>6, <1>7, Serve_Revives DEF UploadNext, Sweep

\* A discarded or swept upload comes back only through its owner's own request that was
\* under way, never through a late or repeated webhook or poll (markReadyFromEncoding,
\* markFailedFromEncoding).
THEOREM AbandonedComesBackOnlyByOwner == UploadSpec => AbandonedStaysAbandoned
<1>1. UploadInv /\ [UploadNext]_mediaVars => [RevivedByOwner]_mediaVars
  BY Step_RevivedByOwner
<1> QED
  BY <1>1, UploadInvAlways, PTL DEF UploadSpec, AbandonedStaysAbandoned, RevivedByOwner
=============================================================================
