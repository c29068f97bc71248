------------------------ MODULE StorageLabelsProofs ------------------------
(***************************************************************************)
(* Proofs about StorageLabels, for any files, labels and uploads, crashes  *)
(* and failed writes: the answers of storage_upload, the labels in the map *)
(* and in its file, and what is left of them by two threads.               *)
(***************************************************************************)
EXTENDS StorageLabels, TLAPS

(***************************************************************************)
(* Types.  What a call knows at each of its stages is part of them: its    *)
(* session is the last that was given out, and not yet any other's.        *)
(***************************************************************************)
UnderWay == rpc.stage \in {"label", "copy", "write", "poll"}
CallBounds ==
  /\ rpc.stage = "upload" => next_session < MaxSessions
  /\ rpc.stage # "idle" => rpc.content \in Contents /\ rpc.label \in Labels
  /\ UnderWay => /\ rpc.session \in Sessions /\ next_session = rpc.session + 1
                 /\ asked[rpc.session] = [content |-> rpc.content, label |-> rpc.label]
  /\ rpc.stage = "write" => rpc.left = {}
  /\ handler.stage # "idle" => handler.session \in Sessions

\* A session that was not given out yet is nobody's.
Fresh ==
  \A s \in Sessions : s >= next_session =>
    asked[s] = [content |-> NoCid, label |-> NoLabel] /\ uploads[s] = NoUpload

Typed == TypeOK /\ CallBounds /\ Fresh

LEMMA EntryTypes ==
  /\ NoLabels \in LabelMaps /\ NoUpload \in Uploads /\ NoCall \in Calls /\ NoHandler \in Handlers
  /\ NoCall.stage = "idle" /\ NoCall.copied = NoLabels /\ NoHandler.stage = "idle"
  /\ NoUpload.status = "none"
  /\ \A s \in Sessions : NoLabels.pending[s] = NoLabel
  /\ \A c \in Contents : NoLabels.named[c] = NoLabel
<1>1. NoLabels \in LabelMaps
  BY DEF NoLabels, LabelMaps
<1>2. NoCall \in Calls
  BY <1>1, StorageAssumption DEF NoCall, Calls, Parts
<1> QED
  BY <1>1, <1>2, StorageAssumption DEF NoLabels, NoUpload, Uploads, NoCall, NoHandler, Handlers

LEMMA TypedInit == Init => Typed
<1> SUFFICES ASSUME Init PROVE Typed
  OBVIOUS
<1>1. TypeOK
  <2>1. /\ next_session \in 1..MaxSessions + 1
        /\ crashes \in 0..MaxCrashes /\ saveFailures \in 0..MaxSaveFailures
    BY StorageAssumption DEF Init
  <2> QED
    BY <2>1, EntryTypes DEF Init, TypeOK
<1>2. CallBounds
  BY EntryTypes DEF Init, CallBounds, UnderWay
<1>3. Fresh
  BY DEF Init, Fresh
<1> QED
  BY <1>1, <1>2, <1>3 DEF Typed

(***************************************************************************)
(* What the steps do to the records.                                       *)
(***************************************************************************)

\* The call goes on to another stage, its file and its label kept.
Goes(stage, session, copied, left) ==
  /\ rpc' \in Calls
  /\ rpc'.stage = stage /\ rpc'.session = session
  /\ rpc'.content = rpc.content /\ rpc'.label = rpc.label
  /\ rpc'.copied = copied /\ rpc'.left = left

LEMMA CallMoves ==
  ASSUME rpc \in Calls
  PROVE  /\ \A s \in 0..MaxSessions :
              rpc' = [rpc EXCEPT !.stage = "label", !.session = s] => Goes("label", s, rpc.copied, rpc.left)
         /\ rpc' = [rpc EXCEPT !.stage = "copy", !.left = Parts] =>
              Goes("copy", rpc.session, rpc.copied, Parts)
         /\ rpc' = [rpc EXCEPT !.stage = "poll"] => Goes("poll", rpc.session, rpc.copied, rpc.left)
BY DEF Calls, Goes

\* A part of the map is copied.
LEMMA CopyMoves ==
  ASSUME rpc \in Calls, cid_labels \in LabelMaps, NEW part \in rpc.left, CopyLabels(part)
  PROVE  \E copied \in LabelMaps :
           /\ Goes(IF rpc.left = {part} THEN "write" ELSE "copy", rpc.session, copied, rpc.left \ {part})
           /\ \A other \in Parts : copied[other] = IF other = part THEN cid_labels[part] ELSE rpc.copied[other]
<1> DEFINE copied == [rpc.copied EXCEPT ![part] = cid_labels[part]]
<1>1. part \in Parts /\ rpc.copied \in LabelMaps
  BY DEF Calls
<1>2. /\ copied \in LabelMaps
      /\ \A other \in Parts : copied[other] = IF other = part THEN cid_labels[part] ELSE rpc.copied[other]
  BY <1>1 DEF LabelMaps, Parts
<1>3. rpc' = [rpc EXCEPT !.copied = copied, !.left = rpc.left \ {part},
                         !.stage = IF rpc.left = {part} THEN "write" ELSE "copy"]
  BY DEF CopyLabels, Calls
<1> HIDE DEF copied
<1> QED
  BY <1>2, <1>3 DEF Calls, Goes

LEMMA UploadMoves ==
  ASSUME NEW content \in Contents, NEW label \in Labels, Upload(content, label)
  PROVE  /\ rpc' \in Calls /\ rpc'.stage = "upload"
         /\ rpc'.content = content /\ rpc'.label = label /\ rpc'.copied = NoLabels
BY EntryTypes, StorageAssumption DEF Upload, NoCall, Calls

\* One entry of one part of the map changes.
LEMMA MapMoves ==
  ASSUME cid_labels \in LabelMaps, NEW label \in Labels \cup {NoLabel}
  PROVE  /\ \A s \in Sessions : cid_labels' = [cid_labels EXCEPT !.pending[s] = label] =>
              /\ cid_labels' \in LabelMaps
              /\ cid_labels'.pending = [cid_labels.pending EXCEPT ![s] = label]
              /\ cid_labels'.named = cid_labels.named
         /\ \A c \in Contents : cid_labels' = [cid_labels EXCEPT !.named[c] = label] =>
              /\ cid_labels' \in LabelMaps
              /\ cid_labels'.named = [cid_labels.named EXCEPT ![c] = label]
              /\ cid_labels'.pending = cid_labels.pending
BY DEF LabelMaps

LEMMA HandlerMoves ==
  ASSUME handler \in Handlers
  PROVE  /\ \A stage \in {"named", "save"} : handler' = [handler EXCEPT !.stage = stage] =>
              /\ handler' \in Handlers
              /\ handler'.stage = stage /\ handler'.session = handler.session
         /\ \A s \in Sessions : handler' = [stage |-> "received", session |-> s] =>
              /\ handler' \in Handlers
              /\ handler'.stage = "received" /\ handler'.session = s
BY StorageAssumption DEF Handlers, Sessions

\* The status of one upload changes.
LEMMA UploadStatus ==
  ASSUME uploads \in [Sessions -> Uploads], NEW s \in Sessions,
         NEW status \in {"done", "failed", "told"},
         uploads' = [uploads EXCEPT ![s].status = status]
  PROVE  /\ uploads' \in [Sessions -> Uploads]
         /\ uploads'[s] = [status |-> status, content |-> uploads[s].content]
         /\ \A r \in Sessions \ {s} : uploads'[r] = uploads[r]
BY DEF Uploads

LEMMA SaveMoves ==
  ASSUME TypeOK, NEW map \in LabelMaps, Save(map)
  PROVE  /\ saved_labels' \in LabelMaps /\ saveFailures' \in 0..MaxSaveFailures
         /\ saved_labels' \in {map, saved_labels, NoLabels}
         /\ saveFailures' = 0 => saved_labels' = map /\ saveFailures = 0
<1>1. CASE saved_labels' = map /\ UNCHANGED saveFailures
  BY <1>1 DEF TypeOK
<1>2. CASE /\ saveFailures < MaxSaveFailures /\ saveFailures' = saveFailures + 1
           /\ saved_labels' \in {saved_labels, NoLabels}
  BY <1>2, EntryTypes, StorageAssumption DEF TypeOK
<1> QED
  BY <1>1, <1>2 DEF Save

\* The upload goes on under a session that was free, be it started or not.
Issued(s) ==
  /\ rpc.stage = "upload" /\ s \in Sessions /\ s \in {next_session, next_session + 1}
  /\ Goes("label", s, rpc.copied, rpc.left)
  /\ next_session' = s + 1
  /\ asked' = [asked EXCEPT ![s] = [content |-> rpc.content, label |-> rpc.label]]
  /\ \/ UNCHANGED uploads
     \/ uploads' = [uploads EXCEPT ![next_session] = [status |-> "running", content |-> rpc.content]]
  /\ UNCHANGED <<subscribed, session_cid, labels, handler, crashes, saveFailures, reply, raced>>

LEMMA ReplyIssues ==
  ASSUME Typed, UploadReply
  PROVE  \E s \in Sessions : Issued(s)
<1>1. rpc.stage = "upload" /\ next_session < MaxSessions /\ rpc \in Calls
  BY DEF UploadReply, UploadAccepted, UploadRefused, ReplyLost, Typed, TypeOK, CallBounds
<1>2. next_session \in Sessions /\ next_session + 1 \in Sessions
  BY <1>1, StorageAssumption DEF Typed, TypeOK, Sessions
<1>3. PICK s \in {next_session, next_session + 1} :
        /\ Under(s)
        /\ UNCHANGED uploads \/ Started(next_session)
  BY DEF UploadReply, UploadAccepted, UploadRefused, ReplyLost
<1>4. s \in Sessions /\ s \in 0..MaxSessions
  BY <1>2 DEF Sessions
<1>5. Goes("label", s, rpc.copied, rpc.left)
  BY <1>1, <1>3, <1>4, CallMoves DEF Under
<1> QED
  BY <1>1, <1>3, <1>4, <1>5 DEF Issued, Under, Started

LEMMA IssuedTypes ==
  ASSUME Typed, NEW s \in Sessions, Issued(s)
  PROVE  Typed'
<1> DEFINE request == [content |-> rpc.content, label |-> rpc.label]
           upload == [status |-> "running", content |-> rpc.content]
<1>1. /\ rpc.content \in Contents /\ rpc.label \in Labels
      /\ next_session \in Nat /\ s \in Nat /\ s <= MaxSessions /\ MaxSessions \in Nat
      /\ next_session < MaxSessions
  BY StorageAssumption DEF Typed, TypeOK, CallBounds, Issued, Sessions
<1>2. /\ request \in [content : Contents \cup {NoCid}, label : Labels \cup {NoLabel}]
      /\ upload \in Uploads
  BY <1>1 DEF Uploads
<1>3. /\ asked' = [asked EXCEPT ![s] = request]
      /\ uploads' = uploads \/ uploads' = [uploads EXCEPT ![next_session] = upload]
      /\ next_session' = s + 1 /\ s \in {next_session, next_session + 1}
      /\ Goes("label", s, rpc.copied, rpc.left)
  BY DEF Issued
<1> HIDE DEF request, upload
<1>4. /\ asked' \in [Sessions -> [content : Contents \cup {NoCid}, label : Labels \cup {NoLabel}]]
      /\ uploads' \in [Sessions -> Uploads]
      /\ asked'[s] = request
      /\ \A r \in Sessions \ {s} : asked'[r] = asked[r]
      /\ \A r \in Sessions \ {next_session} : uploads'[r] = uploads[r]
  BY <1>2, <1>3 DEF Typed, TypeOK
<1>5. TypeOK'
  <2>1. next_session' \in 1..MaxSessions + 1
    BY <1>1, <1>3 DEF Sessions
  <2> QED
    BY <1>3, <1>4, <2>1 DEF Issued, Goes, labels, Typed, TypeOK
<1>6. CallBounds'
  <2>1. next_session' = rpc'.session + 1 /\ rpc'.session \in Sessions /\ rpc'.stage = "label"
    BY <1>3 DEF Goes
  <2>2. asked'[rpc'.session] = [content |-> rpc'.content, label |-> rpc'.label]
    BY <1>3, <1>4 DEF Goes, request
  <2> QED
    BY <1>1, <1>3, <2>1, <2>2 DEF Goes, Issued, UnderWay, Typed, CallBounds
<1>7. Fresh'
  BY <1>1, <1>3, <1>4 DEF Typed, Fresh, Sessions
<1> QED
  BY <1>5, <1>6, <1>7 DEF Typed

\* The call goes on from session to session-bound stage, in the same world.
LEMMA CallTypes ==
  ASSUME Typed, CallUpload \/ RecordLabel \/ (\E part \in Parts : CopyLabels(part)) \/ WriteCopy
                  \/ Poll \/ GiveUp
  PROVE  Typed'
<1>0. rpc \in Calls /\ cid_labels \in LabelMaps /\ saved_labels \in LabelMaps
  BY DEF Typed, TypeOK
<1>1. CASE CallUpload
  <2>1. PICK content \in Contents, label \in Labels : Upload(content, label)
    BY <1>1 DEF CallUpload
  <2>2. TypeOK'
    BY <2>1, UploadMoves DEF Upload, labels, history, Typed, TypeOK
  <2>3. CallBounds' /\ Fresh'
    BY <2>1, UploadMoves DEF Upload, labels, history, Typed, CallBounds, Fresh, UnderWay
  <2> QED
    BY <2>2, <2>3 DEF Typed
<1>2. CASE RecordLabel
  <2>1. rpc.session \in Sessions /\ rpc.label \in Labels \cup {NoLabel} /\ UnderWay
    BY <1>2 DEF RecordLabel, UnderWay, Typed, CallBounds
  <2>2. Goes("copy", rpc.session, rpc.copied, Parts)
    BY <1>0, <1>2, CallMoves DEF RecordLabel
  <2>3. cid_labels' \in LabelMaps
    BY <1>0, <1>2, <2>1, MapMoves DEF RecordLabel
  <2>4. TypeOK'
    BY <1>2, <2>2, <2>3 DEF RecordLabel, Goes, history, Typed, TypeOK
  <2>5. CallBounds' /\ Fresh'
    BY <1>2, <2>1, <2>2 DEF RecordLabel, Goes, history, Typed, CallBounds, Fresh, UnderWay
  <2> QED
    BY <2>4, <2>5 DEF Typed
<1>3. CASE \E part \in Parts : CopyLabels(part)
  <2>1. PICK part \in rpc.left : CopyLabels(part)
    BY <1>3 DEF CopyLabels
  <2>2. PICK copied \in LabelMaps :
          Goes(IF rpc.left = {part} THEN "write" ELSE "copy", rpc.session, copied, rpc.left \ {part})
    BY <1>0, <2>1, CopyMoves
  <2>3. TypeOK'
    BY <2>1, <2>2 DEF CopyLabels, Goes, labels, history, Typed, TypeOK
  <2>4. rpc'.stage \in {"write", "copy"} /\ (rpc'.stage = "write" => rpc'.left = {})
    BY <2>2 DEF Goes
  <2>5. CallBounds' /\ Fresh'
    BY <2>1, <2>2, <2>4 DEF CopyLabels, Goes, labels, history, Typed, CallBounds, Fresh, UnderWay
  <2> QED
    BY <2>3, <2>5 DEF Typed
<1>4. CASE WriteCopy
  <2>1. Goes("poll", rpc.session, rpc.copied, rpc.left)
    BY <1>0, <1>4, CallMoves DEF WriteCopy
  <2>2. rpc.copied \in LabelMaps
    BY <1>0 DEF Calls
  <2>3. saved_labels' \in LabelMaps /\ saveFailures' \in 0..MaxSaveFailures
    BY <1>4, <2>2, SaveMoves DEF WriteCopy, Typed
  <2>4. TypeOK'
    BY <1>4, <2>1, <2>3 DEF WriteCopy, Goes, history, Typed, TypeOK
  <2>5. CallBounds' /\ Fresh'
    BY <1>4, <2>1 DEF WriteCopy, Goes, history, Typed, CallBounds, Fresh, UnderWay
  <2> QED
    BY <2>4, <2>5 DEF Typed
<1>5. CASE Poll \/ GiveUp
  <2>1. rpc.session \in Sessions /\ rpc' = NoCall
    BY <1>5 DEF Poll, GiveUp, Typed, CallBounds, UnderWay
  <2>2. reply' \in [Sessions -> Contents \cup {NoCid}]
    BY <1>5, <2>1 DEF Poll, GiveUp, history, Typed, TypeOK
  <2>3. TypeOK'
    BY <1>5, <2>1, <2>2, EntryTypes DEF Poll, GiveUp, labels, history, Typed, TypeOK
  <2>4. CallBounds' /\ Fresh'
    BY <1>5, <2>1, EntryTypes DEF Poll, GiveUp, labels, history, Typed, CallBounds, Fresh, UnderWay
  <2> QED
    BY <2>3, <2>4 DEF Typed
<1> QED
  BY <1>1, <1>2, <1>3, <1>4, <1>5

\* The status of an upload changes, and with it at most the handler.
LEMMA UploadTypes ==
  ASSUME Typed, NEW s \in Sessions, NEW status \in {"done", "failed", "told"},
         uploads[s].status # "none",
         uploads' = [uploads EXCEPT ![s].status = status],
         \/ UNCHANGED handler
         \/ handler' = [stage |-> "received", session |-> s],
         UNCHANGED <<subscribed, session_cid, labels, rpc, next_session, crashes, saveFailures,
                     history, raced>>
  PROVE  Typed'
<1>1. /\ uploads' \in [Sessions -> Uploads]
      /\ \A r \in Sessions \ {s} : uploads'[r] = uploads[r]
  BY UploadStatus DEF Typed, TypeOK
<1>2. handler' \in Handlers /\ (handler'.stage # "idle" => handler'.session \in Sessions)
  BY HandlerMoves DEF Typed, TypeOK, CallBounds
<1>3. TypeOK'
  BY <1>1, <1>2 DEF labels, history, Typed, TypeOK
<1>4. CallBounds'
  BY <1>2 DEF labels, history, Typed, CallBounds, UnderWay
<1>5. Fresh'
  BY <1>1, EntryTypes DEF history, Typed, Fresh
<1> QED
  BY <1>3, <1>4, <1>5 DEF Typed

LEMMA StorageTypes ==
  ASSUME Typed, NEW s \in Sessions,
         Receive(s) \/ Miss(s) \/ EndUpload(s, "done") \/ EndUpload(s, "failed")
  PROVE  Typed'
<1>1. CASE Receive(s) \/ Miss(s)
  BY <1>1, UploadTypes DEF Receive, Miss
<1>2. CASE EndUpload(s, "done") \/ EndUpload(s, "failed")
  BY <1>2, UploadTypes DEF EndUpload
<1> QED
  BY <1>1, <1>2

\* What the handler does to its map, and where it goes.
Names(label) ==
  LET content == uploads[handler.session].content IN
  /\ cid_labels' \in LabelMaps
  /\ cid_labels'.named = [cid_labels.named EXCEPT ![content] = label]
  /\ cid_labels'.pending = cid_labels.pending
Erases ==
  /\ cid_labels' \in LabelMaps
  /\ cid_labels'.pending = [cid_labels.pending EXCEPT ![handler.session] = NoLabel]
  /\ cid_labels'.named = cid_labels.named
On(stage) == handler' \in Handlers /\ handler'.stage = stage /\ handler'.session = handler.session

LEMMA HandlerTypes ==
  ASSUME Typed, Resolve \/ ErasePending \/ SaveLabels
  PROVE  Typed'
<1>0. /\ handler \in Handlers /\ cid_labels \in LabelMaps /\ handler.session \in Sessions
      /\ uploads[handler.session].content \in Contents \cup {NoCid}
  BY DEF Typed, TypeOK, CallBounds, Resolve, ErasePending, SaveLabels, Uploads
<1>1. cid_labels' \in LabelMaps
  BY <1>0 DEF Resolve, ErasePending, SaveLabels, LabelMaps
<1>2. handler' \in Handlers /\ (handler'.stage # "idle" => handler'.session \in Sessions)
  BY <1>0, HandlerMoves, EntryTypes DEF Resolve, ErasePending, SaveLabels
<1>3. session_cid' \in [Sessions -> Contents \cup {NoCid}]
  BY <1>0 DEF Resolve, ErasePending, SaveLabels, Typed, TypeOK
<1>4. saved_labels' \in LabelMaps /\ saveFailures' \in 0..MaxSaveFailures
  BY <1>0, SaveMoves DEF Resolve, ErasePending, SaveLabels, Typed, TypeOK
<1>5. raced' \in BOOLEAN
  BY DEF Resolve, ErasePending, SaveLabels, Typed, TypeOK
<1>6. TypeOK'
  BY <1>1, <1>2, <1>3, <1>4, <1>5 DEF Resolve, ErasePending, SaveLabels, history, Typed, TypeOK
<1>7. CallBounds' /\ Fresh'
  BY <1>2 DEF Resolve, ErasePending, SaveLabels, history, Typed, CallBounds, Fresh, UnderWay
<1> QED
  BY <1>6, <1>7 DEF Typed

LEMMA CrashTypes ==
  ASSUME Typed, CrashRestart
  PROVE  Typed'
<1>1. crashes' \in 0..MaxCrashes
  BY StorageAssumption DEF CrashRestart, Typed, TypeOK
<1>2. TypeOK'
  BY <1>1, EntryTypes DEF CrashRestart, history, Typed, TypeOK
<1>3. CallBounds' /\ Fresh'
  BY EntryTypes DEF CrashRestart, history, Typed, CallBounds, Fresh, UnderWay
<1> QED
  BY <1>2, <1>3 DEF Typed

LEMMA TypedNext ==
  ASSUME Typed, [Next]_vars
  PROVE  Typed'
<1>1. CASE UNCHANGED vars
  BY <1>1 DEF vars, labels, history, Typed, TypeOK, CallBounds, Fresh, UnderWay
<1>2. CASE CallUpload \/ RpcStep
  BY <1>2, CallTypes, ReplyIssues, IssuedTypes DEF RpcStep
<1>3. CASE EventStep \/ StorageStep \/ \E s \in Sessions : Miss(s)
  BY <1>3, StorageTypes, HandlerTypes DEF EventStep, StorageStep
<1>4. CASE CrashRestart
  BY <1>4, CrashTypes
<1> QED
  BY <1>1, <1>2, <1>3, <1>4 DEF Next

\* Every variable keeps its type, whatever the order of the two threads.
THEOREM StorageTypeCorrect == Spec => []TypeOK
<1>1. Spec => []Typed
  BY TypedInit, TypedNext, PTL DEF Spec
<1>2. Typed => TypeOK
  BY DEF Typed
<1> QED
  BY <1>1, <1>2, PTL

(***************************************************************************)
(* Uploads.  What was asked under a session, and an upload that is told,   *)
(* never change; and an upload is of the file that was asked for under its *)
(* session, or of one that the agent knows under another.                  *)
(***************************************************************************)

Advanced ==
  \E s \in Sessions, status \in {"done", "failed", "told"} :
    /\ uploads[s].status \in {"running", "done"}
    /\ uploads' = [uploads EXCEPT ![s].status = status]
    /\ UNCHANGED <<asked, next_session>>

LEMMA WorldStep ==
  ASSUME Typed, [Next]_vars
  PROVE  \/ UNCHANGED <<asked, uploads, next_session>>
         \/ \E s \in Sessions : Issued(s)
         \/ Advanced
<1>1. CASE UNCHANGED vars
  BY <1>1 DEF vars, history
<1>2. CASE CallUpload \/ RpcStep
  <2>1. CASE UploadReply
    BY <2>1, ReplyIssues
  <2>2. CASE ~UploadReply
    BY <1>2, <2>2 DEF CallUpload, Upload, RpcStep, RecordLabel, CopyLabels, WriteCopy, Poll, GiveUp,
       history
  <2> QED
    BY <2>1, <2>2
<1>3. CASE EventStep
  BY <1>3 DEF EventStep, Receive, Resolve, ErasePending, SaveLabels, history, Advanced
<1>4. CASE StorageStep \/ \E s \in Sessions : Miss(s)
  BY <1>4 DEF StorageStep, EndUpload, Miss, history, Advanced
<1>5. CASE CrashRestart
  BY <1>5 DEF CrashRestart, history
<1> QED
  BY <1>1, <1>2, <1>3, <1>4, <1>5 DEF Next

LEMMA IssuedAt ==
  ASSUME Typed, NEW s \in Sessions, Issued(s)
  PROVE  /\ next_session \in Sessions /\ rpc.content \in Contents /\ rpc.label \in Labels
         /\ asked[s] = [content |-> NoCid, label |-> NoLabel] /\ uploads[s] = NoUpload
         /\ asked[next_session] = [content |-> NoCid, label |-> NoLabel]
         /\ uploads[next_session] = NoUpload
         /\ asked'[s] = [content |-> rpc.content, label |-> rpc.label]
         /\ \A r \in Sessions \ {s} : asked'[r] = asked[r]
         /\ \A r \in Sessions \ {next_session} : uploads'[r] = uploads[r]
         /\ uploads'[next_session] \in {NoUpload, [status |-> "running", content |-> rpc.content]}
<1>1. /\ next_session \in Sessions /\ s >= next_session /\ next_session >= next_session
      /\ rpc.content \in Contents /\ rpc.label \in Labels
  BY StorageAssumption DEF Issued, Typed, TypeOK, CallBounds, Sessions
<1>2. /\ asked \in [Sessions -> [content : Contents \cup {NoCid}, label : Labels \cup {NoLabel}]]
      /\ uploads \in [Sessions -> Uploads]
  BY DEF Typed, TypeOK
<1>3. /\ asked[s] = [content |-> NoCid, label |-> NoLabel] /\ uploads[s] = NoUpload
      /\ asked[next_session] = [content |-> NoCid, label |-> NoLabel]
      /\ uploads[next_session] = NoUpload
  BY <1>1 DEF Typed, Fresh
<1> QED
  BY <1>1, <1>2, <1>3 DEF Issued

LEMMA WorldGrows ==
  ASSUME Typed, [Next]_vars, NEW r \in Sessions
  PROVE  /\ asked[r].content # NoCid => asked'[r] = asked[r]
         /\ uploads[r].status = "told" => uploads'[r] = uploads[r]
<1>1. CASE UNCHANGED <<asked, uploads, next_session>>
  BY <1>1
<1>2. CASE \E s \in Sessions : Issued(s)
  <2>1. PICK s \in Sessions : Issued(s)
    BY <1>2
  <2> QED
    BY <2>1, IssuedAt, EntryTypes
<1>3. CASE Advanced
  BY <1>3, UploadStatus DEF Advanced, Typed, TypeOK
<1> QED
  BY <1>1, <1>2, <1>3, WorldStep

Told(s, c) == uploads[s] = [status |-> "told", content |-> c]
UploadsAsAsked ==
  /\ \A s \in Sessions : uploads[s].status # "none" =>
       asked[s].content \in {NoCid, uploads[s].content}
  /\ \A s \in Sessions, c \in Contents : session_cid[s] = c => Told(s, c)
  /\ handler.stage # "idle" => uploads[handler.session].status = "told"

UploadsInv == UploadsAsAsked /\ StoredIsTrue

LEMMA AsAskedStep ==
  ASSUME Typed, UploadsInv, [Next]_vars, NEW r \in Sessions, uploads'[r].status # "none"
  PROVE  asked'[r].content \in {NoCid, uploads'[r].content}
<1>1. CASE UNCHANGED <<asked, uploads, next_session>>
  BY <1>1 DEF UploadsInv, UploadsAsAsked
<1>2. CASE \E s \in Sessions : Issued(s)
  <2>1. PICK s \in Sessions : Issued(s)
    BY <1>2
  <2>2. CASE r = next_session
    BY <2>1, <2>2, IssuedAt, EntryTypes
  <2>3. CASE r # next_session
    <3>1. uploads'[r] = uploads[r] /\ r # s
      BY <2>1, <2>3, IssuedAt, EntryTypes
    <3> QED
      BY <2>1, <3>1, IssuedAt DEF UploadsInv, UploadsAsAsked
  <2> QED
    BY <2>2, <2>3
<1>3. CASE Advanced
  <2>1. PICK s \in Sessions, status \in {"done", "failed", "told"} :
          /\ uploads[s].status \in {"running", "done"}
          /\ uploads' = [uploads EXCEPT ![s].status = status]
          /\ UNCHANGED asked
    BY <1>3 DEF Advanced
  <2>2. /\ uploads[r].status # "none" /\ uploads'[r].content = uploads[r].content
    BY <2>1, UploadStatus DEF Typed, TypeOK
  <2> QED
    BY <2>1, <2>2 DEF UploadsInv, UploadsAsAsked
<1> QED
  BY <1>1, <1>2, <1>3, WorldStep

\* A cid in memory is that of an upload that was told, and only the handler, which
\* has been told of it, adds one.
LEMMA CidStep ==
  ASSUME Typed, UploadsInv, [Next]_vars, NEW r \in Sessions, NEW c \in Contents, session_cid'[r] = c
  PROVE  Told(r, c)
<1>1. CASE Resolve
  <2>1. /\ handler.session \in Sessions /\ uploads[handler.session].status = "told"
        /\ uploads[handler.session] \in Uploads
        /\ session_cid' = [session_cid EXCEPT ![handler.session] = uploads[handler.session].content]
    BY <1>1 DEF Resolve, Typed, TypeOK, CallBounds, UploadsInv, UploadsAsAsked
  <2>2. CASE r = handler.session
    <3>1. uploads[r].content = c /\ uploads[r].status = "told"
      BY <2>1, <2>2 DEF Typed, TypeOK
    <3> QED
      BY <2>1, <2>2, <3>1 DEF Told, Uploads
  <2>3. CASE r # handler.session
    BY <2>1, <2>3 DEF UploadsInv, UploadsAsAsked, Typed, TypeOK
  <2> QED
    BY <2>2, <2>3
<1>2. CASE ~Resolve
  <2>1. UNCHANGED session_cid \/ CrashRestart
    <3>1. CASE UNCHANGED vars
      BY <3>1 DEF vars
    <3>2. CASE CallUpload \/ RpcStep
      BY <3>2 DEF CallUpload, Upload, RpcStep, UploadReply, UploadAccepted, UploadRefused, ReplyLost,
         Under, RecordLabel, CopyLabels, WriteCopy, Poll, GiveUp
    <3>3. CASE EventStep \/ StorageStep \/ \E s \in Sessions : Miss(s)
      BY <1>2, <3>3 DEF EventStep, Receive, ErasePending, SaveLabels, StorageStep, EndUpload, Miss
    <3> QED
      BY <3>1, <3>2, <3>3 DEF Next
  <2>2. ~CrashRestart
    BY StorageAssumption DEF CrashRestart
  <2> QED
    BY <2>1, <2>2 DEF UploadsInv, UploadsAsAsked
<1> QED
  BY <1>1, <1>2

\* The handler holds what it was told.
LEMMA HandlerTold ==
  ASSUME Typed, UploadsInv, [Next]_vars, handler'.stage # "idle"
  PROVE  uploads'[handler'.session].status = "told"
<1>1. CASE \E s \in Sessions : Receive(s)
  <2>1. PICK s \in Sessions : Receive(s)
    BY <1>1
  <2>2. handler'.session = s /\ uploads'[s] = [status |-> "told", content |-> uploads[s].content]
    BY <2>1, UploadStatus DEF Receive, Typed, TypeOK
  <2> QED
    BY <2>2
<1>2. CASE ~\E s \in Sessions : Receive(s)
  <2>1. handler' = handler \/ handler' = NoHandler \/ (\E stage \in {"named", "save"} :
          handler' = [handler EXCEPT !.stage = stage] /\ handler.stage # "idle")
    <3>1. CASE UNCHANGED vars
      BY <3>1 DEF vars
    <3>2. CASE CallUpload \/ RpcStep
      BY <3>2 DEF CallUpload, Upload, RpcStep, UploadReply, UploadAccepted, UploadRefused, ReplyLost,
         Under, RecordLabel, CopyLabels, WriteCopy, Poll, GiveUp
    <3>3. CASE EventStep \/ StorageStep \/ \E s \in Sessions : Miss(s)
      BY <1>2, <3>3 DEF EventStep, Resolve, ErasePending, SaveLabels, StorageStep, EndUpload, Miss
    <3>4. CASE CrashRestart
      BY <3>4 DEF CrashRestart
    <3> QED
      BY <3>1, <3>2, <3>3, <3>4 DEF Next
  <2>2. handler.stage # "idle" /\ handler'.session = handler.session
    BY <2>1, EntryTypes, HandlerMoves DEF Typed, TypeOK
  <2>3. handler.session \in Sessions /\ uploads[handler.session].status = "told"
    BY <2>2 DEF Typed, CallBounds, UploadsInv, UploadsAsAsked
  <2> QED
    BY <2>2, <2>3, WorldGrows
<1> QED
  BY <1>1, <1>2

\* What the poll returns is the cid of its own session.
LEMMA StoredStep ==
  ASSUME Typed, UploadsInv, [Next]_vars, NEW r \in Sessions, reply'[r] # NoCid
  PROVE  reply'[r] = asked[r].content /\ Told(r, reply'[r])
<1>1. CASE Poll
  <2>1. /\ rpc.session \in Sessions /\ session_cid[rpc.session] # NoCid
        /\ reply' = [reply EXCEPT ![rpc.session] = session_cid[rpc.session]]
        /\ asked[rpc.session].content \in Contents
    BY <1>1 DEF Poll, Typed, CallBounds, UnderWay
  <2>2. CASE r = rpc.session
    <3>1. reply'[r] = session_cid[r] /\ session_cid[r] \in Contents
      BY <2>1, <2>2 DEF Typed, TypeOK
    <3>2. Told(r, session_cid[r])
      BY <3>1 DEF UploadsInv, UploadsAsAsked
    <3>3. asked[r].content = uploads[r].content
      BY <2>1, <2>2, <3>2, StorageAssumption DEF UploadsInv, UploadsAsAsked, Told
    <3> QED
      BY <3>1, <3>2, <3>3 DEF Told
  <2>3. CASE r # rpc.session
    BY <2>1, <2>3 DEF UploadsInv, StoredIsTrue, Told, Typed, TypeOK
  <2> QED
    BY <2>2, <2>3
<1>2. CASE ~Poll
  <2>1. UNCHANGED reply
    <3>1. CASE UNCHANGED vars
      BY <3>1 DEF vars, history
    <3>2. CASE CallUpload \/ RpcStep
      BY <1>2, <3>2 DEF CallUpload, Upload, RpcStep, UploadReply, UploadAccepted, UploadRefused,
         ReplyLost, Under, RecordLabel, CopyLabels, WriteCopy, GiveUp, history
    <3>3. CASE EventStep \/ StorageStep \/ \E s \in Sessions : Miss(s)
      BY <3>3 DEF EventStep, Receive, Resolve, ErasePending, SaveLabels, StorageStep, EndUpload, Miss,
         history
    <3>4. CASE CrashRestart
      BY <3>4 DEF CrashRestart, history
    <3> QED
      BY <3>1, <3>2, <3>3, <3>4 DEF Next
  <2> QED
    BY <2>1 DEF UploadsInv, StoredIsTrue, Told
<1> QED
  BY <1>1, <1>2

LEMMA UploadsInit == Init => UploadsInv
<1> SUFFICES ASSUME Init PROVE UploadsInv
  OBVIOUS
<1>1. UploadsAsAsked
  BY EntryTypes, StorageAssumption DEF Init, UploadsAsAsked
<1>2. StoredIsTrue
  BY DEF Init, StoredIsTrue
<1> QED
  BY <1>1, <1>2 DEF UploadsInv

LEMMA UploadsNext ==
  ASSUME Typed, UploadsInv, [Next]_vars
  PROVE  UploadsInv'
<1>1. \A r \in Sessions : \A c : Told(r, c) => uploads'[r] = [status |-> "told", content |-> c]
  BY WorldGrows DEF Told
<1>2. UploadsAsAsked'
  BY <1>1, AsAskedStep, CidStep, HandlerTold DEF UploadsAsAsked, Told
<1>3. StoredIsTrue'
  <2> SUFFICES ASSUME NEW r \in Sessions, reply'[r] # NoCid
               PROVE  /\ reply'[r] = asked'[r].content
                      /\ uploads'[r] = [status |-> "told", content |-> reply'[r]]
    BY DEF StoredIsTrue
  <2>1. reply'[r] = asked[r].content /\ Told(r, reply'[r])
    BY StoredStep
  <2> QED
    BY <1>1, <2>1, WorldGrows
<1> QED
  BY <1>2, <1>3 DEF UploadsInv

\* "stored" is said only of the file that was given, once the storage module
\* has finished that very upload.
THEOREM StoredMeansStored == Spec => []StoredIsTrue
<1>1. Spec => [](Typed /\ UploadsInv)
  BY TypedInit, TypedNext, UploadsInit, UploadsNext, PTL DEF Spec
<1>2. Typed /\ UploadsInv => StoredIsTrue
  BY DEF UploadsInv
<1> QED
  BY <1>1, <1>2, PTL

(***************************************************************************)
(* Labels.  Wherever the map is, in memory, in its file or in the copy     *)
(* that is on its way there, it holds only what was asked for.             *)
(***************************************************************************)
TrueMap(map) ==
  /\ \A s \in Sessions : map.pending[s] # NoLabel =>
       asked[s].content \in Contents /\ asked[s].label = map.pending[s]
  /\ \A c \in Contents : map.named[c] # NoLabel =>
       \E s \in Sessions : asked[s] = [content |-> c, label |-> map.named[c]] /\ Told(s, c)

MapsAreTrue == TrueMap(cid_labels) /\ TrueMap(saved_labels) /\ TrueMap(rpc.copied)

\* A map that is true stays true.
LEMMA TrueMapKept ==
  ASSUME Typed, [Next]_vars, NEW map \in LabelMaps, TrueMap(map)
  PROVE  TrueMap(map)'
<1>1. \A s \in Sessions : asked[s].content \in Contents => asked'[s] = asked[s]
  BY WorldGrows, StorageAssumption
<1>2. \A s \in Sessions, c \in Contents : Told(s, c) => Told(s, c)'
  BY WorldGrows DEF Told
<1>3. ASSUME NEW s \in Sessions, map.pending[s] # NoLabel
      PROVE  asked'[s].content \in Contents /\ asked'[s].label = map.pending[s]
  BY <1>1, <1>3 DEF TrueMap
<1>4. ASSUME NEW c \in Contents, map.named[c] # NoLabel
      PROVE  \E s \in Sessions : asked'[s] = [content |-> c, label |-> map.named[c]] /\ Told(s, c)'
  <2>1. PICK s \in Sessions : asked[s] = [content |-> c, label |-> map.named[c]] /\ Told(s, c)
    BY <1>4 DEF TrueMap
  <2> QED
    BY <1>1, <1>2, <2>1
<1> QED
  BY <1>3, <1>4 DEF TrueMap

LEMMA TrueNoLabels == TrueMap(NoLabels)
BY EntryTypes DEF TrueMap

\* The handler names a content with the label of a session whose upload it was told.
LEMMA NamesTruly ==
  ASSUME Typed, UploadsInv, TrueMap(cid_labels), Resolve
  PROVE  TrueMap(cid_labels')
<1> DEFINE s == handler.session
           c == uploads[handler.session].content
           label == cid_labels.pending[handler.session]
<1>1. CASE ~Pending(handler.session)
  BY <1>1 DEF Resolve
<1>2. CASE Pending(handler.session)
  <2>1. /\ s \in Sessions /\ uploads[s].status = "told" /\ uploads[s] \in Uploads
        /\ asked[s] \in [content : Contents \cup {NoCid}, label : Labels \cup {NoLabel}]
        /\ cid_labels \in LabelMaps
    BY DEF Resolve, Typed, TypeOK, CallBounds, UploadsInv, UploadsAsAsked
  <2>2. /\ asked[s].content \in Contents /\ asked[s].label = label
        /\ label \in Labels \cup {NoLabel}
    BY <1>2, <2>1 DEF TrueMap, Pending, LabelMaps
  <2>3. c = asked[s].content
    BY <2>1, <2>2, StorageAssumption DEF UploadsInv, UploadsAsAsked
  <2>4. asked[s] = [content |-> c, label |-> label] /\ Told(s, c) /\ c \in Contents
    BY <2>1, <2>2, <2>3 DEF Told, Uploads
  <2>5. /\ cid_labels'.named = [cid_labels.named EXCEPT ![c] = label]
        /\ cid_labels'.pending = cid_labels.pending
    BY <1>2, <2>1, <2>2, <2>4, MapMoves DEF Resolve
  <2>6. cid_labels.named \in [Contents -> Labels \cup {NoLabel}]
    BY <2>1 DEF LabelMaps
  <2> HIDE DEF s, c, label
  <2> QED
    BY <2>1, <2>4, <2>5, <2>6 DEF TrueMap
<1> QED
  BY <1>1, <1>2

\* Each of the three maps is after a step what one of them was, or is true of
\* what was asked before the step.
LEMMA MapsStep ==
  ASSUME Typed, UploadsInv, MapsAreTrue, [Next]_vars
  PROVE  TrueMap(cid_labels') /\ TrueMap(saved_labels') /\ TrueMap(rpc'.copied)
<1>0. rpc \in Calls /\ cid_labels \in LabelMaps /\ rpc.copied \in LabelMaps
  BY DEF Typed, TypeOK, Calls
<1>1. CASE UNCHANGED vars \/ StorageStep \/ (\E s \in Sessions : Receive(s) \/ Miss(s))
  <2>1. UNCHANGED <<cid_labels, saved_labels, rpc>>
    BY <1>1 DEF vars, labels, StorageStep, EndUpload, Receive, Miss
  <2> QED
    BY <2>1 DEF MapsAreTrue
<1>2. CASE CallUpload \/ UploadReply \/ Poll \/ GiveUp
  <2>1. UNCHANGED <<cid_labels, saved_labels>>
    BY <1>2 DEF CallUpload, Upload, UploadReply, UploadAccepted, UploadRefused, ReplyLost, Under, Poll,
       GiveUp, labels
  <2>2. rpc'.copied \in {NoLabels, rpc.copied}
    <3>1. CASE CallUpload
      BY <3>1, UploadMoves DEF CallUpload
    <3>2. CASE UploadReply
      BY <3>2, ReplyIssues DEF Issued, Goes
    <3>3. CASE Poll \/ GiveUp
      BY <3>3, EntryTypes DEF Poll, GiveUp
    <3> QED
      BY <1>2, <3>1, <3>2, <3>3
  <2> QED
    BY <2>1, <2>2, TrueNoLabels DEF MapsAreTrue
<1>3. CASE RecordLabel
  <2>1. /\ rpc.session \in Sessions /\ rpc.label \in Labels /\ rpc.content \in Contents
        /\ asked[rpc.session] = [content |-> rpc.content, label |-> rpc.label]
    BY <1>3 DEF RecordLabel, Typed, CallBounds, UnderWay
  <2>2. /\ cid_labels'.pending = [cid_labels.pending EXCEPT ![rpc.session] = rpc.label]
        /\ cid_labels'.named = cid_labels.named
    BY <1>0, <1>3, <2>1, MapMoves DEF RecordLabel
  <2>3. rpc'.copied = rpc.copied /\ UNCHANGED saved_labels
    BY <1>0, <1>3, CallMoves DEF RecordLabel, Goes
  <2>4. TrueMap(cid_labels')
    BY <1>0, <2>1, <2>2 DEF TrueMap, MapsAreTrue, LabelMaps
  <2> QED
    BY <2>3, <2>4 DEF MapsAreTrue
<1>4. CASE \E part \in Parts : CopyLabels(part)
  <2>1. PICK part \in rpc.left : CopyLabels(part)
    BY <1>4 DEF CopyLabels
  <2>2. PICK copied \in LabelMaps :
          /\ rpc'.copied = copied
          /\ \A other \in Parts : copied[other] = IF other = part THEN cid_labels[part] ELSE rpc.copied[other]
    BY <1>0, <2>1, CopyMoves DEF Goes
  <2>3. /\ copied.pending \in {cid_labels.pending, rpc.copied.pending}
        /\ copied.named \in {cid_labels.named, rpc.copied.named}
    BY <2>2 DEF Parts
  <2>4. TrueMap(copied)
    BY <2>3 DEF TrueMap, MapsAreTrue
  <2>5. UNCHANGED <<cid_labels, saved_labels>>
    BY <2>1 DEF CopyLabels, labels
  <2> QED
    BY <2>2, <2>4, <2>5 DEF MapsAreTrue
<1>5. CASE WriteCopy
  <2>1. UNCHANGED cid_labels /\ rpc'.copied = rpc.copied
    BY <1>0, <1>5, CallMoves DEF WriteCopy, Goes
  <2>2. saved_labels' \in {rpc.copied, saved_labels, NoLabels}
    BY <1>0, <1>5, SaveMoves DEF WriteCopy, Typed
  <2> QED
    BY <2>1, <2>2, TrueNoLabels DEF MapsAreTrue
<1>6. CASE Resolve
  BY <1>6, NamesTruly DEF Resolve, MapsAreTrue
<1>7. CASE ErasePending
  <2>1. handler.session \in Sessions /\ UNCHANGED <<saved_labels, rpc>>
    BY <1>7 DEF ErasePending, Typed, CallBounds
  <2>2. /\ cid_labels'.pending = [cid_labels.pending EXCEPT ![handler.session] = NoLabel]
        /\ cid_labels'.named = cid_labels.named
    BY <1>0, <1>7, <2>1, MapMoves DEF ErasePending
  <2>3. TrueMap(cid_labels')
    BY <1>0, <2>1, <2>2 DEF TrueMap, MapsAreTrue, LabelMaps
  <2> QED
    BY <2>1, <2>3 DEF MapsAreTrue
<1>8. CASE SaveLabels
  <2>1. UNCHANGED <<cid_labels, rpc>>
    BY <1>8 DEF SaveLabels
  <2>2. saved_labels' \in {cid_labels, saved_labels, NoLabels}
    BY <1>0, <1>8, SaveMoves DEF SaveLabels, Typed
  <2> QED
    BY <2>1, <2>2, TrueNoLabels DEF MapsAreTrue
<1>9. CASE CrashRestart
  <2>1. cid_labels' = saved_labels /\ UNCHANGED saved_labels /\ rpc'.copied = NoLabels
    BY <1>9, EntryTypes DEF CrashRestart
  <2> QED
    BY <2>1, TrueNoLabels DEF MapsAreTrue
<1> QED
  BY <1>1, <1>2, <1>3, <1>4, <1>5, <1>6, <1>7, <1>8, <1>9 DEF Next, RpcStep, EventStep

LEMMA MapsInit == Init => MapsAreTrue
<1> SUFFICES ASSUME Init PROVE MapsAreTrue
  OBVIOUS
<1>1. cid_labels = NoLabels /\ saved_labels = NoLabels /\ rpc.copied = NoLabels
  BY EntryTypes DEF Init
<1> QED
  BY <1>1, TrueNoLabels DEF MapsAreTrue

LEMMA MapsNext ==
  ASSUME Typed, UploadsInv, MapsAreTrue, [Next]_vars
  PROVE  MapsAreTrue'
<1>1. cid_labels' \in LabelMaps /\ saved_labels' \in LabelMaps /\ rpc'.copied \in LabelMaps
  BY TypedNext DEF Typed, TypeOK, Calls
<1>2. \A map \in LabelMaps : TrueMap(map) =>
        /\ \A s \in Sessions : map.pending[s] # NoLabel =>
             asked'[s].content \in Contents /\ asked'[s].label = map.pending[s]
        /\ \A c \in Contents : map.named[c] # NoLabel =>
             \E s \in Sessions : /\ asked'[s] = [content |-> c, label |-> map.named[c]]
                                 /\ uploads'[s] = [status |-> "told", content |-> c]
  BY TrueMapKept DEF TrueMap, Told
<1> QED
  BY <1>1, <1>2, MapsStep DEF MapsAreTrue, TrueMap, Told

LEMMA MapsAlways == Spec => [](Typed /\ UploadsInv /\ MapsAreTrue)
BY TypedInit, TypedNext, UploadsInit, UploadsNext, MapsInit, MapsNext, PTL DEF Spec

\* A label in the map, or in its file, was given to a file of that content that
\* is stored, however the copy was torn and whenever the process stopped.
THEOREM LabelsTellTheTruth == Spec => []LabelsAreTrue
<1>1. Typed /\ UploadsInv /\ MapsAreTrue => LabelsAreTrue
  <2> SUFFICES ASSUME MapsAreTrue, NEW map \in {cid_labels, saved_labels}, NEW c \in Contents,
                      map.named[c] # NoLabel
               PROVE  \E s \in Sessions : /\ asked[s] = [content |-> c, label |-> map.named[c]]
                                          /\ uploads[s] = [status |-> "told", content |-> c]
    BY DEF LabelsAreTrue
  <2>1. TrueMap(map)
    BY DEF MapsAreTrue
  <2> QED
    BY <2>1 DEF TrueMap, Told
<1> QED
  BY <1>1, MapsAlways, PTL

(***************************************************************************)
(* The handler names a content before it erases the label under the        *)
(* session: between the two the label stands twice, never nowhere.         *)
(***************************************************************************)
NamedBeforeErased ==
  handler.stage = "named" =>
    /\ asked[handler.session].content \in Contents
    /\ cid_labels.named[asked[handler.session].content] # NoLabel

LabelsInv == Typed /\ UploadsInv /\ MapsAreTrue /\ NamedBeforeErased

\* Naming: the content of the handler's session bears a label then.
LEMMA NamesIt ==
  ASSUME Typed, UploadsInv, MapsAreTrue, Resolve, Pending(handler.session)
  PROVE  /\ asked[handler.session].content \in Contents
         /\ cid_labels'.named =
              [cid_labels.named EXCEPT ![asked[handler.session].content] = cid_labels.pending[handler.session]]
         /\ cid_labels'.pending = cid_labels.pending
<1>1. /\ handler.session \in Sessions /\ uploads[handler.session].status = "told"
      /\ cid_labels \in LabelMaps
  BY DEF Resolve, Typed, TypeOK, CallBounds, UploadsInv, UploadsAsAsked
<1>2. /\ asked[handler.session].content \in Contents
      /\ cid_labels.pending[handler.session] \in Labels \cup {NoLabel}
  BY <1>1 DEF MapsAreTrue, TrueMap, Pending, LabelMaps
<1>3. uploads[handler.session].content = asked[handler.session].content
  BY <1>1, <1>2, StorageAssumption DEF UploadsInv, UploadsAsAsked
<1> QED
  BY <1>1, <1>2, <1>3, MapMoves DEF Resolve

\* Without a crash no content loses its label, and a session only the handler's.
LEMMA LabelsMove ==
  ASSUME Typed, UploadsInv, MapsAreTrue, [Next]_vars, crashes' = crashes
  PROVE  /\ \A c \in Contents : cid_labels.named[c] # NoLabel => cid_labels'.named[c] # NoLabel
         /\ \A s \in Sessions : cid_labels.pending[s] # NoLabel =>
              cid_labels'.pending[s] # NoLabel \/ (handler.stage = "named" /\ s = handler.session)
<1>0. cid_labels \in LabelMaps
  BY DEF Typed, TypeOK
<1>1. CASE UNCHANGED cid_labels
  BY <1>1
<1>2. CASE RecordLabel
  <2>1. rpc.session \in Sessions /\ rpc.label \in Labels
    BY <1>2 DEF RecordLabel, Typed, CallBounds, UnderWay
  <2>2. /\ cid_labels'.pending = [cid_labels.pending EXCEPT ![rpc.session] = rpc.label]
        /\ cid_labels'.named = cid_labels.named
    BY <1>0, <1>2, <2>1, MapMoves DEF RecordLabel
  <2> QED
    BY <1>0, <2>1, <2>2, StorageAssumption DEF LabelMaps
<1>3. CASE Resolve /\ Pending(handler.session)
  BY <1>0, <1>3, NamesIt DEF LabelMaps, Pending
<1>4. CASE ErasePending
  <2>1. handler.session \in Sessions /\ handler.stage = "named"
    BY <1>4 DEF ErasePending, Typed, CallBounds
  <2>2. /\ cid_labels'.pending = [cid_labels.pending EXCEPT ![handler.session] = NoLabel]
        /\ cid_labels'.named = cid_labels.named
    BY <1>0, <1>4, <2>1, MapMoves DEF ErasePending
  <2> QED
    BY <1>0, <2>1, <2>2 DEF LabelMaps
<1>5. CASE UNCHANGED vars
  BY <1>1, <1>5 DEF vars, labels
<1>6. CASE CallUpload \/ RpcStep
  BY <1>1, <1>2, <1>6 DEF CallUpload, Upload, RpcStep, UploadReply, UploadAccepted, UploadRefused,
     ReplyLost, Under, CopyLabels, WriteCopy, Poll, GiveUp, labels
<1>7. CASE EventStep \/ StorageStep \/ \E s \in Sessions : Miss(s)
  <2>1. CASE Resolve /\ ~Pending(handler.session)
    BY <1>1, <2>1 DEF Resolve
  <2> QED
    BY <1>1, <1>3, <1>4, <1>7, <2>1 DEF EventStep, Receive, SaveLabels, StorageStep, EndUpload, Miss,
       labels
<1>8. ~CrashRestart
  BY StorageAssumption DEF CrashRestart, Typed, TypeOK
<1> QED
  BY <1>5, <1>6, <1>7, <1>8 DEF Next

LEMMA NamedFirst ==
  ASSUME LabelsInv, [Next]_vars
  PROVE  NamedBeforeErased'
<1> SUFFICES ASSUME handler'.stage = "named"
             PROVE  /\ asked'[handler'.session].content \in Contents
                    /\ cid_labels'.named[asked'[handler'.session].content] # NoLabel
  BY DEF NamedBeforeErased
<1>0. Typed /\ UploadsInv /\ MapsAreTrue /\ handler \in Handlers
  BY DEF LabelsInv, Typed, TypeOK
<1>1. CASE Resolve
  <2>1. Pending(handler.session)
    BY <1>1, EntryTypes DEF Resolve
  <2>2. handler'.session = handler.session /\ UNCHANGED asked
    BY <1>0, <1>1, <2>1, HandlerMoves DEF Resolve, history
  <2>3. /\ asked[handler.session].content \in Contents
        /\ cid_labels'.named =
             [cid_labels.named EXCEPT ![asked[handler.session].content] = cid_labels.pending[handler.session]]
    BY <1>0, <1>1, <2>1, NamesIt
  <2> QED
    BY <1>0, <2>1, <2>2, <2>3 DEF Pending, Typed, TypeOK, LabelMaps
<1>2. CASE ~Resolve
  <2>1. UNCHANGED <<handler, crashes>>
    <3>1. CASE UNCHANGED vars
      BY <3>1 DEF vars
    <3>2. CASE CallUpload \/ RpcStep
      BY <3>2 DEF CallUpload, Upload, RpcStep, UploadReply, UploadAccepted, UploadRefused, ReplyLost,
         Under, RecordLabel, CopyLabels, WriteCopy, Poll, GiveUp
    <3>3. CASE \E s \in Sessions : Receive(s)
      BY <3>3 DEF Receive
    <3>4. CASE ErasePending \/ SaveLabels
      <4>1. handler'.stage \in {"save", "idle"}
        BY <1>0, <3>4, HandlerMoves, EntryTypes DEF ErasePending, SaveLabels
      <4> QED
        BY <4>1
    <3>5. CASE StorageStep \/ \E s \in Sessions : Miss(s)
      BY <3>5 DEF StorageStep, EndUpload, Miss
    <3>6. CASE CrashRestart
      BY <3>6, EntryTypes DEF CrashRestart
    <3> QED
      BY <1>2, <3>1, <3>2, <3>3, <3>4, <3>5, <3>6 DEF Next, EventStep
  <2>2. /\ handler.session \in Sessions /\ asked[handler.session].content \in Contents
        /\ cid_labels.named[asked[handler.session].content] # NoLabel
    BY <2>1 DEF LabelsInv, NamedBeforeErased, Typed, CallBounds
  <2>3. asked'[handler.session] = asked[handler.session]
    BY <1>0, <2>2, WorldGrows, StorageAssumption
  <2> QED
    BY <1>0, <2>1, <2>2, <2>3, LabelsMove
<1> QED
  BY <1>1, <1>2

LEMMA LabelsAlways == Spec => []LabelsInv
<1>1. Init => LabelsInv
  <2>1. Init => NamedBeforeErased
    BY EntryTypes DEF Init, NamedBeforeErased
  <2> QED
    BY <2>1, TypedInit, UploadsInit, MapsInit DEF LabelsInv
<1>2. ASSUME LabelsInv, [Next]_vars
      PROVE  LabelsInv'
  BY <1>2, TypedNext, UploadsNext, MapsNext, NamedFirst DEF LabelsInv
<1> QED
  BY <1>1, <1>2, PTL DEF Spec

LEMMA LabelKept ==
  ASSUME LabelsInv, [Next]_vars, crashes' = crashes, NEW s \in Sessions, HasLabel(s)
  PROVE  HasLabel(s)'
<1>0. /\ Typed /\ UploadsInv /\ MapsAreTrue
      /\ asked[s].content \in Contents \cup {NoCid}
  BY DEF LabelsInv, Typed, TypeOK
<1>1. CASE cid_labels'.pending[s] # NoLabel
  BY <1>1 DEF HasLabel, Pending
<1>2. CASE cid_labels'.pending[s] = NoLabel
  <2>1. asked[s].content \in Contents /\ cid_labels.named[asked[s].content] # NoLabel
    <3>1. CASE Pending(s)
      <4>1. handler.stage = "named" /\ s = handler.session
        BY <1>0, <1>2, <3>1, LabelsMove DEF Pending
      <4> QED
        BY <4>1 DEF LabelsInv, NamedBeforeErased
    <3> QED
      BY <1>0, <3>1 DEF HasLabel
  <2>2. asked'[s] = asked[s] /\ cid_labels'.named[asked[s].content] # NoLabel
    BY <1>0, <2>1, WorldGrows, LabelsMove, StorageAssumption
  <2> QED
    BY <2>1, <2>2, StorageAssumption DEF HasLabel
<1> QED
  BY <1>1, <1>2

\* While the process lives a label that was recorded is never lost: it stands
\* under its session until it stands under the content uploaded there.
THEOREM LabelsSurviveTheMove == Spec => LabelsAreKept
<1>1. ASSUME LabelsInv, [Next]_vars
      PROVE  [crashes' = crashes => \A s \in Sessions : HasLabel(s) => HasLabel(s)']_vars
  BY <1>1, LabelKept
<1> QED
  BY <1>1, LabelsAlways, PTL DEF Spec, LabelsAreKept

(***************************************************************************)
(* The file.  As long as the handler did not come between, what the RPC    *)
(* thread has copied of the map is what the map still is.                  *)
(***************************************************************************)
CopyIsCurrent ==
  Saving /\ ~raced =>
    LockFree /\ \A part \in Parts \ rpc.left : rpc.copied[part] = cid_labels[part]

SavedInv == CopyIsCurrent /\ SavedUnlessRaced

\* Two maps with the same parts are the same.
LEMMA SameMap ==
  ASSUME NEW m \in LabelMaps, NEW n \in LabelMaps, \A part \in Parts : m[part] = n[part]
  PROVE  m = n
BY DEF LabelMaps, Parts

LEMMA SavedRpcStep ==
  ASSUME Typed, SavedInv, RecordLabel \/ (\E part \in Parts : CopyLabels(part)) \/ WriteCopy
  PROVE  SavedInv'
<1>0. rpc \in Calls /\ rpc.copied \in LabelMaps /\ cid_labels \in LabelMaps
  BY DEF Typed, TypeOK, Calls
<1>1. CASE RecordLabel
  <2>1. rpc'.stage = "copy" /\ rpc'.left = Parts
    BY <1>0, <1>1, CallMoves DEF RecordLabel, Goes
  <2>2. LockFree'
    BY <1>1 DEF RecordLabel, LockFree
  <2> QED
    BY <2>1, <2>2 DEF SavedInv, CopyIsCurrent, SavedUnlessRaced, Saving
<1>2. CASE \E part \in Parts : CopyLabels(part)
  <2>1. PICK part \in rpc.left : CopyLabels(part)
    BY <1>2 DEF CopyLabels
  <2>2. PICK copied \in LabelMaps :
          /\ Goes(IF rpc.left = {part} THEN "write" ELSE "copy", rpc.session, copied, rpc.left \ {part})
          /\ \A other \in Parts : copied[other] = IF other = part THEN cid_labels[part] ELSE rpc.copied[other]
    BY <1>0, <2>1, CopyMoves
  <2>3. /\ rpc'.stage \in {"write", "copy"} /\ rpc'.left = rpc.left \ {part} /\ rpc'.copied = copied
        /\ Saving /\ UNCHANGED <<raced, handler, cid_labels>>
    BY <2>1, <2>2 DEF Goes, CopyLabels, Saving, labels
  <2>4. CASE raced
    BY <2>3, <2>4 DEF SavedInv, CopyIsCurrent, SavedUnlessRaced, Saving
  <2>5. CASE ~raced
    <3>1. LockFree /\ \A other \in Parts \ rpc.left : rpc.copied[other] = cid_labels[other]
      BY <2>3, <2>5 DEF SavedInv, CopyIsCurrent
    <3>2. \A other \in Parts \ rpc'.left : rpc'.copied[other] = cid_labels'[other]
      BY <2>2, <2>3, <3>1
    <3> QED
      BY <2>3, <3>1, <3>2 DEF SavedInv, CopyIsCurrent, SavedUnlessRaced, Saving, LockFree
  <2> QED
    BY <2>4, <2>5
<1>3. CASE WriteCopy
  <2>1. /\ rpc'.stage = "poll" /\ Saving /\ rpc.left = {}
        /\ UNCHANGED <<raced, handler, cid_labels>>
    BY <1>0, <1>3, CallMoves DEF WriteCopy, Goes, Saving, Typed, CallBounds
  <2>2. ~raced => rpc.copied = cid_labels
    BY <1>0, <2>1, SameMap DEF SavedInv, CopyIsCurrent
  <2>3. saveFailures' = 0 => saved_labels' = rpc.copied
    BY <1>0, <1>3, SaveMoves DEF WriteCopy, Typed
  <2> QED
    BY <2>1, <2>2, <2>3 DEF SavedInv, CopyIsCurrent, SavedUnlessRaced, Saving
<1> QED
  BY <1>1, <1>2, <1>3

LEMMA SavedEventStep ==
  ASSUME Typed, SavedInv, Resolve \/ ErasePending \/ SaveLabels
  PROVE  SavedInv'
<1>0. handler \in Handlers /\ UNCHANGED rpc /\ cid_labels \in LabelMaps
  BY DEF Typed, TypeOK, Resolve, ErasePending, SaveLabels
<1>1. CASE ErasePending \/ (Resolve /\ Pending(handler.session))
  <2>1. handler'.stage \in {"named", "save"} /\ raced' = (raced \/ Saving)
    BY <1>0, <1>1, HandlerMoves DEF ErasePending, Resolve
  <2> QED
    BY <1>0, <2>1 DEF SavedInv, CopyIsCurrent, SavedUnlessRaced, Saving, LockFree
<1>2. CASE Resolve /\ ~Pending(handler.session)
  <2>1. /\ handler.stage = "received" /\ handler'.stage = "idle"
        /\ UNCHANGED <<cid_labels, saved_labels, saveFailures, raced>>
    BY <1>2, EntryTypes DEF Resolve
  <2> QED
    BY <1>0, <2>1 DEF SavedInv, CopyIsCurrent, SavedUnlessRaced, Saving, LockFree
<1>3. CASE SaveLabels
  <2>1. /\ handler.stage = "save" /\ raced' = (raced /\ Saving) /\ UNCHANGED cid_labels
    BY <1>3 DEF SaveLabels
  <2>2. saveFailures' = 0 => saved_labels' = cid_labels
    BY <1>0, <1>3, SaveMoves DEF SaveLabels, Typed
  <2>3. Saving => raced
    BY <2>1 DEF SavedInv, CopyIsCurrent, LockFree
  <2> QED
    BY <1>0, <2>1, <2>2, <2>3 DEF SavedInv, CopyIsCurrent, SavedUnlessRaced, Saving
<1> QED
  BY <1>1, <1>2, <1>3

LEMMA SavedNext ==
  ASSUME Typed, SavedInv, [Next]_vars
  PROVE  SavedInv'
<1>1. CASE UNCHANGED vars
  BY <1>1 DEF vars, labels, SavedInv, CopyIsCurrent, SavedUnlessRaced, Saving, LockFree
<1>2. CASE CallUpload \/ UploadReply \/ Poll \/ GiveUp
  <2>1. ~Saving /\ rpc'.stage \in {"upload", "label", "idle"}
    <3>1. CASE CallUpload
      BY <3>1, UploadMoves DEF CallUpload, Upload, Saving
    <3>2. CASE UploadReply
      BY <3>2, ReplyIssues DEF Issued, Goes, Saving
    <3>3. CASE Poll \/ GiveUp
      BY <3>3, EntryTypes DEF Poll, GiveUp, Saving
    <3> QED
      BY <1>2, <3>1, <3>2, <3>3
  <2>2. UNCHANGED <<cid_labels, saved_labels, handler, saveFailures, raced>>
    BY <1>2 DEF CallUpload, Upload, UploadReply, UploadAccepted, UploadRefused, ReplyLost, Under, Poll,
       GiveUp, labels
  <2> QED
    BY <2>1, <2>2 DEF SavedInv, CopyIsCurrent, SavedUnlessRaced, Saving, LockFree
<1>3. CASE StorageStep \/ \E s \in Sessions : Receive(s) \/ Miss(s)
  <2>1. /\ UNCHANGED <<cid_labels, saved_labels, rpc, saveFailures, raced>>
        /\ LockFree' = LockFree
    BY <1>3 DEF StorageStep, EndUpload, Receive, Miss, labels, LockFree
  <2> QED
    BY <2>1 DEF SavedInv, CopyIsCurrent, SavedUnlessRaced, Saving
<1>4. CASE CrashRestart
  <2>1. cid_labels' = saved_labels /\ UNCHANGED saved_labels /\ rpc'.stage = "idle"
    BY <1>4, EntryTypes DEF CrashRestart
  <2> QED
    BY <2>1 DEF SavedInv, CopyIsCurrent, SavedUnlessRaced, Saving
<1> QED
  BY <1>1, <1>2, <1>3, <1>4, SavedRpcStep, SavedEventStep DEF Next, RpcStep, EventStep

\* cid_labels.json holds the map whenever both threads are done with it, unless
\* a write failed or the handler came between a copy of the map and its write.
THEOREM TheFileIsTheMap == Spec => []SavedUnlessRaced
<1>1. Init => SavedInv
  <2> SUFFICES ASSUME Init PROVE SavedInv
    OBVIOUS
  <2>1. rpc.stage = "idle" /\ cid_labels = saved_labels
    BY EntryTypes DEF Init
  <2> QED
    BY <2>1 DEF SavedInv, CopyIsCurrent, SavedUnlessRaced, Saving
<1>2. SavedInv => SavedUnlessRaced
  BY DEF SavedInv
<1> QED
  BY <1>1, <1>2, TypedInit, TypedNext, SavedNext, PTL DEF Spec
=============================================================================
