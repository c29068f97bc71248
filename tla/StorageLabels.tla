--------------------------- MODULE StorageLabels ---------------------------
(***************************************************************************)
(* storage_upload and the labels of stored files (agent_module_impl.cpp).  *)
(* Two threads share the map cid_labels: the RPC thread records the label  *)
(* of an upload under its session and waits for the content address (cid); *)
(* the event thread of the storage module receives storageUploadDone and   *)
(* moves the label from the session to the cid.  storage_mu guards the     *)
(* map, but not the RPC thread's copy of it to cid_labels.json.            *)
(*                                                                         *)
(* Storage is content-addressed: a content stands for its own cid.  Only   *)
(* one call is in progress on the RPC thread, and one event is handled at  *)
(* a time.                                                                 *)
(***************************************************************************)
EXTENDS Integers

CONSTANTS
  Contents,         \* what the files hold
  Labels,
  NoCid, NoLabel,   \* no cid, no label
  MaxSessions,      \* bound: session ids given out
  MaxCrashes,       \* bound: process crashes
  MaxSaveFailures   \* bound: writes of cid_labels.json that fail

ASSUME StorageAssumption ==
  /\ NoCid \notin Contents
  /\ NoLabel \notin Labels
  /\ MaxSessions \in Nat
  /\ MaxCrashes \in Nat
  /\ MaxSaveFailures \in Nat

Sessions == 1..MaxSessions
Parts == {"pending", "named"}

\* The map of labels: the entries "__pending__" + session, and those under a cid.
LabelMaps == [pending : [Sessions -> Labels \cup {NoLabel}],
              named : [Contents -> Labels \cup {NoLabel}]]
NoLabels == [pending |-> [s \in Sessions |-> NoLabel], named |-> [c \in Contents |-> NoLabel]]

\* An upload in the storage module (external); "told" is done, and the event sent.
Uploads == [status : {"none", "running", "done", "failed", "told"},
            content : Contents \cup {NoCid}]
NoUpload == [status |-> "none", content |-> NoCid]

\* storage_upload in progress: `copied` is the part of the map already read
\* for the file, `left` the part still to be read.
Calls == [stage : {"idle", "upload", "label", "copy", "write", "poll"},
          content : Contents \cup {NoCid},
          label : Labels \cup {NoLabel},
          session : 0..MaxSessions,
          copied : LabelMaps,
          left : SUBSET Parts]
NoCall == [stage |-> "idle", content |-> NoCid, label |-> NoLabel, session |-> 0,
           copied |-> NoLabels, left |-> {}]

\* The storageUploadDone handler in progress.
Handlers == [stage : {"idle", "received", "named", "save"}, session : 0..MaxSessions]
NoHandler == [stage |-> "idle", session |-> 0]

VARIABLES
  subscribed,      \* storage_handler_registered
  session_cid,
  cid_labels,
  saved_labels,    \* cid_labels.json
  rpc,             \* the call on the RPC thread
  handler,         \* the event on the event thread
  uploads,         \* the storage module's uploads (external)
  next_session,    \* the next fresh session id
  crashes, saveFailures,
  asked,           \* history: content and label of the call that used a session
  reply,           \* history: the cid that call returned
  raced            \* history: the map changed while the RPC thread was saving it, and
                   \* was not saved since

labels == <<cid_labels, saved_labels>>
history == <<asked, reply>>
vars == <<subscribed, session_cid, labels, rpc, handler, uploads, next_session,
          crashes, saveFailures, history, raced>>

Init ==
  /\ subscribed = FALSE
  /\ session_cid = [s \in Sessions |-> NoCid]
  /\ cid_labels = NoLabels
  /\ saved_labels = NoLabels
  /\ rpc = NoCall
  /\ handler = NoHandler
  /\ uploads = [s \in Sessions |-> NoUpload]
  /\ next_session = 1
  /\ crashes = 0
  /\ saveFailures = 0
  /\ asked = [s \in Sessions |-> [content |-> NoCid, label |-> NoLabel]]
  /\ reply = [s \in Sessions |-> NoCid]
  /\ raced = FALSE

\* save_json_file: the old content stays, or what is left reads as empty, when
\* it fails, and nobody looks at the result.
Save(content) ==
  \/ saved_labels' = content /\ UNCHANGED saveFailures
  \/ /\ saveFailures < MaxSaveFailures
     /\ saveFailures' = saveFailures + 1
     /\ saved_labels' \in {saved_labels, NoLabels}

\* storage_mu: the handler holds it from its first change to its save.
LockFree == handler.stage \notin {"named", "save"}
Saving == rpc.stage \in {"copy", "write"}

(***************************************************************************)
(* The RPC thread.                                                         *)
(***************************************************************************)

\* storage_upload subscribes, if it can and has not yet, and calls uploadUrl.
Upload(content, label) ==
  /\ rpc.stage = "idle"
  /\ next_session < MaxSessions
  /\ subscribed' \in {subscribed, TRUE}
  /\ rpc' = [NoCall EXCEPT !.stage = "upload", !.content = content, !.label = label]
  /\ UNCHANGED <<session_cid, labels, handler, uploads, next_session, crashes,
                 saveFailures, history, raced>>

\* The upload goes on under a session: the storage module's, or one made here.
Under(session) ==
  /\ rpc' = [rpc EXCEPT !.stage = "label", !.session = session]
  /\ asked' = [asked EXCEPT ![session] = [content |-> rpc.content, label |-> rpc.label]]
  /\ next_session' = session + 1
  /\ UNCHANGED <<subscribed, session_cid, labels, handler, crashes, saveFailures, reply, raced>>

Started(session) ==
  uploads' = [uploads EXCEPT ![session] = [status |-> "running", content |-> rpc.content]]

UploadAccepted == rpc.stage = "upload" /\ Under(next_session) /\ Started(next_session)

\* uploadUrl fails or throws; the upload may have started all the same, under
\* a session the agent does not know.
UploadRefused == rpc.stage = "upload" /\ Under(next_session) /\ UNCHANGED uploads
ReplyLost == rpc.stage = "upload" /\ Under(next_session + 1) /\ Started(next_session)

RecordLabel ==
  /\ rpc.stage = "label"
  /\ LockFree
  /\ cid_labels' = [cid_labels EXCEPT !.pending[rpc.session] = rpc.label]
  /\ rpc' = [rpc EXCEPT !.stage = "copy", !.left = Parts]
  /\ raced' = FALSE
  /\ UNCHANGED <<subscribed, session_cid, saved_labels, handler, uploads, next_session,
                 crashes, saveFailures, history>>

\* save_cid_map on the RPC thread goes through the map without the lock, in
\* hash order, and meets what the handler does to it meanwhile.
CopyLabels(part) ==
  /\ rpc.stage = "copy"
  /\ part \in rpc.left
  /\ rpc' = [rpc EXCEPT !.copied[part] = cid_labels[part],
                        !.left = @ \ {part},
                        !.stage = IF rpc.left = {part} THEN "write" ELSE "copy"]
  /\ UNCHANGED <<subscribed, session_cid, labels, handler, uploads, next_session, crashes,
                 saveFailures, history, raced>>

WriteCopy ==
  /\ rpc.stage = "write"
  /\ Save(rpc.copied)
  /\ rpc' = [rpc EXCEPT !.stage = "poll"]
  /\ UNCHANGED <<subscribed, session_cid, cid_labels, handler, uploads, next_session, crashes,
                 history, raced>>

\* Slips: any upload that is done will do; the session stands in for its cid.
PollAs(answers) ==
  /\ rpc.stage = "poll"
  /\ LockFree
  /\ \E answer \in answers : reply' = [reply EXCEPT ![rpc.session] = answer]
  /\ rpc' = NoCall
  /\ UNCHANGED <<subscribed, session_cid, labels, handler, uploads, next_session, crashes,
                 saveFailures, asked, raced>>

PollAny == PollAs({session_cid[s] : s \in Sessions} \ {NoCid})
PollSession ==
  /\ rpc.stage = "poll"
  /\ session_cid[rpc.session] # NoCid
  /\ PollAs({rpc.session})

\* The poll finds the session's cid, and storage_upload returns it.
Poll ==
  /\ rpc.stage = "poll"
  /\ LockFree
  /\ session_cid[rpc.session] # NoCid
  /\ reply' = [reply EXCEPT ![rpc.session] = session_cid[rpc.session]]
  /\ rpc' = NoCall
  /\ UNCHANGED <<subscribed, session_cid, labels, handler, uploads, next_session, crashes,
                 saveFailures, asked, raced>>

\* A slip: the poll ends only for a failed upload.
GiveUpOnFailure ==
  /\ rpc.stage = "poll"
  /\ LockFree
  /\ uploads[rpc.session].status = "failed"
  /\ rpc' = NoCall
  /\ UNCHANGED <<subscribed, session_cid, labels, handler, uploads, next_session, crashes,
                 saveFailures, history, raced>>

\* The last of the polls (24, half a second apart) finds nothing either.
GiveUp ==
  /\ rpc.stage = "poll"
  /\ LockFree
  /\ session_cid[rpc.session] = NoCid
  /\ rpc' = NoCall
  /\ UNCHANGED <<subscribed, session_cid, labels, handler, uploads, next_session, crashes,
                 saveFailures, history, raced>>

(***************************************************************************)
(* The event thread.                                                       *)
(***************************************************************************)

\* storageUploadDone, with success, reaches a subscribed agent ...
Receive(s) ==
  /\ uploads[s].status = "done"
  /\ subscribed
  /\ handler.stage = "idle"
  /\ uploads' = [uploads EXCEPT ![s].status = "told"]
  /\ handler' = [stage |-> "received", session |-> s]
  /\ UNCHANGED <<subscribed, session_cid, labels, rpc, next_session, crashes, saveFailures,
                 history, raced>>

\* ... and no other.
Miss(s) ==
  /\ uploads[s].status = "done"
  /\ ~subscribed
  /\ uploads' = [uploads EXCEPT ![s].status = "told"]
  /\ UNCHANGED <<subscribed, session_cid, labels, rpc, handler, next_session, crashes,
                 saveFailures, history, raced>>

Pending(s) == cid_labels.pending[s] # NoLabel

\* Slips: the label of the call in progress is taken for the session's; the
\* label is dropped; the pending entry is not found.
Resolved(name, stage) ==
  /\ handler.stage = "received"
  /\ session_cid' = [session_cid EXCEPT ![handler.session] = uploads[handler.session].content]
  /\ IF Pending(handler.session)
     THEN /\ cid_labels' = [cid_labels EXCEPT !.named[uploads[handler.session].content] = name]
          /\ handler' = [handler EXCEPT !.stage = stage]
          /\ raced' = (raced \/ Saving)
     ELSE /\ handler' = NoHandler
          /\ UNCHANGED <<cid_labels, raced>>
  /\ UNCHANGED <<subscribed, saved_labels, rpc, uploads, next_session, crashes, saveFailures,
                 history>>
ResolveCallLabel ==
  Resolved(IF rpc.label # NoLabel THEN rpc.label ELSE cid_labels.pending[handler.session], "named")
ResolveDropping == Resolved(cid_labels.named[uploads[handler.session].content], "named")
ResolveNothing ==
  /\ handler.stage = "received"
  /\ session_cid' = [session_cid EXCEPT ![handler.session] = uploads[handler.session].content]
  /\ handler' = NoHandler
  /\ UNCHANGED <<subscribed, labels, rpc, uploads, next_session, crashes, saveFailures, history,
                 raced>>

\* The handler takes the lock, records the cid, and puts the label under the
\* cid when there is one under the session.
Resolve ==
  /\ handler.stage = "received"
  /\ session_cid' = [session_cid EXCEPT ![handler.session] = uploads[handler.session].content]
  /\ IF Pending(handler.session)
     THEN /\ cid_labels' = [cid_labels EXCEPT
               !.named[uploads[handler.session].content] = cid_labels.pending[handler.session]]
          /\ handler' = [handler EXCEPT !.stage = "named"]
          /\ raced' = (raced \/ Saving)
     ELSE /\ handler' = NoHandler
          /\ UNCHANGED <<cid_labels, raced>>
  /\ UNCHANGED <<subscribed, saved_labels, rpc, uploads, next_session, crashes, saveFailures,
                 history>>

\* A slip: the handler ends without saving.
ErasePendingUnsaved ==
  /\ handler.stage = "named"
  /\ cid_labels' = [cid_labels EXCEPT !.pending[handler.session] = NoLabel]
  /\ handler' = NoHandler
  /\ raced' = (raced \/ Saving)
  /\ UNCHANGED <<subscribed, session_cid, saved_labels, rpc, uploads, next_session, crashes,
                 saveFailures, history>>

ErasePending ==
  /\ handler.stage = "named"
  /\ cid_labels' = [cid_labels EXCEPT !.pending[handler.session] = NoLabel]
  /\ handler' = [handler EXCEPT !.stage = "save"]
  /\ raced' = (raced \/ Saving)
  /\ UNCHANGED <<subscribed, session_cid, saved_labels, rpc, uploads, next_session, crashes,
                 saveFailures, history>>

SaveLabels ==
  /\ handler.stage = "save"
  /\ Save(cid_labels)
  /\ handler' = NoHandler
  /\ raced' = (raced /\ Saving)
  /\ UNCHANGED <<subscribed, session_cid, cid_labels, rpc, uploads, next_session, crashes,
                 history>>

(***************************************************************************)
(* The storage module (external) and crashes.                              *)
(***************************************************************************)
EndUpload(s, status) ==
  /\ uploads[s].status = "running"
  /\ uploads' = [uploads EXCEPT ![s].status = status]
  /\ UNCHANGED <<subscribed, session_cid, labels, rpc, handler, next_session, crashes,
                 saveFailures, history, raced>>

\* The process stops and a new one loads the map; who was subscribed is gone.
\* The torn iteration of CopyLabels may end so as well.
CrashRestart ==
  /\ crashes < MaxCrashes
  /\ crashes' = crashes + 1
  /\ subscribed' = FALSE
  /\ session_cid' = [s \in Sessions |-> NoCid]
  /\ cid_labels' = saved_labels
  /\ rpc' = NoCall
  /\ handler' = NoHandler
  /\ raced' = FALSE
  /\ UNCHANGED <<saved_labels, uploads, next_session, saveFailures, history>>

CallUpload == \E content \in Contents, label \in Labels : Upload(content, label)

UploadReply == UploadAccepted \/ UploadRefused \/ ReplyLost

\* The steps of the two threads that are under way.
RpcStep ==
  UploadReply \/ RecordLabel \/ (\E part \in Parts : CopyLabels(part)) \/ WriteCopy \/ Poll \/ GiveUp
EventStep == (\E s \in Sessions : Receive(s)) \/ Resolve \/ ErasePending \/ SaveLabels
StorageStep == \E s \in Sessions : EndUpload(s, "done") \/ EndUpload(s, "failed")

Next ==
  \/ CallUpload \/ RpcStep \/ EventStep \/ StorageStep
  \/ \E s \in Sessions : Miss(s)
  \/ CrashRestart

Spec == Init /\ [][Next]_vars

\* Both threads go on, and an upload ends; nobody has to call or to crash.
FairSpec == Spec /\ WF_vars(RpcStep) /\ WF_vars(EventStep) /\ WF_vars(StorageStep)

(***************************************************************************)
(* Properties.                                                             *)
(***************************************************************************)

\* Every variable keeps its type.
TypeOK ==
  /\ subscribed \in BOOLEAN
  /\ session_cid \in [Sessions -> Contents \cup {NoCid}]
  /\ cid_labels \in LabelMaps
  /\ saved_labels \in LabelMaps
  /\ rpc \in Calls
  /\ handler \in Handlers
  /\ uploads \in [Sessions -> Uploads]
  /\ next_session \in 1..MaxSessions + 1
  /\ crashes \in 0..MaxCrashes
  /\ saveFailures \in 0..MaxSaveFailures
  /\ asked \in [Sessions -> [content : Contents \cup {NoCid}, label : Labels \cup {NoLabel}]]
  /\ reply \in [Sessions -> Contents \cup {NoCid}]
  /\ raced \in BOOLEAN

\* storage_upload returns "stored" only with the cid of the file it was given,
\* and only when the storage module has finished that very upload.
StoredIsTrue ==
  \A s \in Sessions :
    reply[s] # NoCid =>
      reply[s] = asked[s].content /\ uploads[s] = [status |-> "told", content |-> reply[s]]

\* A cid bears a label only if a file of that content was uploaded with that
\* label, in the map and in its file, whatever crashes and torn copies there are.
LabelsAreTrue ==
  \A map \in {cid_labels, saved_labels}, c \in Contents :
    map.named[c] # NoLabel =>
      \E s \in Sessions : asked[s] = [content |-> c, label |-> map.named[c]]
                          /\ uploads[s] = [status |-> "told", content |-> c]

\* While the process lives, the handler moves a label but never loses it: it
\* stands under the session or, later, under the content uploaded there.
HasLabel(s) == Pending(s) \/ (asked[s].content # NoCid /\ cid_labels.named[asked[s].content] # NoLabel)
LabelsAreKept ==
  [][crashes' = crashes => \A s \in Sessions : HasLabel(s) => HasLabel(s)']_vars

\* cid_labels.json holds the map whenever both threads are done with it, unless
\* a write failed or the handler changed the map while the RPC thread was
\* copying it or about to write its copy.
SavedUnlessRaced ==
  ~Saving /\ LockFree /\ saveFailures = 0 /\ ~raced => saved_labels = cid_labels

\* storage_upload returns, with the cid or without.
UploadReturns == rpc.stage # "idle" ~> rpc.stage = "idle"

\* A label recorded while its upload is still running ends under the cid,
\* unless the upload fails or the process crashes.
LabelIsResolved ==
  \A s \in Sessions :
    Pending(s) /\ uploads[s].status = "running" /\ subscribed ~>
      ~Pending(s) \/ uploads[s].status = "failed" \/ crashes > 0

\* "the storageUploadDone handler remaps it to the CID when the upload
\* completes": once the agent knows the cid of a session, and both threads are
\* at rest, no label is left under the session.
RemappedWhenComplete ==
  rpc.stage = "idle" /\ handler.stage = "idle" =>
    \A s \in Sessions : session_cid[s] # NoCid => ~Pending(s)
=============================================================================
