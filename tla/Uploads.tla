-------------------------------- MODULE Uploads --------------------------------
(***************************************************************************)
(* Files on their way from the user to the model: the composer posts them   *)
(* to the open conversation and keeps their ids, a send links those of its  *)
(* conversation to a message and writes them where the CLI may read, and    *)
(* the hook on the CLI's Read tool lets it read there and nowhere else.     *)
(*                                                                         *)
(* The directory of a conversation is named after the CLI's session id,     *)
(* which a turn changes when the CLI says it uses another one.  One page.   *)
(***************************************************************************)
EXTENDS Naturals

CONSTANTS Sessions,
          NoSession,
          Files,       \* files the user may choose, each once
          Unfit,       \* those refused: of another type, empty, too large
          Turns,       \* send requests, with the turn each starts
          MaxDirs      \* bound: a conversation's session ids are 0..MaxDirs

ASSUME UploadAssumption == NoSession \notin Sessions /\ Unfit \subseteq Files /\ MaxDirs \in Nat

VARIABLES
  current,    \* the open conversation: the composer's sessionId
  ready,      \* the composer's files
  chosen,     \* files chosen so far
  upload,     \* the upload request under way
  home,       \* attachment -> the conversation it was stored for (res_id)
  exists,     \* attachments there are
  refused,    \* files of uploads that were answered with an error
  dir,        \* claude_session_id
  disk,       \* the files on the disk with their content, by path
  phase,      \* where a turn is
  session,    \* the conversation it was sent to
  ids,        \* the attachment_ids it was sent with
  text,       \* it has a text
  root,       \* the session id its directories are named after
  attached,   \* the attachments of its message
  prompt      \* the paths its prompt names

composer == <<current, ready, chosen>>
storage == <<home, exists, disk>>
turn == <<phase, session, ids, text, root, attached, prompt>>
vars == <<composer, upload, storage, refused, dir, turn>>

Alive == {"running", "lingering"}
Path(s, n, f) == [session |-> s, dir |-> n, file |-> f]
Paths(s, n, fs) == {Path(s, n, f) : f \in fs}
NoUpload == [stage |-> "none", session |-> NoSession, files |-> {}, dir |-> 0]

Init ==
  /\ current \in Sessions
  /\ ready = {}
  /\ chosen = {}
  /\ upload = NoUpload
  /\ home = [f \in Files |-> NoSession]
  /\ exists = {}
  /\ refused = {}
  /\ dir = [s \in Sessions |-> 0]
  /\ disk = {}
  /\ phase = [t \in Turns |-> "none"]
  /\ session = [t \in Turns |-> NoSession]
  /\ ids = [t \in Turns |-> {}]
  /\ text = [t \in Turns |-> FALSE]
  /\ root = [t \in Turns |-> 0]
  /\ attached = [t \in Turns |-> {}]
  /\ prompt = [t \in Turns |-> {}]

-----------------------------------------------------------------------------
(* The page *)

(* The composer is not made anew for another conversation. *)
OpenSession(s) ==
  /\ s # current
  /\ current' = s
  /\ UNCHANGED <<ready, chosen, upload, storage, refused, dir, turn>>

OnFilesChosen(fs) ==
  /\ upload.stage = "none"
  /\ fs # {}
  /\ fs \cap chosen = {}
  /\ chosen' = chosen \cup fs
  /\ upload' = [stage |-> "sent", session |-> current, files |-> fs, dir |-> 0]
  /\ UNCHANGED <<current, ready, storage, refused, dir, turn>>

ReadyAnyway == ready \cup (upload.files \cap exists)    \* mutant: the error is not looked at
Added == IF upload.stage = "stored" THEN ready \cup upload.files ELSE ready

(* The response, an error, or none that can be read. *)
UploadReply ==
  /\ upload.stage \in {"stored", "failed"}
  /\ ready' \in {ready, Added}
  /\ upload' = NoUpload
  /\ UNCHANGED <<current, chosen, storage, refused, dir, turn>>

RemoveFile(f) ==
  /\ f \in ready
  /\ ready' = ready \ {f}
  /\ UNCHANGED <<current, chosen, upload, storage, refused, dir, turn>>

KeptForRetry == ready      \* mutant: the files stay in the composer
AfterSend == {}

(* _send and onSend: the composer is emptied before the request is made.    *)
Send(t) ==
  /\ phase[t] = "none"
  /\ upload.stage = "none"
  /\ \E b \in BOOLEAN : (b \/ ready # {}) /\ text' = [text EXCEPT ![t] = b]
  /\ phase' = [phase EXCEPT ![t] = "sent"]
  /\ session' = [session EXCEPT ![t] = current]
  /\ ids' = [ids EXCEPT ![t] = ready]
  /\ ready' = AfterSend
  /\ UNCHANGED <<current, chosen, upload, storage, refused, dir, root, attached, prompt>>

-----------------------------------------------------------------------------
(* The upload request: a transaction that also writes files *)

UploadBegin ==
  /\ upload.stage = "sent"
  /\ upload' = [upload EXCEPT !.stage = "storing", !.dir = dir[upload.session]]
  /\ UNCHANGED <<composer, storage, refused, dir, turn>>

NoResId == NoSession       \* mutant: the attachment is created without its record
ResId == upload.session

(* Stored: these files are attachments now, and on the disk. *)
Store(fs) ==
  /\ home' = [f \in Files |-> IF f \in fs THEN ResId ELSE home[f]]
  /\ exists' = exists \cup fs
  /\ disk' = disk \cup Paths(upload.session, upload.dir, fs)

UploadAll ==
  /\ upload.stage = "storing"
  /\ upload.files \cap Unfit = {}
  /\ Store(upload.files)
  /\ upload' = [upload EXCEPT !.stage = "stored"]
  /\ UNCHANGED <<composer, refused, dir, turn>>

Fails ==
  /\ upload' = [upload EXCEPT !.stage = "failed"]
  /\ refused' = refused \cup upload.files
  /\ UNCHANGED <<composer, dir, turn>>

(* UserError at one of the files: the response is an error, the request     *)
(* ends normally and what was stored before it is committed.                *)
UploadPart ==
  /\ upload.stage = "storing"
  /\ upload.files \cap Unfit # {}
  /\ \E fs \in SUBSET (upload.files \ Unfit) : Store(fs)
  /\ Fails

(* Another exception, a failed commit, the end of the process: the          *)
(* attachments are rolled back, the files are not.                          *)
UploadRolledBack ==
  /\ upload.stage = "storing"
  /\ \E fs \in SUBSET (upload.files \ Unfit) :
       disk' = disk \cup Paths(upload.session, upload.dir, fs)
  /\ UNCHANGED <<home, exists>>
  /\ Fails

(* A concurrent update of the session row, whose working_dir it sets: the   *)
(* server runs the request again.                                           *)
UploadRerun ==
  /\ upload.stage = "storing"
  /\ upload' = [upload EXCEPT !.stage = "sent"]
  /\ UNCHANGED <<composer, storage, refused, dir, turn>>

(* Attachments can be deleted like any record. *)
Unlink(f) ==
  /\ f \in exists
  /\ exists' = exists \ {f}
  /\ UNCHANGED <<composer, upload, home, disk, refused, dir, turn>>

-----------------------------------------------------------------------------
(* send_message *)

Existing(t) == ids[t] \cap exists       \* mutant: whatever the client sends
Own(t) == {f \in ids[t] \cap exists : home[f] = session[t]}

Busy(s) == \E t \in Turns : session[t] = s /\ phase[t] = "running"

Move(t, to) == phase' = [phase EXCEPT ![t] = to]

(* Busy, over the cap, not connected, or an empty message. *)
SendRefused(t) ==
  /\ phase[t] = "sent"
  /\ Move(t, "refused")
  /\ UNCHANGED <<composer, upload, storage, refused, dir, session, ids, text, root, attached, prompt>>

WrittenByUpload(ps) == {}    \* mutant: what the upload wrote is relied upon
Rewritten(ps) == ps

(* _materialize_attachments: the files are opened, truncated ...            *)
Materialize(t) ==
  /\ phase[t] = "sent"
  /\ ~Busy(session[t])
  /\ text[t] \/ Own(t) # {}
  /\ Move(t, "writing")
  /\ root' = [root EXCEPT ![t] = dir[session[t]]]
  /\ attached' = [attached EXCEPT ![t] = Own(t)]
  /\ prompt' = [prompt EXCEPT ![t] = Paths(session[t], dir[session[t]], Own(t))]
  /\ disk' = disk \ Rewritten(Paths(session[t], dir[session[t]], Own(t)))
  /\ UNCHANGED <<composer, upload, home, exists, refused, dir, session, ids, text>>

(* ... and written, and the row commits if nobody has changed it since (a   *)
(* session id that has changed and changed back is let through here).       *)
SendAccept(t) ==
  /\ phase[t] = "writing"
  /\ ~Busy(session[t])
  /\ root[t] = dir[session[t]]
  /\ Move(t, "running")
  /\ disk' = disk \cup Rewritten(prompt[t])
  /\ UNCHANGED <<composer, upload, home, exists, refused, dir, session, ids, text, root, attached,
                 prompt>>

(* An error of the disk, a failed commit, the end of the process; a rerun   *)
(* is a request that has not begun.                                         *)
SendRolledBack(t) ==
  /\ phase[t] = "writing"
  /\ \E to \in {"sent", "refused"} : Move(t, to)
  /\ \E ps \in SUBSET prompt[t] : disk' = disk \cup ps
  /\ attached' = [attached EXCEPT ![t] = {}]
  /\ prompt' = [prompt EXCEPT ![t] = {}]
  /\ UNCHANGED <<composer, upload, home, exists, refused, dir, session, ids, text, root>>

-----------------------------------------------------------------------------
(* The turn *)

(* The CLI's init event names another session id than the row's, a new one  *)
(* or one the row had before; the worker stores it whenever it reads the    *)
(* line, even when the row is at rest again or another turn is running.     *)
CliInit(t) ==
  /\ phase[t] \in Alive
  /\ \E n \in (0..MaxDirs) \ {dir[session[t]]} : dir' = [dir EXCEPT ![session[t]] = n]
  /\ UNCHANGED <<composer, upload, storage, refused, turn>>

(* The row is at rest again, by a result or a stop; the CLI may still read. *)
Settle(t) ==
  /\ phase[t] = "running"
  /\ Move(t, "lingering")
  /\ UNCHANGED <<composer, upload, storage, refused, dir, session, ids, text, root, attached, prompt>>

(* The CLI has ended and its worker has read what it printed. *)
CliEnds(t) ==
  /\ phase[t] = "lingering"
  /\ Move(t, "over")
  /\ UNCHANGED <<composer, upload, storage, refused, dir, session, ids, text, root, attached, prompt>>

(* _write_settings gives the hook the uploads directory of the turn; the    *)
(* hook resolves the path and denies what is not inside.                    *)
GuardAllows(t, p) == p.session = session[t] /\ p.dir = root[t]
CanRead(t, p) == GuardAllows(t, p) /\ p \in disk

-----------------------------------------------------------------------------

Next ==
  \/ \E s \in Sessions : OpenSession(s)
  \/ \E fs \in SUBSET Files : OnFilesChosen(fs)
  \/ \E f \in Files : RemoveFile(f) \/ Unlink(f)
  \/ UploadBegin \/ UploadAll \/ UploadPart \/ UploadRolledBack \/ UploadRerun \/ UploadReply
  \/ \E t \in Turns :
       \/ Send(t) \/ SendRefused(t) \/ Materialize(t) \/ SendAccept(t) \/ SendRolledBack(t)
       \/ CliInit(t) \/ Settle(t) \/ CliEnds(t)

Spec == Init /\ [][Next]_vars

-----------------------------------------------------------------------------
(* Properties *)

PathRecords == [session : Sessions, dir : 0..MaxDirs, file : Files]

(* Every variable has its type (ir.attachment, claudoo.message, the disk). *)
TypeOK ==
  /\ current \in Sessions
  /\ ready \subseteq Files
  /\ chosen \subseteq Files
  /\ upload \in [stage : {"none", "sent", "storing", "stored", "failed"},
                 session : Sessions \cup {NoSession}, files : SUBSET Files, dir : 0..MaxDirs]
  /\ home \in [Files -> Sessions \cup {NoSession}]
  /\ exists \subseteq {f \in Files : home[f] \in Sessions}
  /\ refused \subseteq Files
  /\ dir \in [Sessions -> 0..MaxDirs]
  /\ disk \subseteq PathRecords
  /\ phase \in [Turns -> {"none", "sent", "writing", "refused", "over"} \cup Alive]
  /\ session \in [Turns -> Sessions \cup {NoSession}]
  /\ ids \in [Turns -> SUBSET Files]
  /\ text \in [Turns -> BOOLEAN]
  /\ root \in [Turns -> 0..MaxDirs]
  /\ attached \in [Turns -> SUBSET Files]
  /\ prompt \in [Turns -> SUBSET PathRecords]

(* Whatever conversation is open when an upload ends or a message is sent,  *)
(* a message holds only files that were uploaded to its own conversation    *)
(* (onFilesChosen, the composer that stays, _materialize_attachments).      *)
MessageOwnsItsFiles ==
  \A t \in Turns : \A f \in attached[t] : home[f] = session[t]

(* The CLI of a turn can read every file its prompt names until it ends,    *)
(* wherever the CLI's session id had moved the conversation's directory     *)
(* since the upload (_materialize_attachments, _build_prompt,               *)
(* _write_settings, read_guard).                                            *)
PromptIsReadable ==
  \A t \in Turns : phase[t] \in Alive => \A p \in prompt[t] : CanRead(t, p)

(* A turn can also read what the other messages of its conversation named,  *)
(* if they were sent under the same session id: no later send, upload or    *)
(* roll-back takes them away (_get_scratch_dir, _materialize_attachments).  *)
EarlierFilesReadable ==
  \A t, u \in Turns :
    /\ phase[t] \in Alive
    /\ phase[u] \in Alive \cup {"over"}
    /\ session[u] = session[t]
    /\ root[u] = root[t]
    => \A p \in prompt[u] : CanRead(t, p)

(* A file is in one message at most, so that none is truncated and written  *)
(* again under a CLI that reads it (_send, _write_attachment_to_disk).      *)
AttachedOnce ==
  \A t, u \in Turns : t # u => attached[t] \cap attached[u] = {}

(* Nothing of an upload that was answered with an error gets into a message,*)
(* although part of it has been committed (upload, onFilesChosen).          *)
RefusedStaysOut ==
  \A f \in refused : f \notin ready /\ \A t \in Turns : f \notin attached[t]

=============================================================================
