----------------------------- MODULE UploadsProofs -----------------------------
(***************************************************************************)
(* For any conversations, files and turns.  The argument: a file is at one  *)
(* place on its way (being uploaded, in the composer, in one send), so that *)
(* neither a later upload nor another send touches what a message holds.    *)
(***************************************************************************)
EXTENDS Uploads, TLAPS

(* Where an upload request can be. *)
Stages == {"none", "sent", "storing", "stored", "failed"}

LEMMA PathParts ==
  ASSUME NEW s, NEW n, NEW fs, NEW p \in Paths(s, n, fs)
  PROVE  /\ p.session = s /\ p.dir = n /\ p.file \in fs
         /\ p = Path(s, n, p.file)
BY DEF Paths, Path

LEMMA PathsAreRecords ==
  ASSUME NEW s \in Sessions, NEW n \in 0..MaxDirs, NEW fs \in SUBSET Files
  PROVE  Paths(s, n, fs) \subseteq PathRecords
BY DEF Paths, Path, PathRecords

-----------------------------------------------------------------------------
(* Types *)

TypeBase ==
  /\ current \in Sessions
  /\ ready \subseteq Files
  /\ chosen \subseteq Files
  /\ upload \in [stage : Stages, session : Sessions \cup {NoSession}, files : SUBSET Files,
                 dir : 0..MaxDirs]
  /\ home \in [Files -> Sessions \cup {NoSession}]
  /\ exists \subseteq Files
  /\ refused \subseteq Files
  /\ dir \in [Sessions -> 0..MaxDirs]
  /\ disk \subseteq PathRecords
  /\ phase \in [Turns -> {"none", "sent", "writing", "refused", "over"} \cup Alive]
  /\ session \in [Turns -> Sessions \cup {NoSession}]
  /\ ids \in [Turns -> SUBSET Files]
  /\ text \in [Turns -> BOOLEAN]
  /\ root \in [Turns -> 0..MaxDirs]
  /\ attached \in [Turns -> SUBSET Files]
  /\ prompt \in [Turns -> SUBSET PathRecords]

(* An upload under way and a send that was made name a conversation. *)
Placed ==
  /\ upload.stage # "none" => upload.session \in Sessions
  /\ \A t \in Turns : phase[t] # "none" => session[t] \in Sessions
  /\ \A f \in exists : home[f] \in Sessions

Types == TypeBase /\ Placed

LEMMA InitTypes == Init => Types
BY UploadAssumption DEF Init, Types, TypeBase, Placed, NoUpload, Stages

LEMMA StoreTypes ==
  ASSUME Types, upload.stage = "storing", NEW fs \in SUBSET Files,
         disk' = disk \cup Paths(upload.session, upload.dir, fs)
  PROVE  disk' \subseteq PathRecords
BY PathsAreRecords DEF Types, TypeBase, Placed

LEMMA StepTypes == Types /\ [Next]_vars => Types'
<1> SUFFICES ASSUME Types, [Next]_vars PROVE Types'
  OBVIOUS
<1> USE DEF Types, TypeBase, Placed
<1>1. CASE UNCHANGED vars
  BY <1>1 DEF vars, composer, storage, turn
<1>2. ASSUME NEW s \in Sessions, OpenSession(s) PROVE Types'
  BY <1>2 DEF OpenSession, storage, turn
<1>3. ASSUME NEW fs \in SUBSET Files, OnFilesChosen(fs) PROVE Types'
  BY <1>3, UploadAssumption DEF OnFilesChosen, storage, turn, Stages
<1>4. ASSUME NEW f \in Files, RemoveFile(f) PROVE Types'
  BY <1>4 DEF RemoveFile, storage, turn
<1>5. ASSUME NEW f \in Files, Unlink(f) PROVE Types'
  BY <1>5 DEF Unlink, composer, turn
<1>6. CASE UploadBegin
  BY <1>6 DEF UploadBegin, composer, storage, turn, Stages
<1>7. CASE UploadAll
  <2>1. disk' \subseteq PathRecords
    BY <1>7, StoreTypes DEF UploadAll, Store
  <2> QED BY <1>7, <2>1 DEF UploadAll, Store, ResId, composer, turn, Stages
<1>8. CASE UploadPart
  <2>1. PICK fs \in SUBSET (upload.files \ Unfit) : Store(fs)
    BY <1>8 DEF UploadPart
  <2>2. disk' \subseteq PathRecords
    BY <1>8, <2>1, StoreTypes DEF UploadPart, Store
  <2> QED BY <1>8, <2>1, <2>2 DEF UploadPart, Fails, Store, ResId, composer, turn, Stages
<1>9. CASE UploadRolledBack
  <2>1. disk' \subseteq PathRecords
    BY <1>9, StoreTypes DEF UploadRolledBack
  <2> QED BY <1>9, <2>1 DEF UploadRolledBack, Fails, composer, turn, Stages
<1>10. CASE UploadRerun
  BY <1>10 DEF UploadRerun, composer, storage, turn, Stages
<1>11. CASE UploadReply
  BY <1>11, UploadAssumption DEF UploadReply, Added, NoUpload, storage, turn, Stages
<1>12. ASSUME NEW t \in Turns, Send(t) PROVE Types'
  BY <1>12 DEF Send, AfterSend, storage
<1>13. ASSUME NEW t \in Turns, SendRefused(t) PROVE Types'
  BY <1>13 DEF SendRefused, Move, composer, storage
<1>14. ASSUME NEW t \in Turns, Materialize(t) PROVE Types'
  <2>1. session[t] \in Sessions /\ dir[session[t]] \in 0..MaxDirs /\ Own(t) \in SUBSET Files
    BY <1>14 DEF Materialize, Own
  <2>2. Paths(session[t], dir[session[t]], Own(t)) \subseteq PathRecords
    BY <2>1, PathsAreRecords
  <2>3. prompt' \in [Turns -> SUBSET PathRecords] /\ attached' \in [Turns -> SUBSET Files]
        /\ root' \in [Turns -> 0..MaxDirs] /\ disk' \subseteq PathRecords
    BY <1>14, <2>1, <2>2 DEF Materialize
  <2>4. phase' \in [Turns -> {"none", "sent", "writing", "refused", "over"} \cup Alive]
        /\ \A u \in Turns : phase'[u] # "none" => phase[u] # "none"
    BY <1>14 DEF Materialize, Move
  <2> QED BY <1>14, <2>3, <2>4 DEF Materialize, composer
<1>15. ASSUME NEW t \in Turns, SendAccept(t) PROVE Types'
  BY <1>15 DEF SendAccept, Move, Rewritten, composer, Alive
<1>16. ASSUME NEW t \in Turns, SendRolledBack(t) PROVE Types'
  <2>1. PICK ps \in SUBSET prompt[t] : disk' = disk \cup ps
    BY <1>16 DEF SendRolledBack
  <2>2. disk' \subseteq PathRecords
    BY <2>1
  <2>3. PICK to \in {"sent", "refused"} : Move(t, to)
    BY <1>16 DEF SendRolledBack
  <2> QED BY <1>16, <2>2, <2>3 DEF SendRolledBack, Move, composer
<1>17. ASSUME NEW t \in Turns, CliInit(t) PROVE Types'
  <2>1. dir' \in [Sessions -> 0..MaxDirs]
    BY <1>17, UploadAssumption DEF CliInit
  <2> QED BY <1>17, <2>1 DEF CliInit, composer, storage, turn
<1>18. ASSUME NEW t \in Turns, Settle(t) PROVE Types'
  BY <1>18 DEF Settle, Move, composer, storage, Alive
<1>19. ASSUME NEW t \in Turns, CliEnds(t) PROVE Types'
  BY <1>19 DEF CliEnds, Move, composer, storage
<1>20. QED
  BY <1>1, <1>2, <1>3, <1>4, <1>5, <1>6, <1>7, <1>8, <1>9, <1>10, <1>11, <1>12, <1>13, <1>14,
     <1>15, <1>16, <1>17, <1>18, <1>19 DEF Next

(* Every variable keeps its type (TypeOK): an attachment always belongs to  *)
(* a conversation.                                                          *)
THEOREM TypesHold == Spec => []TypeOK
<1>1. Types => TypeOK
  BY DEF Types, TypeBase, Placed, TypeOK, Stages
<1> QED BY InitTypes, StepTypes, <1>1, PTL DEF Spec

-----------------------------------------------------------------------------
(* A file is at one place on its way, and what was refused is at none. *)

Waiting == {"none", "sent", "refused"}

OnePlace ==
  /\ ready \cup upload.files \cup refused \subseteq chosen
  /\ \A t \in Turns : ids[t] \subseteq chosen
  /\ upload.files \cap ready = {}
  /\ \A t \in Turns : ids[t] \cap ready = {} /\ ids[t] \cap upload.files = {}
  /\ \A t, u \in Turns : t # u => ids[t] \cap ids[u] = {}
  /\ upload.stage = "none" => upload.files = {}
  /\ \A t \in Turns : phase[t] = "none" => ids[t] = {}

Discarded ==
  /\ refused \cap ready = {}
  /\ \A t \in Turns : refused \cap ids[t] = {}
  /\ upload.stage # "failed" => upload.files \cap refused = {}

LEMMA InitPlaces == Init => OnePlace /\ Discarded
BY DEF Init, OnePlace, Discarded, NoUpload

LEMMA ReplyPlaces ==
  ASSUME Types, OnePlace, Discarded, UploadReply
  PROVE  OnePlace' /\ Discarded'
<1>1. ready' \subseteq ready \cup (IF upload.stage = "stored" THEN upload.files ELSE {})
  BY DEF UploadReply, Added
<1>2. upload'.files = {} /\ upload'.stage = "none"
  BY DEF UploadReply, NoUpload
<1>3. UNCHANGED <<chosen, refused, phase, ids>>
  BY DEF UploadReply, turn
<1> QED BY <1>1, <1>2, <1>3 DEF OnePlace, Discarded

LEMMA StepPlaces == Types /\ OnePlace /\ Discarded /\ [Next]_vars => OnePlace' /\ Discarded'
<1> SUFFICES ASSUME Types, OnePlace, Discarded, [Next]_vars PROVE OnePlace' /\ Discarded'
  OBVIOUS
<1> USE DEF OnePlace, Discarded
<1>1. CASE UNCHANGED vars
  BY <1>1 DEF vars, composer, storage, turn
<1>2. ASSUME NEW s \in Sessions, OpenSession(s) PROVE OnePlace' /\ Discarded'
  BY <1>2 DEF OpenSession, storage, turn
<1>3. ASSUME NEW fs \in SUBSET Files, OnFilesChosen(fs) PROVE OnePlace' /\ Discarded'
  BY <1>3 DEF OnFilesChosen, storage, turn
<1>4. ASSUME NEW f \in Files, RemoveFile(f) PROVE OnePlace' /\ Discarded'
  BY <1>4 DEF RemoveFile, storage, turn
<1>5. ASSUME NEW f \in Files, Unlink(f) PROVE OnePlace' /\ Discarded'
  BY <1>5 DEF Unlink, composer, turn
<1>6. CASE UploadBegin \/ UploadAll \/ UploadRerun
  <2>1. UNCHANGED <<ready, chosen, refused, phase, ids>>
    BY <1>6 DEF UploadBegin, UploadAll, UploadRerun, composer, turn
  <2>2. /\ upload'.files = upload.files
        /\ upload.stage \in {"sent", "storing"} /\ upload'.stage \in {"sent", "storing", "stored"}
    BY <1>6 DEF UploadBegin, UploadAll, UploadRerun, Types, TypeBase
  <2> QED BY <2>1, <2>2
<1>7. CASE UploadPart \/ UploadRolledBack
  <2>1. upload.stage = "storing" /\ Fails
    BY <1>7 DEF UploadPart, UploadRolledBack
  <2>2. upload'.files = upload.files /\ upload'.stage = "failed"
    BY <2>1 DEF Fails, Types, TypeBase
  <2> QED BY <2>1, <2>2 DEF Fails, composer, turn
<1>8. CASE UploadReply
  BY <1>8, ReplyPlaces
<1>9. ASSUME NEW t \in Turns, Send(t) PROVE OnePlace' /\ Discarded'
  <2>1. /\ ids' = [ids EXCEPT ![t] = ready] /\ ready' = {} /\ ids[t] = {}
        /\ phase' = [phase EXCEPT ![t] = "sent"]
        /\ UNCHANGED <<chosen, upload, refused>>
    BY <1>9 DEF Send, AfterSend
  <2> QED BY <2>1 DEF Types, TypeBase
<1>10. ASSUME NEW t \in Turns,
              \/ SendRefused(t) \/ Materialize(t) \/ SendAccept(t) \/ SendRolledBack(t)
              \/ CliInit(t) \/ Settle(t) \/ CliEnds(t)
       PROVE  OnePlace' /\ Discarded'
  <2>1. UNCHANGED <<ready, chosen, upload, refused, ids>>
    BY <1>10 DEF SendRefused, Materialize, SendAccept, SendRolledBack, CliInit, Settle, CliEnds,
                 composer, turn
  <2>2. \A u \in Turns : phase'[u] = "none" => phase[u] = "none"
    BY <1>10 DEF SendRefused, Materialize, SendAccept, SendRolledBack, CliInit, Settle, CliEnds,
                 Move, turn, Types, TypeBase
  <2> QED BY <2>1, <2>2
<1>11. QED
  BY <1>1, <1>2, <1>3, <1>4, <1>5, <1>6, <1>7, <1>8, <1>9, <1>10 DEF Next

-----------------------------------------------------------------------------
(* What a message holds, and where it is on the disk. *)

Messages ==
  /\ \A t \in Turns : attached[t] \subseteq ids[t]
  /\ \A t \in Turns : prompt[t] = Paths(session[t], root[t], attached[t])
  /\ \A t \in Turns : \A f \in attached[t] : home[f] = session[t]
  /\ \A t \in Turns : phase[t] \in Waiting => attached[t] = {}

Written ==
  \A t \in Turns : phase[t] \notin Waiting \cup {"writing"} => prompt[t] \subseteq disk

Invariant == Types /\ OnePlace /\ Discarded /\ Messages /\ Written

LEMMA NoPaths == \A s, n : Paths(s, n, {}) = {}
BY DEF Paths

LEMMA InitMessages == Init => Messages /\ Written
BY NoPaths DEF Init, Messages, Written, Waiting

(* Steps that leave the turns alone and take nothing from the disk. *)
LEMMA StorageStep ==
  ASSUME Invariant, UNCHANGED turn, UNCHANGED dir, disk \subseteq disk',
         \A f \in Files \ upload.files : home'[f] = home[f]
  PROVE  Messages' /\ Written'
<1>1. \A t \in Turns : \A f \in attached[t] : f \in Files \ upload.files
  BY DEF Invariant, Messages, OnePlace, Types, TypeBase
<1> QED BY <1>1 DEF turn, Invariant, Messages, Written

(* Steps that move a turn on without touching what it holds. *)
LEMMA MoveStep ==
  ASSUME Invariant, NEW t \in Turns, NEW to, Move(t, to),
         to \in Waiting => phase[t] \in Waiting,
         to \notin Waiting => phase[t] \notin Waiting,
         phase[t] # "writing",
         UNCHANGED <<home, disk, dir, session, ids, root, attached, prompt>>
  PROVE  Messages' /\ Written'
<1>1. phase' = [phase EXCEPT ![t] = to]
  BY DEF Move
<1>2. \A u \in Turns : phase'[u] = IF u = t THEN to ELSE phase[u]
  BY <1>1 DEF Invariant, Types, TypeBase
<1>3. Messages'
  BY <1>2 DEF Invariant, Messages
<1>4. Written'
  BY <1>2 DEF Invariant, Written
<1> QED BY <1>3, <1>4

LEMMA SendStep ==
  ASSUME Invariant, NEW t \in Turns, Send(t)
  PROVE  Messages' /\ Written'
<1>1. /\ phase[t] = "none" /\ phase' = [phase EXCEPT ![t] = "sent"]
      /\ session' = [session EXCEPT ![t] = current]
      /\ ids' = [ids EXCEPT ![t] = ready]
      /\ UNCHANGED <<home, disk, dir, root, attached, prompt>>
  BY DEF Send, storage
<1>2. attached[t] = {} /\ prompt[t] = {}
  BY <1>1, NoPaths DEF Invariant, Messages, Waiting
<1>3. \A u \in Turns : u # t =>
        phase'[u] = phase[u] /\ session'[u] = session[u] /\ ids'[u] = ids[u]
  BY <1>1 DEF Invariant, Types, TypeBase
<1>4. phase'[t] = "sent"
  BY <1>1 DEF Invariant, Types, TypeBase
<1>5. Messages'
  BY <1>1, <1>2, <1>3, <1>4, NoPaths DEF Invariant, Messages, Waiting
<1>6. Written'
  BY <1>1, <1>3, <1>4 DEF Invariant, Written, Waiting
<1> QED BY <1>5, <1>6

(* The files are truncated under no one: they are in no other message. *)
LEMMA MaterializeStep ==
  ASSUME Invariant, NEW t \in Turns, Materialize(t)
  PROVE  Messages' /\ Written'
<1> DEFINE gone == Paths(session[t], dir[session[t]], Own(t))
<1>1. /\ phase[t] = "sent" /\ phase' = [phase EXCEPT ![t] = "writing"]
      /\ root' = [root EXCEPT ![t] = dir[session[t]]]
      /\ attached' = [attached EXCEPT ![t] = Own(t)]
      /\ prompt' = [prompt EXCEPT ![t] = gone]
      /\ disk' = disk \ gone
      /\ UNCHANGED <<home, dir, session, ids>>
  BY DEF Materialize, Move, Rewritten
<1>2. Own(t) \subseteq ids[t] /\ \A f \in Own(t) : home[f] = session[t]
  BY DEF Own
<1>3. \A u \in Turns : u # t =>
        /\ phase'[u] = phase[u] /\ root'[u] = root[u]
        /\ attached'[u] = attached[u] /\ prompt'[u] = prompt[u]
  BY <1>1 DEF Invariant, Types, TypeBase
<1>4. /\ phase'[t] = "writing" /\ root'[t] = dir[session[t]]
      /\ attached'[t] = Own(t) /\ prompt'[t] = gone
  BY <1>1 DEF Invariant, Types, TypeBase
<1>5. Messages'
  BY <1>1, <1>2, <1>3, <1>4 DEF Invariant, Messages, Waiting
<1>6. ASSUME NEW u \in Turns, u # t, NEW p \in prompt[u] PROVE p \notin gone
  <2>1. p.file \in ids[u]
    BY <1>6, PathParts DEF Invariant, Messages
  <2>2. p \in gone => p.file \in ids[t]
    BY <1>2, PathParts
  <2> QED BY <1>6, <2>1, <2>2 DEF Invariant, OnePlace
<1>7. ASSUME NEW u \in Turns, phase'[u] \notin Waiting \cup {"writing"} PROVE prompt'[u] \subseteq disk'
  <2>1. u # t
    BY <1>4, <1>7
  <2>2. prompt[u] \subseteq disk
    BY <2>1, <1>3, <1>7 DEF Invariant, Written
  <2> QED BY <2>1, <2>2, <1>1, <1>3, <1>6
<1> QED BY <1>5, <1>7 DEF Written

LEMMA AcceptStep ==
  ASSUME Invariant, NEW t \in Turns, SendAccept(t)
  PROVE  Messages' /\ Written'
<1>1. /\ phase[t] = "writing" /\ phase' = [phase EXCEPT ![t] = "running"]
      /\ disk' = disk \cup prompt[t]
      /\ UNCHANGED <<home, dir, session, ids, root, attached, prompt>>
  BY DEF SendAccept, Move, Rewritten
<1>2. \A u \in Turns : phase'[u] = IF u = t THEN "running" ELSE phase[u]
  BY <1>1 DEF Invariant, Types, TypeBase
<1>3. Messages'
  BY <1>1, <1>2 DEF Invariant, Messages, Waiting
<1>4. Written'
  BY <1>1, <1>2 DEF Invariant, Written, Waiting
<1> QED BY <1>3, <1>4

LEMMA RollBackStep ==
  ASSUME Invariant, NEW t \in Turns, SendRolledBack(t)
  PROVE  Messages' /\ Written'
<1>1. PICK to \in {"sent", "refused"} : phase' = [phase EXCEPT ![t] = to]
  BY DEF SendRolledBack, Move
<1>2. /\ disk \subseteq disk'
      /\ attached' = [attached EXCEPT ![t] = {}]
      /\ prompt' = [prompt EXCEPT ![t] = {}]
      /\ UNCHANGED <<home, dir, session, ids, root>>
  BY DEF SendRolledBack
<1>3. \A u \in Turns :
        /\ phase'[u] = IF u = t THEN to ELSE phase[u]
        /\ attached'[u] = IF u = t THEN {} ELSE attached[u]
        /\ prompt'[u] = IF u = t THEN {} ELSE prompt[u]
  BY <1>1, <1>2 DEF Invariant, Types, TypeBase
<1>4. Messages'
  BY <1>2, <1>3, NoPaths DEF Invariant, Messages
<1>5. Written'
  BY <1>2, <1>3 DEF Invariant, Written, Waiting
<1> QED BY <1>4, <1>5

LEMMA CliInitStep ==
  ASSUME Invariant, NEW t \in Turns, CliInit(t)
  PROVE  Messages' /\ Written'
BY DEF CliInit, storage, turn, Invariant, Messages, Written

LEMMA StepMessages == Invariant /\ [Next]_vars => Messages' /\ Written'
<1> SUFFICES ASSUME Invariant, [Next]_vars PROVE Messages' /\ Written'
  OBVIOUS
<1>1. CASE UNCHANGED vars
  BY <1>1 DEF vars, composer, storage, turn, Invariant, Messages, Written
<1>2. CASE \/ \E s \in Sessions : OpenSession(s)
           \/ \E fs \in SUBSET Files : OnFilesChosen(fs)
           \/ \E f \in Files : RemoveFile(f) \/ Unlink(f)
           \/ UploadBegin \/ UploadAll \/ UploadPart \/ UploadRolledBack \/ UploadRerun \/ UploadReply
  <2>1. UNCHANGED turn /\ UNCHANGED dir /\ disk \subseteq disk'
    BY <1>2 DEF OpenSession, OnFilesChosen, RemoveFile, Unlink, UploadBegin, UploadAll, UploadPart,
                UploadRolledBack, UploadRerun, UploadReply, Fails, Store, storage
  <2>2. \A f \in Files \ upload.files : home'[f] = home[f]
    BY <1>2 DEF OpenSession, OnFilesChosen, RemoveFile, Unlink, UploadBegin, UploadAll, UploadPart,
                UploadRolledBack, UploadRerun, UploadReply, Fails, Store, storage
  <2> QED BY <2>1, <2>2, StorageStep
<1>3. ASSUME NEW t \in Turns, Send(t) PROVE Messages' /\ Written'
  BY <1>3, SendStep
<1>4. ASSUME NEW t \in Turns, SendRefused(t) PROVE Messages' /\ Written'
  BY <1>4, MoveStep DEF SendRefused, storage, Waiting
<1>5. ASSUME NEW t \in Turns, Materialize(t) PROVE Messages' /\ Written'
  BY <1>5, MaterializeStep
<1>6. ASSUME NEW t \in Turns, SendAccept(t) PROVE Messages' /\ Written'
  BY <1>6, AcceptStep
<1>7. ASSUME NEW t \in Turns, SendRolledBack(t) PROVE Messages' /\ Written'
  BY <1>7, RollBackStep
<1>8. ASSUME NEW t \in Turns, CliInit(t) PROVE Messages' /\ Written'
  BY <1>8, CliInitStep
<1>9. ASSUME NEW t \in Turns, Settle(t) PROVE Messages' /\ Written'
  BY <1>9, MoveStep DEF Settle, storage, Waiting
<1>10. ASSUME NEW t \in Turns, CliEnds(t) PROVE Messages' /\ Written'
  BY <1>10, MoveStep DEF CliEnds, storage, Waiting
<1> QED
  BY <1>1, <1>2, <1>3, <1>4, <1>5, <1>6, <1>7, <1>8, <1>9, <1>10 DEF Next

LEMMA InvariantHolds == Spec => []Invariant
<1>1. Init => Invariant
  BY InitTypes, InitPlaces, InitMessages DEF Invariant
<1>2. Invariant /\ [Next]_vars => Invariant'
  BY StepTypes, StepPlaces, StepMessages DEF Invariant
<1> QED BY <1>1, <1>2, PTL DEF Spec

-----------------------------------------------------------------------------
(* Theorems *)

(* A message holds only files of its own conversation                       *)
(* (MessageOwnsItsFiles), although the composer carries files over from one *)
(* conversation to another.                                                 *)
THEOREM ForeignFilesStayOut == Spec => []MessageOwnsItsFiles
<1>1. Invariant => MessageOwnsItsFiles
  BY DEF Invariant, Messages, MessageOwnsItsFiles
<1> QED BY <1>1, InvariantHolds, PTL

(* No file is in two messages, however requests are run again (AttachedOnce).*)
THEOREM FilesAreSentOnce == Spec => []AttachedOnce
<1>1. Invariant => AttachedOnce
  BY DEF Invariant, Messages, OnePlace, AttachedOnce
<1> QED BY <1>1, InvariantHolds, PTL

(* What was refused is in no message, although files of the same upload are *)
(* stored (RefusedStaysOut).                                                *)
THEOREM RefusedUploadsAreNotSent == Spec => []RefusedStaysOut
<1>1. Invariant => RefusedStaysOut
  BY DEF Invariant, Messages, Discarded, RefusedStaysOut
<1> QED BY <1>1, InvariantHolds, PTL

(* Every file a prompt names can be read until the CLI ends                 *)
(* (PromptIsReadable), whatever uploads, sends and roll-backs go on.        *)
THEOREM NamedFilesCanBeRead == Spec => []PromptIsReadable
<1>1. ASSUME Invariant, NEW t \in Turns, phase[t] \in Alive, NEW p \in prompt[t]
      PROVE  CanRead(t, p)
  <2>1. p \in disk
    BY <1>1 DEF Invariant, Written, Waiting, Alive
  <2>2. p.session = session[t] /\ p.dir = root[t]
    BY <1>1, PathParts DEF Invariant, Messages
  <2> QED BY <2>1, <2>2 DEF CanRead, GuardAllows
<1>2. Invariant => PromptIsReadable
  BY <1>1 DEF PromptIsReadable
<1> QED BY <1>2, InvariantHolds, PTL

(* And so can those of the conversation's other messages that were sent     *)
(* under the same session id (EarlierFilesReadable).                        *)
THEOREM EarlierFilesCanBeRead == Spec => []EarlierFilesReadable
<1>1. ASSUME Invariant, NEW t \in Turns, NEW u \in Turns, phase[t] \in Alive,
             phase[u] \in Alive \cup {"over"}, session[u] = session[t], root[u] = root[t],
             NEW p \in prompt[u]
      PROVE  CanRead(t, p)
  <2>1. p \in disk
    BY <1>1 DEF Invariant, Written, Waiting, Alive
  <2>2. p.session = session[u] /\ p.dir = root[u]
    BY <1>1, PathParts DEF Invariant, Messages
  <2> QED BY <1>1, <2>1, <2>2 DEF CanRead, GuardAllows
<1>2. Invariant => EarlierFilesReadable
  BY <1>1 DEF EarlierFilesReadable
<1> QED BY <1>2, InvariantHolds, PTL

=============================================================================
