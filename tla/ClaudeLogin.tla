------------------------------ MODULE ClaudeLogin ------------------------------
(***************************************************************************)
(* How a user's Claude account gets connected: a login stores a PKCE pair   *)
(* in a system parameter, the user authorizes it in another tab and pastes  *)
(* the code, and a request exchanges the code for tokens, writes them to    *)
(* .credentials.json through a temporary file and consumes the parameter.   *)
(* The parameter is transactional, the files and the exchange are not.      *)
(*                                                                         *)
(* One user.  A request is one transaction under REPEATABLE READ, so one    *)
(* whose parameter has been changed by another since it began cannot commit *)
(* and is run again by the server.                                          *)
(***************************************************************************)
CONSTANTS Logins,      \* calls of auth/start, each with a verifier and a state
          NoLogin,     \* the parameter is empty
          Codes,       \* authorization codes Claude may hand to the user
          CodeFor,     \* code -> the login it was issued for
          Requests,    \* calls of auth/complete
          NoFile

ASSUME LoginAssumption == /\ NoLogin \notin Logins
                          /\ CodeFor \in [Codes -> Logins]
                          /\ NoFile \notin Requests
                          /\ {"cli", "empty", "garbled"} \cap (Requests \cup {NoFile}) = {}

VARIABLES
  param,     \* claudoo.pkce.<uid>: the login whose verifier it holds
  begun,     \* logins started
  latest,    \* the last of them
  spent,     \* codes Claude has exchanged
  pc,        \* where a request is
  pasted,    \* what the user pasted: the code, and whether its state came with it
  snap,      \* the login whose verifier the request has read
  fresh,     \* its transaction can still commit
  tmp,       \* .credentials.json.tmp: the file of that name
  pub,       \* .credentials.json: the file of that name
  content,   \* what is in a file
  fd,        \* the file a request has open
  cli,       \* the CLI has loaded the credentials and is refreshing them
  kept,      \* requests whose file no logout has removed since it was published
  clashed    \* two requests have been writing at the same time

parameter == <<param, begun, latest>>
request == <<pc, pasted, snap, fresh>>
files == <<tmp, pub, content, fd, cli, kept, clashed>>
vars == <<parameter, spent, request, files>>

(* A file is named after the writer that created it. *)
Inodes == Requests \cup {"cli"}
Writing == {"writing", "renaming"}
Open == {"exchanging", "opening", "consuming"} \cup Writing
AtRest == {"accepted", "refused"}

Init ==
  /\ param = NoLogin
  /\ begun = {}
  /\ latest = NoLogin
  /\ spent = {}
  /\ pc = [r \in Requests |-> "none"]
  /\ pasted \in [Requests -> [code : Codes, state : BOOLEAN]]
  /\ snap = [r \in Requests |-> NoLogin]
  /\ fresh = [r \in Requests |-> FALSE]
  /\ tmp = NoFile
  /\ pub = NoFile
  /\ content = [i \in Inodes |-> "empty"]
  /\ fd = [r \in Requests |-> NoFile]
  /\ cli = FALSE
  /\ kept = {}
  /\ clashed = FALSE

-----------------------------------------------------------------------------
(* The parameter *)

(* A commit that changes the parameter overtakes every open transaction.    *)
Overtaken == [r \in Requests |-> FALSE]

(* _startAuth, _ai_oauth_start: a short transaction, a new pair replaces *)
(* the one that was there.                                                  *)
Start(l) ==
  /\ l \notin begun
  /\ param' = l
  /\ begun' = begun \cup {l}
  /\ latest' = l
  /\ fresh' = Overtaken
  /\ UNCHANGED <<spent, pc, pasted, snap, files>>

-----------------------------------------------------------------------------
(* The request *)

Goto(r, label) == pc' = [pc EXCEPT ![r] = label]

(* _completeAuth, in any of the user's pages: the input takes Enter again   *)
(* while a request is under way.                                            *)
Submit(r) ==
  /\ pc[r] = "none"
  /\ CodeFor[pasted[r].code] \in begun
  /\ Goto(r, "sent")
  /\ UNCHANGED <<parameter, spent, pasted, snap, fresh, files>>

(* UserError or another exception: the transaction is rolled back, the page *)
(* gets an error.                                                           *)
Refuse(r) ==
  /\ Goto(r, "refused")
  /\ UNCHANGED <<parameter, pasted, snap, fresh>>

StateMatches(r, l) == pasted[r].state => CodeFor[pasted[r].code] = l

Begin(r) ==
  /\ pc[r] = "sent"
  /\ param # NoLogin
  /\ StateMatches(r, param)
  /\ Goto(r, "exchanging")
  /\ snap' = [snap EXCEPT ![r] = param]
  /\ fresh' = [fresh EXCEPT ![r] = TRUE]
  /\ UNCHANGED <<parameter, spent, pasted, files>>

(* No login in progress, or authorization state mismatch. *)
Reject(r) ==
  /\ pc[r] = "sent"
  /\ param = NoLogin \/ ~StateMatches(r, param)
  /\ Refuse(r)
  /\ UNCHANGED <<spent, files>>

(* Claude's token endpoint: a code is good once, with the verifier whose    *)
(* challenge it was issued for.                                             *)
Grants(r) == pasted[r].code \notin spent /\ CodeFor[pasted[r].code] = snap[r]

Exchange(r) ==
  /\ pc[r] = "exchanging"
  /\ Grants(r)
  /\ spent' = spent \cup {pasted[r].code}
  /\ Goto(r, "opening")
  /\ UNCHANGED <<parameter, pasted, snap, fresh, files>>

WaitsForClaude(r) == ~Grants(r)      \* mutant: requests.post without a timeout
MayFail(r) == TRUE

(* Claude refuses, cannot be reached or does not answer for 30 s, or the    *)
(* answer, which may have been a grant, is lost or holds no token.          *)
ExchangeFails(r) ==
  /\ pc[r] = "exchanging"
  /\ MayFail(r)
  /\ spent' \in IF Grants(r) THEN {spent, spent \cup {pasted[r].code}} ELSE {spent}
  /\ Refuse(r)
  /\ UNCHANGED files

-----------------------------------------------------------------------------
(* _ai_write_credentials *)

OpenInPlace(r) == IF pub = NoFile THEN r ELSE pub     \* mutant: no temporary file
Opened(r) == IF tmp = NoFile THEN r ELSE tmp

(* O_CREAT | O_TRUNC: one temporary name for all writers. *)
OpenTmp(r) ==
  /\ pc[r] = "opening"
  /\ fd' = [fd EXCEPT ![r] = Opened(r)]
  /\ tmp' = Opened(r)
  /\ content' = [content EXCEPT ![Opened(r)] = "empty"]
  /\ clashed' = (clashed \/ \E q \in Requests : pc[q] \in Writing)
  /\ Goto(r, "writing")
  /\ UNCHANGED <<parameter, spent, pasted, snap, fresh, pub, cli, kept>>

(* The buffer is written when the file is closed.  Over what another writer *)
(* has put there, the longer of the two shows at the end.                   *)
WriteTmp(r) ==
  /\ pc[r] = "writing"
  /\ \E result \in IF content[fd[r]] = "empty" THEN {r} ELSE {r, "garbled"} :
       content' = [content EXCEPT ![fd[r]] = result]
  /\ Goto(r, "renaming")
  /\ UNCHANGED <<parameter, spent, pasted, snap, fresh, tmp, pub, fd, cli, kept, clashed>>

(* os.replace renames whatever file has the temporary name by now. *)
Replace(r) ==
  /\ pc[r] = "renaming"
  /\ tmp # NoFile
  /\ pub' = tmp
  /\ tmp' = NoFile
  /\ kept' = kept \cup {r}
  /\ Goto(r, "consuming")
  /\ UNCHANGED <<parameter, spent, pasted, snap, fresh, content, fd, cli, clashed>>

(* FileNotFoundError: another writer has renamed it. *)
ReplaceFails(r) ==
  /\ pc[r] = "renaming"
  /\ tmp = NoFile
  /\ Refuse(r)
  /\ UNCHANGED <<spent, files>>

GoesOn(r) ==         \* mutant: an error of the file system is logged and swallowed
  /\ Goto(r, "consuming")
  /\ kept' = kept \cup {r}
  /\ UNCHANGED <<parameter, pasted, snap, fresh>>
GivesUp(r) == Refuse(r) /\ UNCHANGED kept

(* No directory, no space, no permission. *)
FileError(r) ==
  /\ pc[r] \in {"opening"} \cup Writing
  /\ GivesUp(r)
  /\ UNCHANGED <<spent, tmp, pub, content, fd, cli, clashed>>

-----------------------------------------------------------------------------
(* The end of the transaction *)

AnyCommits(r) == TRUE      \* mutant: READ COMMITTED
Committable(r) == fresh[r]

Unconsumed == param        \* mutant: the pair is left for another try
Consumed == NoLogin

(* set_param(""), the commit, the reply. *)
Commit(r) ==
  /\ pc[r] = "consuming"
  /\ Committable(r)
  /\ param' = Consumed
  /\ fresh' = Overtaken
  /\ Goto(r, "accepted")
  /\ UNCHANGED <<begun, latest, spent, pasted, snap, files>>

(* A concurrent update: the server runs the whole request again, up to five *)
(* times; a second rerun never comes about, because the code is spent.      *)
Rerun(r) ==
  /\ pc[r] = "consuming"
  /\ ~fresh[r]
  /\ Goto(r, "sent")
  /\ UNCHANGED <<parameter, spent, pasted, snap, fresh, files>>

(* Any other failure of the commit. *)
CommitFails(r) ==
  /\ pc[r] = "consuming"
  /\ Refuse(r)
  /\ UNCHANGED <<spent, files>>

(* The server process ends: what is on the disk stays. *)
ServerDies(r) ==
  /\ pc[r] \in Open \cup {"sent"}
  /\ Refuse(r)
  /\ UNCHANGED <<spent, files>>

-----------------------------------------------------------------------------
(* The others who touch the file *)

(* _ai_logout *)
Logout ==
  /\ pub # NoFile
  /\ pub' = NoFile
  /\ kept' = {}
  /\ UNCHANGED <<parameter, spent, request, tmp, content, fd, cli, clashed>>

Whole(i) == content[i] \in Inodes

(* A CLI of the user renews the token it has loaded and writes it back;     *)
(* its own write is taken to be atomic.                                     *)
CliLoad ==
  /\ pub # NoFile
  /\ Whole(pub)
  /\ cli' = TRUE
  /\ UNCHANGED <<parameter, spent, request, tmp, pub, content, fd, kept, clashed>>

CliStore ==
  /\ cli
  /\ cli' = FALSE
  /\ pub' = "cli"
  /\ content' = [content EXCEPT !["cli"] = "cli"]
  /\ UNCHANGED <<parameter, spent, request, tmp, fd, kept, clashed>>

-----------------------------------------------------------------------------

Work(r) ==
  \/ Begin(r) \/ Reject(r) \/ ExchangeFails(r)
  \/ OpenTmp(r) \/ WriteTmp(r) \/ Replace(r) \/ ReplaceFails(r)
  \/ Commit(r) \/ Rerun(r) \/ CommitFails(r)

Next ==
  \/ \E l \in Logins : Start(l)
  \/ \E r \in Requests : Submit(r) \/ Work(r) \/ Exchange(r) \/ FileError(r) \/ ServerDies(r)
  \/ Logout \/ CliLoad \/ CliStore

Spec == Init /\ [][Next]_vars

(* The server works on its requests, and requests.post gives up after 30 s: *)
(* nothing is assumed of Claude, of the user or of the CLI.                 *)
FairSpec == Spec /\ \A r \in Requests : WF_vars(Work(r))

-----------------------------------------------------------------------------
(* Properties *)

(* Every variable has its type (the parameter, the request, the files). *)
TypeOK ==
  /\ param \in Logins \cup {NoLogin}
  /\ begun \subseteq Logins
  /\ latest \in Logins \cup {NoLogin}
  /\ spent \subseteq Codes
  /\ pc \in [Requests -> {"none", "sent"} \cup Open \cup AtRest]
  /\ pasted \in [Requests -> [code : Codes, state : BOOLEAN]]
  /\ snap \in [Requests -> Logins \cup {NoLogin}]
  /\ fresh \in [Requests -> BOOLEAN]
  /\ tmp \in Requests \cup {NoFile}
  /\ pub \in Inodes \cup {NoFile}
  /\ content \in [Inodes -> Inodes \cup {"empty", "garbled"}]
  /\ fd \in [Requests -> Requests \cup {NoFile}]
  /\ cli \in BOOLEAN
  /\ kept \subseteq Requests
  /\ clashed \in BOOLEAN

(* As long as a user's logins have not written at the same time, whoever    *)
(* opens .credentials.json finds no file or a whole one, after crashes, disk*)
(* errors and logouts at any point (_ai_write_credentials,                  *)
(* _ai_is_authenticated).                                                   *)
PublishedIsWhole == ~clashed /\ pub # NoFile => Whole(pub)

(* A request that was accepted has left the account connected, until a      *)
(* logout that comes after its file was published (_ai_oauth_complete       *)
(* writes the file before it consumes the parameter).                       *)
AcceptedIsStored ==
  ~clashed => \A r \in Requests : pc[r] = "accepted" /\ r \in kept => pub # NoFile /\ Whole(pub)

LoginOf(r) == CodeFor[pasted[r].code]

(* The login started last stays open until a request with a code of its own *)
(* is accepted: completing an older login late never consumes it            *)
(* (_ai_oauth_start, the commit of _ai_oauth_complete).                     *)
StartedLoginKept ==
  \/ param = latest
  \/ param = NoLogin /\ \E r \in Requests : pc[r] = "accepted" /\ LoginOf(r) = latest

(* However often codes of one login are submitted, one request is accepted  *)
(* (the PKCE state is consumed, a second consumer is run again).            *)
LoginCompletesOnce ==
  \A r, q \in Requests :
    pc[r] = "accepted" /\ pc[q] = "accepted" /\ LoginOf(r) = LoginOf(q) => r = q

(* A page that shows "Connecting..." gets an answer, whatever Claude does    *)
(* (_completeAuth, the timeout of requests.post, a rerun that ends).      *)
ConnectingEnds == \A r \in Requests : pc[r] = "sent" ~> pc[r] \in AtRest

=============================================================================
