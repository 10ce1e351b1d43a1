--------------------------- MODULE ClaudeLoginProofs ---------------------------
(***************************************************************************)
(* For any logins, codes and requests, however they interleave with         *)
(* logouts, CLIs, disk errors and crashes.                                  *)
(***************************************************************************)
EXTENDS ClaudeLogin, TLAPS

(* The ways a request ends in an error. *)
Refusal(r) ==
  Reject(r) \/ ExchangeFails(r) \/ ReplaceFails(r) \/ FileError(r) \/ CommitFails(r) \/ ServerDies(r)

-----------------------------------------------------------------------------
(* Types *)

LEMMA InitTypes == Init => TypeOK
BY LoginAssumption DEF Init, TypeOK, Inodes

LEMMA RefusalEffect ==
  ASSUME NEW r \in Requests, Refusal(r)
  PROVE  /\ pc[r] \in Open \cup {"sent"}
         /\ pc' = [pc EXCEPT ![r] = "refused"]
         /\ UNCHANGED <<parameter, pasted, snap, fresh, files>>
         /\ spent \subseteq spent' /\ spent' \subseteq spent \cup {pasted[r].code}
BY DEF Refusal, Reject, ExchangeFails, ReplaceFails, FileError, CommitFails, ServerDies, GivesUp,
       Refuse, Goto, MayFail, Grants, files, Open, Writing

LEMMA StepTypes == TypeOK /\ [Next]_vars => TypeOK'
<1> SUFFICES ASSUME TypeOK, [Next]_vars PROVE TypeOK'
  OBVIOUS
<1> USE DEF TypeOK, Goto
<1>1. CASE UNCHANGED vars
  BY <1>1 DEF vars, parameter, request, files
<1>2. ASSUME NEW l \in Logins, Start(l) PROVE TypeOK'
  BY <1>2 DEF Start, Overtaken, files
<1>3. ASSUME NEW r \in Requests, Submit(r) PROVE TypeOK'
  BY <1>3 DEF Submit, parameter, files
<1>4. ASSUME NEW r \in Requests, Begin(r) PROVE TypeOK'
  BY <1>4 DEF Begin, parameter, files, Open
<1>5. ASSUME NEW r \in Requests, Exchange(r) PROVE TypeOK'
  BY <1>5 DEF Exchange, parameter, files, Open
<1>6. ASSUME NEW r \in Requests, OpenTmp(r) PROVE TypeOK'
  BY <1>6 DEF OpenTmp, Opened, parameter, Open, Writing, Inodes
<1>7. ASSUME NEW r \in Requests, WriteTmp(r) PROVE TypeOK'
  <2>1. PICK result \in Inodes \cup {"empty", "garbled"} :
              content' = [content EXCEPT ![fd[r]] = result]
    BY <1>7 DEF WriteTmp, Inodes
  <2>2. content' \in [Inodes -> Inodes \cup {"empty", "garbled"}]
    BY <2>1
  <2>3. pc' \in [Requests -> {"none", "sent"} \cup Open \cup AtRest]
    BY <1>7 DEF WriteTmp, Open, Writing
  <2> QED BY <1>7, <2>2, <2>3 DEF WriteTmp, parameter
<1>8. ASSUME NEW r \in Requests, Replace(r) PROVE TypeOK'
  BY <1>8 DEF Replace, parameter, Open, Inodes
<1>9. ASSUME NEW r \in Requests, Commit(r) PROVE TypeOK'
  BY <1>9 DEF Commit, Consumed, Overtaken, files, AtRest
<1>10. ASSUME NEW r \in Requests, Rerun(r) PROVE TypeOK'
  BY <1>10 DEF Rerun, parameter, files
<1>11. ASSUME NEW r \in Requests, Refusal(r) PROVE TypeOK'
  BY <1>11, RefusalEffect DEF parameter, files, AtRest
<1>12. CASE Logout
  BY <1>12 DEF Logout, parameter, request
<1>13. CASE CliLoad
  BY <1>13 DEF CliLoad, parameter, request
<1>14. CASE CliStore
  BY <1>14 DEF CliStore, parameter, request, Inodes
<1>15. QED
  BY <1>1, <1>2, <1>3, <1>4, <1>5, <1>6, <1>7, <1>8, <1>9, <1>10, <1>11, <1>12, <1>13, <1>14
     DEF Next, Work, Refusal

(* Every variable keeps its type (TypeOK). *)
THEOREM TypesHold == Spec => []TypeOK
BY InitTypes, StepTypes, PTL DEF Spec

-----------------------------------------------------------------------------
(* The parameter *)

Granted == {"opening", "consuming"} \cup Writing

(* What an open transaction has read is what the parameter still holds, if  *)
(* it can commit at all; a grant is for the login that was read.            *)
LoginInv ==
  /\ param \in {NoLogin, latest}
  /\ param # NoLogin => param \in begun
  /\ \A r \in Requests :
       /\ pc[r] # "none" => LoginOf(r) \in begun
       /\ pc[r] \in Open /\ fresh[r] => snap[r] = param /\ param # NoLogin
       /\ pc[r] \in Granted => snap[r] = LoginOf(r) /\ pasted[r].code \in spent
       /\ pc[r] = "accepted" => LoginOf(r) # param
  /\ StartedLoginKept
  /\ LoginCompletesOnce

LEMMA InitLogin == Init => LoginInv
BY DEF Init, LoginInv, Granted, Open, Writing, StartedLoginKept, LoginCompletesOnce

LEMMA LoginTyped ==
  ASSUME TypeOK, NEW r \in Requests
  PROVE  LoginOf(r) \in Logins /\ LoginOf(r) # NoLogin /\ pasted[r].code \in Codes
BY LoginAssumption DEF TypeOK, LoginOf

LEMMA RefusalLogin ==
  ASSUME TypeOK, LoginInv, NEW r \in Requests, Refusal(r)
  PROVE  LoginInv'
<1>1. pc[r] \in Open \cup {"sent"} /\ pc' = [pc EXCEPT ![r] = "refused"]
  BY RefusalEffect
<1>2. UNCHANGED <<param, begun, latest, pasted, snap, fresh>> /\ spent \subseteq spent'
  BY RefusalEffect DEF parameter
<1>3. \A q \in Requests : pc'[q] = "accepted" <=> pc[q] = "accepted"
  BY <1>1 DEF TypeOK, Open, Writing
<1>4. \A q \in Requests : LoginOf(q)' = LoginOf(q)
  BY <1>2 DEF LoginOf
<1>5. StartedLoginKept' /\ LoginCompletesOnce'
  BY <1>2, <1>3, <1>4 DEF LoginInv, StartedLoginKept, LoginCompletesOnce
<1>6. ASSUME NEW q \in Requests
      PROVE  /\ pc'[q] # "none" => LoginOf(q) \in begun
             /\ pc'[q] \in Open /\ fresh[q] => snap[q] = param /\ param # NoLogin
             /\ pc'[q] \in Granted => snap[q] = LoginOf(q) /\ pasted[q].code \in spent'
             /\ pc'[q] = "accepted" => LoginOf(q) # param
  BY <1>1, <1>2 DEF LoginInv, TypeOK, Open, Writing, Granted
<1> QED BY <1>2, <1>4, <1>5, <1>6 DEF LoginInv

(* A step of a request that neither commits nor ends it. *)
LEMMA WorkLogin ==
  ASSUME TypeOK, LoginInv, NEW r \in Requests,
         \/ Submit(r) \/ Begin(r) \/ Exchange(r) \/ OpenTmp(r) \/ WriteTmp(r) \/ Replace(r)
         \/ Rerun(r)
  PROVE  LoginInv'
<1>1. UNCHANGED <<param, begun, latest, pasted>> /\ spent \subseteq spent'
  BY DEF Submit, Begin, Exchange, OpenTmp, WriteTmp, Replace, Rerun, parameter
<1>2. \A q \in Requests : LoginOf(q)' = LoginOf(q)
  BY <1>1 DEF LoginOf
<1>3. \A q \in Requests : pc'[q] = "accepted" <=> pc[q] = "accepted"
  BY DEF TypeOK, Goto, Submit, Begin, Exchange, OpenTmp, WriteTmp, Replace, Rerun
<1>4. StartedLoginKept' /\ LoginCompletesOnce'
  BY <1>1, <1>2, <1>3 DEF LoginInv, StartedLoginKept, LoginCompletesOnce
<1>5. ASSUME NEW q \in Requests
      PROVE  /\ pc'[q] # "none" => LoginOf(q) \in begun
             /\ pc'[q] \in Open /\ fresh'[q] => snap'[q] = param /\ param # NoLogin
             /\ pc'[q] \in Granted => snap'[q] = LoginOf(q) /\ pasted[q].code \in spent'
             /\ pc'[q] = "accepted" => LoginOf(q) # param
  <2> USE DEF LoginInv, TypeOK, Goto, Open, Writing, Granted
  <2>1. CASE Submit(r)
    BY <2>1 DEF Submit, LoginOf, parameter
  <2>2. CASE Begin(r)
    BY <2>2 DEF Begin, parameter
  <2>3. CASE Exchange(r)
    BY <2>3 DEF Exchange, Grants, LoginOf
  <2>4. CASE OpenTmp(r) \/ WriteTmp(r) \/ Replace(r) \/ Rerun(r)
    BY <2>4 DEF OpenTmp, WriteTmp, Replace, Rerun, parameter
  <2> QED BY <2>1, <2>2, <2>3, <2>4
<1> QED BY <1>1, <1>2, <1>4, <1>5 DEF LoginInv

LEMMA StartLogin ==
  ASSUME TypeOK, LoginInv, NEW l \in Logins, Start(l)
  PROVE  LoginInv'
<1>1. /\ l \notin begun /\ param' = l /\ latest' = l /\ begun' = begun \cup {l}
      /\ fresh' = [r \in Requests |-> FALSE]
      /\ UNCHANGED <<spent, pc, pasted, snap>>
  BY DEF Start, Overtaken
<1>2. \A q \in Requests : LoginOf(q)' = LoginOf(q)
  BY <1>1 DEF LoginOf
<1>3. \A q \in Requests : pc[q] = "accepted" => LoginOf(q) # l
  BY <1>1 DEF LoginInv
<1> QED
  BY <1>1, <1>2, <1>3, LoginAssumption DEF LoginInv, StartedLoginKept, LoginCompletesOnce

LEMMA CommitLogin ==
  ASSUME TypeOK, LoginInv, NEW r \in Requests, Commit(r)
  PROVE  LoginInv'
<1>1. /\ pc[r] = "consuming" /\ fresh[r] /\ param' = NoLogin
      /\ fresh' = [q \in Requests |-> FALSE]
      /\ pc' = [pc EXCEPT ![r] = "accepted"]
      /\ UNCHANGED <<begun, latest, spent, pasted, snap>>
  BY DEF Commit, Consumed, Committable, Overtaken, Goto
<1>2. \A q \in Requests : LoginOf(q)' = LoginOf(q)
  BY <1>1 DEF LoginOf
<1>3. param = LoginOf(r) /\ param = latest
  BY <1>1 DEF LoginInv, Open, Granted
<1>4. \A q \in Requests : pc[q] = "accepted" => LoginOf(q) # LoginOf(r)
  BY <1>3 DEF LoginInv
<1>5. pc'[r] = "accepted" /\ \A q \in Requests : q # r => pc'[q] = pc[q]
  BY <1>1 DEF TypeOK
<1>6. StartedLoginKept'
  BY <1>1, <1>2, <1>3, <1>5 DEF StartedLoginKept
<1>7. LoginCompletesOnce'
  BY <1>2, <1>4, <1>5 DEF LoginInv, LoginCompletesOnce
<1>8. \A q \in Requests :
        /\ LoginOf(q) # NoLogin
        /\ pc'[q] # "none" => LoginOf(q) \in begun
        /\ pc'[q] \in Granted => snap[q] = LoginOf(q) /\ pasted[q].code \in spent
  BY <1>1, <1>5, LoginTyped DEF LoginInv, Granted, Writing
<1> QED BY <1>1, <1>2, <1>6, <1>7, <1>8 DEF LoginInv

LEMMA StepLogin == TypeOK /\ LoginInv /\ [Next]_vars => LoginInv'
<1> SUFFICES ASSUME TypeOK, LoginInv, [Next]_vars PROVE LoginInv'
  OBVIOUS
<1>1. CASE UNCHANGED vars \/ Logout \/ CliLoad \/ CliStore
  <2>1. UNCHANGED <<parameter, spent, request>>
    BY <1>1 DEF vars, Logout, CliLoad, CliStore
  <2>2. \A q \in Requests : LoginOf(q)' = LoginOf(q)
    BY <2>1 DEF LoginOf, request
  <2> QED
    BY <2>1, <2>2 DEF parameter, request, LoginInv, StartedLoginKept, LoginCompletesOnce
<1> QED
  BY <1>1, StartLogin, WorkLogin, CommitLogin, RefusalLogin DEF Next, Work, Refusal

(* Completing an older login never consumes the one started last, however   *)
(* late it comes (StartedLoginKept).                                        *)
THEOREM LatestLoginStaysOpen == Spec => []StartedLoginKept
<1>1. LoginInv => StartedLoginKept
  BY DEF LoginInv
<1> QED BY <1>1, TypesHold, InitLogin, StepLogin, PTL DEF Spec

(* One login is completed by one request (LoginCompletesOnce). *)
THEOREM LoginIsConsumedOnce == Spec => []LoginCompletesOnce
<1>1. LoginInv => LoginCompletesOnce
  BY DEF LoginInv
<1> QED BY <1>1, TypesHold, InitLogin, StepLogin, PTL DEF Spec

-----------------------------------------------------------------------------
(* The files *)

Writers == {r \in Requests : pc[r] \in Writing}

(* As long as no two requests have been writing at once: there is one       *)
(* writer, what it has open is the file of the temporary name, and that is  *)
(* never the published one.                                                 *)
OneWriter ==
  /\ \A r, q \in Writers : r = q
  /\ \A r \in Writers :
       /\ tmp # NoFile
       /\ fd[r] = tmp
       /\ content[tmp] = IF pc[r] = "writing" THEN "empty" ELSE r
  /\ pub # NoFile => Whole(pub)

(* A file a request has created is not created again: its code is spent.    *)
FileInv ==
  /\ \A r \in Requests : r \in {tmp, pub} => pc[r] # "opening" /\ pasted[r].code \in spent
  /\ tmp # NoFile => tmp # pub
  /\ kept # {} => pub # NoFile
  /\ ~clashed => OneWriter

LEMMA InitFile == Init => FileInv
BY LoginAssumption DEF Init, FileInv, OneWriter, Writers, Writing

LEMMA RefusalFile ==
  ASSUME TypeOK, FileInv, NEW r \in Requests, Refusal(r)
  PROVE  FileInv'
<1>1. /\ pc' = [pc EXCEPT ![r] = "refused"]
      /\ UNCHANGED <<pasted, tmp, pub, content, fd, kept, clashed>>
      /\ spent \subseteq spent'
  BY RefusalEffect DEF files
<1>2. Writers' \subseteq Writers /\ \A q \in Writers' : pc'[q] = pc[q]
  BY <1>1 DEF TypeOK, Writers, Writing
<1>3. OneWriter => OneWriter'
  BY <1>1, <1>2 DEF OneWriter, Whole
<1> QED BY <1>1, <1>3 DEF FileInv, TypeOK

(* A step of a request that is not about the files. *)
LEMMA QuietFile ==
  ASSUME TypeOK, FileInv, NEW r \in Requests,
         Submit(r) \/ Begin(r) \/ Exchange(r) \/ Commit(r) \/ Rerun(r)
  PROVE  FileInv'
<1>1. UNCHANGED <<pasted, files>> /\ spent \subseteq spent'
  BY DEF Submit, Begin, Exchange, Commit, Rerun
<1>2. \A q \in Requests : (pc'[q] \in Writing <=> pc[q] \in Writing) /\ (pc[q] \in Writing => pc'[q] = pc[q])
  BY DEF TypeOK, Goto, Writing, Submit, Begin, Exchange, Commit, Rerun
<1>3. OneWriter => OneWriter'
  BY <1>1, <1>2 DEF OneWriter, Writers, Whole, files
<1>4. \A q \in Requests : pc'[q] = "opening" => pc[q] = "opening" \/ pasted[q].code \notin spent
  BY DEF TypeOK, Goto, Grants, Submit, Begin, Exchange, Commit, Rerun
<1> QED BY <1>1, <1>3, <1>4 DEF FileInv, files

LEMMA OpenFile ==
  ASSUME TypeOK, LoginInv, FileInv, NEW r \in Requests, OpenTmp(r)
  PROVE  FileInv'
<1>1. /\ pc[r] = "opening" /\ pc' = [pc EXCEPT ![r] = "writing"]
      /\ tmp' = Opened(r) /\ fd' = [fd EXCEPT ![r] = Opened(r)]
      /\ content' = [content EXCEPT ![Opened(r)] = "empty"]
      /\ UNCHANGED <<spent, pasted, pub, kept>>
      /\ clashed' = (clashed \/ Writers # {})
  BY DEF OpenTmp, Goto, Writers
<1>2. pasted[r].code \in spent
  BY <1>1 DEF LoginInv, Granted
<1>3. Opened(r) \in Requests /\ Opened(r) # NoFile /\ Opened(r) # pub
  BY <1>1, LoginAssumption DEF Opened, TypeOK, FileInv
<1>4. ~clashed' => OneWriter'
  <2> SUFFICES ASSUME ~clashed' PROVE OneWriter'
    OBVIOUS
  <2>1. ~clashed /\ Writers = {}
    BY <1>1
  <2>2. Writers' = {r} /\ pc'[r] = "writing"
    BY <1>1, <2>1 DEF Writers, Writing, TypeOK
  <2>3. content'[tmp'] = "empty" /\ fd'[r] = tmp' /\ tmp' # NoFile
    BY <1>1, <1>3 DEF TypeOK, Inodes
  <2>4. pub' # NoFile => Whole(pub)'
    BY <1>1, <1>3, <2>1 DEF FileInv, OneWriter, Whole, TypeOK
  <2> QED BY <2>2, <2>3, <2>4 DEF OneWriter
<1>5. \A q \in Requests : q \in {tmp', pub} => pc'[q] # "opening" /\ pasted[q].code \in spent
  BY <1>1, <1>2 DEF FileInv, Opened, TypeOK
<1> QED BY <1>1, <1>3, <1>4, <1>5 DEF FileInv

LEMMA WriteFile ==
  ASSUME TypeOK, FileInv, NEW r \in Requests, WriteTmp(r)
  PROVE  FileInv'
<1>1. /\ pc[r] = "writing" /\ pc' = [pc EXCEPT ![r] = "renaming"]
      /\ UNCHANGED <<spent, pasted, tmp, pub, fd, kept, clashed>>
  BY DEF WriteTmp, Goto
<1>2. OneWriter => OneWriter'
  <2> SUFFICES ASSUME OneWriter PROVE OneWriter'
    OBVIOUS
  <2>1. r \in Writers /\ tmp # NoFile /\ fd[r] = tmp /\ content[tmp] = "empty"
    BY <1>1 DEF OneWriter, Writers, Writing
  <2>2. content' = [content EXCEPT ![tmp] = r]
    BY <2>1 DEF WriteTmp
  <2>3. Writers' = Writers /\ pc'[r] = "renaming"
    BY <1>1 DEF Writers, Writing, TypeOK
  <2>4. content'[tmp] = r
    BY <2>1, <2>2 DEF TypeOK, Inodes
  <2>5. pub # NoFile => Whole(pub)'
    BY <1>1, <2>1, <2>2 DEF OneWriter, FileInv, Whole, TypeOK
  <2> QED BY <1>1, <2>1, <2>3, <2>4, <2>5 DEF OneWriter
<1> QED BY <1>1, <1>2 DEF FileInv, TypeOK

LEMMA ReplaceFile ==
  ASSUME TypeOK, FileInv, NEW r \in Requests, Replace(r)
  PROVE  FileInv'
<1>1. /\ pc[r] = "renaming" /\ pc' = [pc EXCEPT ![r] = "consuming"]
      /\ tmp # NoFile /\ pub' = tmp /\ tmp' = NoFile /\ kept' = kept \cup {r}
      /\ UNCHANGED <<spent, pasted, content, fd, clashed>>
  BY DEF Replace, Goto
<1>2. OneWriter => OneWriter'
  <2> SUFFICES ASSUME OneWriter PROVE OneWriter'
    OBVIOUS
  <2>1. Writers = {r} /\ content[tmp] = r
    BY <1>1 DEF OneWriter, Writers, Writing
  <2>2. Writers' = {}
    BY <1>1, <2>1 DEF Writers, Writing, TypeOK
  <2>3. Whole(pub)'
    BY <1>1, <2>1 DEF Whole, Inodes
  <2> QED BY <2>2, <2>3 DEF OneWriter
<1>3. \A q \in Requests : q \in {tmp', pub'} => q = tmp
  BY <1>1, LoginAssumption
<1> QED BY <1>1, <1>2, <1>3 DEF FileInv, TypeOK

LEMMA OthersFile ==
  ASSUME TypeOK, FileInv,
         UNCHANGED vars \/ (\E l \in Logins : Start(l)) \/ Logout \/ CliLoad \/ CliStore
  PROVE  FileInv'
<1>1. CASE UNCHANGED <<spent, pc, pasted, tmp, pub, content, fd, kept, clashed>>
  BY <1>1 DEF FileInv, OneWriter, Writers, Whole
<1>2. CASE Logout
  BY <1>2, LoginAssumption DEF Logout, request, FileInv, OneWriter, Writers
<1>3. CASE CliStore
  <2>1. /\ pub' = "cli" /\ content' = [content EXCEPT !["cli"] = "cli"]
        /\ UNCHANGED <<spent, pc, pasted, tmp, fd, kept, clashed>>
    BY <1>3 DEF CliStore, request
  <2>2. "cli" # NoFile /\ "cli" \notin Requests /\ tmp # "cli"
    BY LoginAssumption DEF TypeOK
  <2>3. OneWriter => OneWriter'
    <3>1. content'["cli"] = "cli" /\ content'[tmp] = content[tmp]
      BY <2>1, <2>2 DEF TypeOK, Inodes
    <3>2. Writers' = Writers /\ Whole(pub)'
      BY <2>1, <3>1 DEF Writers, Whole, Inodes
    <3> QED BY <2>1, <3>1, <3>2 DEF OneWriter
  <2> QED BY <2>1, <2>2, <2>3 DEF FileInv
<1> QED
  BY <1>1, <1>2, <1>3 DEF vars, parameter, request, files, Start, CliLoad

LEMMA StepFile == TypeOK /\ LoginInv /\ FileInv /\ [Next]_vars => FileInv'
BY OthersFile, RefusalFile, QuietFile, OpenFile, WriteFile, ReplaceFile DEF Next, Work, Refusal

(* Readers of .credentials.json find none or a whole one as long as no two  *)
(* logins of the user have written at once (PublishedIsWhole).              *)
THEOREM ReadersSeeWholeFiles == Spec => []PublishedIsWhole
<1>1. FileInv => PublishedIsWhole
  BY DEF FileInv, OneWriter, PublishedIsWhole
<1> QED BY <1>1, TypesHold, InitLogin, StepLogin, InitFile, StepFile, PTL DEF Spec

(* An accepted login has left the account connected (AcceptedIsStored). *)
THEOREM AcceptedLoginsAreStored == Spec => []AcceptedIsStored
<1>1. FileInv => AcceptedIsStored
  BY DEF FileInv, OneWriter, AcceptedIsStored
<1> QED BY <1>1, TypesHold, InitLogin, StepLogin, InitFile, StepFile, PTL DEF Spec

=============================================================================
