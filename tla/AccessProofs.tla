---------------------------- MODULE AccessProofs ----------------------------
(* What is proved of Sessions and of Accounts, for every set of devices, of *)
(* users, of concurrent requests and of mails.                              *)
EXTENDS Sessions, Accounts, TLAPS

-----------------------------------------------------------------------------
(* Sessions: the types, and that a session that ended is never active again.*)

USE NoDeviceAssumption, SessionBounds

SessionRow == [state : {"none", "active", "gone"}, device : Devices \cup {NoDevice}]
Request    == [at : {"idle", "signingIn", "challenged", "verified", "active", "consumed", "enabling",
                     "approving", "polling"},
               device : Devices \cup {NoDevice}, jti : Jtis \cup {None}, secret : Secrets \cup {None}]
Scan       == [of : {"nothing", "device", "others", "all"}, left : SUBSET Sids,
               device : Devices \cup {NoDevice}, keep : Sids \cup {None}]

\* A request that consumes or has consumed a refresh token has one in hand, and
\* one that issues a session knows the device it is for.
RequestInHand ==
  \A q \in Clients :
    /\ inflight[q].at \in {"active", "consumed"} => /\ inflight[q].jti \in Jtis
                                                    /\ sidOf[inflight[q].jti] \in Sids
    /\ inflight[q].at \in {"signingIn", "verified", "challenged", "approving"} => inflight[q].device \in Devices

\* A refresh token that is good was issued for a session.
RefreshIssued == \A j \in refresh : sidOf[j] \in Sids

SessionInv == SessionTypeOK /\ RequestInHand /\ RefreshIssued

LEMMA RequestMoves ==
  ASSUME inflight \in [Clients -> Request], RequestInHand, sidOf' = sidOf,
         NEW q \in Clients, NEW r \in Request, inflight' = [inflight EXCEPT ![q] = r],
         r.at \in {"active", "consumed"} => r.jti \in Jtis /\ sidOf[r.jti] \in Sids,
         r.at \in {"signingIn", "verified", "challenged", "approving"} => r.device \in Devices
  PROVE  inflight' \in [Clients -> Request] /\ RequestInHand'
<1>1. \A p \in Clients : p # q => inflight'[p] = inflight[p]
  OBVIOUS
<1>2. inflight'[q] = r /\ inflight' \in [Clients -> Request]
  OBVIOUS
<1> QED BY <1>1, <1>2 DEF RequestInHand

LEMMA SessionEnds ==
  ASSUME session \in [Sids -> SessionRow], NEW ss, EndSessions(ss)
  PROVE  /\ session' \in [Sids -> SessionRow]
         /\ \A s \in Sids : session[s].state = "gone" => session'[s].state = "gone"
  BY DEF EndSessions, SessionRow, Active

LEMMA SessionIssued ==
  ASSUME SessionTypeOK, NEW d \in Devices, IssueTokens(d)
  PROVE  /\ session' \in [Sids -> SessionRow] /\ sidOf' \in [Jtis -> Sids \cup {None}]
         /\ refresh' \subseteq Jtis
         /\ \A s \in Sids : session[s].state = "gone" => session'[s].state = "gone"
         /\ \A j \in Jtis : sidOf[j] \in Sids => sidOf'[j] \in Sids
         /\ \A j \in refresh' : j \in refresh \/ sidOf'[j] \in Sids
<1> PICK s \in NewSid, j \in NewJti :
      /\ session' = [session EXCEPT ![s] = [state |-> "active", device |-> d]]
      /\ sidOf' = [sidOf EXCEPT ![j] = s] /\ refresh' = refresh \cup {j}
  BY DEF IssueTokens
<1>1. s \in Sids /\ session[s].state = "none" /\ j \in Jtis
  BY DEF NewSid, NewJti
<1>2. [state |-> "active", device |-> d] \in SessionRow
  BY DEF SessionRow
<1>3. session \in [Sids -> SessionRow] /\ sidOf \in [Jtis -> Sids \cup {None}] /\ refresh \subseteq Jtis
  BY DEF SessionTypeOK, SessionRow
<1> QED BY <1>1, <1>2, <1>3

LEMMA SessionRotated ==
  ASSUME SessionTypeOK, NEW s \in Sids, Rotated(s)
  PROVE  /\ session' = session /\ sidOf' \in [Jtis -> Sids \cup {None}]
         /\ refresh' \subseteq Jtis
         /\ \A j \in Jtis : sidOf[j] \in Sids => sidOf'[j] \in Sids
         /\ \A j \in refresh' : j \in refresh \/ sidOf'[j] \in Sids
<1>1. CASE session' = session /\ \E j \in NewJti : sidOf' = [sidOf EXCEPT ![j] = s] /\ refresh' = refresh \cup {j}
  BY <1>1 DEF SessionTypeOK, NewJti
<1>2. CASE UNCHANGED <<session, sidOf, refresh>>
  BY <1>2 DEF SessionTypeOK
<1> QED BY <1>1, <1>2 DEF Rotated

LEMMA SessionInitially == SessionInit => SessionInv
<1> SUFFICES ASSUME SessionInit PROVE SessionInv
  OBVIOUS
<1>1. session \in [Sids -> SessionRow] /\ sidOf \in [Jtis -> Sids \cup {None}]
  BY DEF SessionInit, SessionRow, NoSession
<1>2. NoRequest \in Request /\ NoRequest.at = "idle"
  BY DEF NoRequest, Request
<1>3. inflight \in [Clients -> Request] /\ \A q \in Clients : inflight[q].at = "idle"
  BY <1>2 DEF SessionInit
<1>4. scan \in Scan
  BY DEF SessionInit, NoScan, Scan
<1>5. issued \in 0..MaxSecrets
  BY DEF SessionInit
<1> QED BY <1>1, <1>3, <1>4, <1>5
        DEF SessionInit, SessionInv, SessionTypeOK, SessionRow, Request, Scan, RequestInHand, RefreshIssued

LEMMA SessionStep == SessionInv /\ [SessionNext]_sessionVars => SessionInv'
<1> SUFFICES ASSUME SessionInv, [SessionNext]_sessionVars PROVE SessionInv'
  OBVIOUS
<1>t. /\ session \in [Sids -> SessionRow] /\ sidOf \in [Jtis -> Sids \cup {None}]
      /\ refresh \subseteq Jtis /\ devices \subseteq Devices
      /\ factor \in Secrets \cup {None} /\ offered \in Secrets \cup {None} /\ issued \in 0..MaxSecrets
      /\ inflight \in [Clients -> Request] /\ scan \in Scan /\ cli \in {"none", "pending", "approved"}
      /\ RequestInHand /\ RefreshIssued
  BY DEF SessionInv, SessionTypeOK, SessionRow, Request, Scan
<1>q. SUFFICES
      /\ session' \in [Sids -> SessionRow] /\ sidOf' \in [Jtis -> Sids \cup {None}]
      /\ refresh' \subseteq Jtis /\ devices' \subseteq Devices
      /\ factor' \in Secrets \cup {None} /\ offered' \in Secrets \cup {None} /\ issued' \in 0..MaxSecrets
      /\ inflight' \in [Clients -> Request] /\ scan' \in Scan /\ cli' \in {"none", "pending", "approved"}
      /\ RequestInHand' /\ RefreshIssued'
  BY DEF SessionInv, SessionTypeOK, SessionRow, Request, Scan
<1>n. NoRequest \in Request /\ NoRequest.at = "idle" /\ NoScan \in Scan
  BY DEF NoRequest, Request, NoScan, Scan
<1> USE DEF factors
<1>1. CASE \E q \in Clients, d \in Devices : SignIn(q, d) \/ ApproveCli(q, d)
  <2> PICK q \in Clients, d \in Devices : SignIn(q, d) \/ ApproveCli(q, d)
    BY <1>1
  <2>1. PICK at \in {"signingIn", "challenged", "approving"} :
          inflight' = [inflight EXCEPT ![q].at = at, ![q].device = d]
    BY DEF SignIn, ApproveCli
  <2> DEFINE r == [inflight[q] EXCEPT !.at = at, !.device = d]
  <2>2. r \in Request /\ r.at = at /\ r.device = d
    BY <1>t DEF Request
  <2>3. inflight' = [inflight EXCEPT ![q] = r] /\ sidOf' = sidOf
    BY <1>t, <2>1 DEF SignIn, ApproveCli
  <2>4. inflight' \in [Clients -> Request] /\ RequestInHand'
    BY <1>t, <2>2, <2>3, RequestMoves
  <2> QED BY <1>t, <2>3, <2>4 DEF SignIn, ApproveCli, RefreshIssued
<1>2. CASE \E q \in Clients : VerifyChallenge(q)
  <2> PICK q \in Clients : VerifyChallenge(q)
    BY <1>2
  <2>1. PICK r \in {NoRequest, [inflight[q] EXCEPT !.at = "verified"]} :
          inflight' = [inflight EXCEPT ![q] = r]
    BY <1>t DEF VerifyChallenge, Goes, Finish
  <2>2. /\ r \in Request /\ r.at \in {"idle", "verified"}
        /\ r.at = "verified" => r.device \in Devices
    BY <1>t, <1>n, <2>1 DEF VerifyChallenge, Request, RequestInHand
  <2>3. inflight' \in [Clients -> Request] /\ RequestInHand'
    BY <1>t, <2>1, <2>2, RequestMoves DEF VerifyChallenge
  <2> QED BY <1>t, <2>3 DEF VerifyChallenge, RefreshIssued
<1>3. CASE \E q \in Clients : FinishSignIn(q) \/ StoreApproval(q)
  <2> PICK q \in Clients : FinishSignIn(q) \/ StoreApproval(q)
    BY <1>3
  <2>1. inflight[q].device \in Devices /\ IssueTokens(inflight[q].device)
    BY <1>t DEF FinishSignIn, StoreApproval, RequestInHand
  <2>2. inflight' = [inflight EXCEPT ![q] = NoRequest]
    BY DEF FinishSignIn, StoreApproval, Finish
  <2>3. SessionTypeOK
    BY DEF SessionInv
  <2>4. /\ session' \in [Sids -> SessionRow] /\ sidOf' \in [Jtis -> Sids \cup {None}]
        /\ refresh' \subseteq Jtis
        /\ \A j \in Jtis : sidOf[j] \in Sids => sidOf'[j] \in Sids
        /\ \A j \in refresh' : j \in refresh \/ sidOf'[j] \in Sids
    BY <2>1, <2>3, SessionIssued
  <2>5. inflight' \in [Clients -> Request] /\ RequestInHand'
    BY <1>t, <1>n, <2>2, <2>4 DEF RequestInHand
  <2>6. RefreshIssued'
    BY <1>t, <2>4 DEF RefreshIssued
  <2> QED BY <1>t, <2>1, <2>4, <2>5, <2>6 DEF FinishSignIn, StoreApproval
<1>4. CASE \E q \in Clients, j \in Jtis : CheckRefresh(q, j)
  <2> PICK q \in Clients, j \in Jtis : CheckRefresh(q, j)
    BY <1>4
  <2> DEFINE r == [inflight[q] EXCEPT !.at = "active", !.jti = j]
  <2>1. r \in Request /\ r.at = "active" /\ r.jti = j /\ sidOf[j] \in Sids
    BY <1>t DEF CheckRefresh, Active, Request
  <2>2. inflight' = [inflight EXCEPT ![q] = r] /\ sidOf' = sidOf
    BY <1>t DEF CheckRefresh
  <2>3. inflight' \in [Clients -> Request] /\ RequestInHand'
    BY <1>t, <2>1, <2>2, RequestMoves
  <2> QED BY <1>t, <2>2, <2>3 DEF CheckRefresh, RefreshIssued
<1>5. CASE \E q \in Clients : ConsumeRefresh(q)
  <2> PICK q \in Clients : ConsumeRefresh(q)
    BY <1>5
  <2>1. PICK r \in {NoRequest, [inflight[q] EXCEPT !.at = "consumed"]} :
          inflight' = [inflight EXCEPT ![q] = r]
    BY <1>t DEF ConsumeRefresh, Goes, Finish
  <2>2. /\ r \in Request /\ r.at \in {"idle", "consumed"}
        /\ r.at = "consumed" => r.jti \in Jtis /\ sidOf[r.jti] \in Sids
    BY <1>t, <1>n, <2>1 DEF ConsumeRefresh, Request, RequestInHand
  <2>3. inflight' \in [Clients -> Request] /\ RequestInHand'
    BY <1>t, <2>1, <2>2, RequestMoves DEF ConsumeRefresh
  <2> QED BY <1>t, <2>3 DEF ConsumeRefresh, Consumed, RefreshIssued
<1>6. CASE \E q \in Clients : RotateRefresh(q)
  <2> PICK q \in Clients : RotateRefresh(q)
    BY <1>6
  <2>1. sidOf[inflight[q].jti] \in Sids /\ Rotated(sidOf[inflight[q].jti]) /\ SessionTypeOK
    BY <1>t DEF RotateRefresh, RequestInHand, SessionInv
  <2>2. inflight' = [inflight EXCEPT ![q] = NoRequest]
    BY DEF RotateRefresh, Finish
  <2>4. /\ session' = session /\ sidOf' \in [Jtis -> Sids \cup {None}]
        /\ refresh' \subseteq Jtis
        /\ \A j \in Jtis : sidOf[j] \in Sids => sidOf'[j] \in Sids
        /\ \A j \in refresh' : j \in refresh \/ sidOf'[j] \in Sids
    BY <2>1, SessionRotated
  <2>5. inflight' \in [Clients -> Request] /\ RequestInHand'
    BY <1>t, <1>n, <2>2, <2>4 DEF RequestInHand
  <2>6. RefreshIssued'
    BY <1>t, <2>4 DEF RefreshIssued
  <2> QED BY <1>t, <2>4, <2>5, <2>6 DEF RotateRefresh
<1>7. CASE \/ \E j \in Jtis : Logout(j)
           \/ \E s \in Sids : SessionExpires(s) \/ RevokeBatch(s)
  <2>1. /\ \E ss : EndSessions(ss)
        /\ refresh' \subseteq refresh
        /\ UNCHANGED <<sidOf, devices, factors, inflight, cli>>
    BY <1>7 DEF Logout, SessionExpires, RevokeBatch
  <2>2. session' \in [Sids -> SessionRow]
    BY <1>t, <2>1, SessionEnds
  <2>3. scan' \in Scan
    BY <1>t, <1>7 DEF Logout, SessionExpires, RevokeBatch, Scan
  <2> QED BY <1>t, <2>1, <2>2, <2>3 DEF RequestInHand, RefreshIssued
<1>8. CASE \/ \E s \in Sids : RevokeOthers(s)
           \/ \E d \in Devices : RevokeSession(d)
           \/ RevokeAllRefresh
  <2>1. \E of \in {"device", "others", "all"}, d \in Devices \cup {NoDevice}, keep \in Sids \cup {None} :
          StartRevocation(of, d, keep)
    BY <1>8 DEF RevokeOthers, RevokeSession, RevokeAllRefresh
  <2>2. scan' \in Scan
    BY <1>t, <2>1 DEF StartRevocation, Scan, Active
  <2> QED BY <1>t, <2>1, <2>2 DEF StartRevocation, RequestInHand, RefreshIssued
<1>9. CASE RevocationDone
  <2>1. devices' \subseteq Devices /\ refresh' \subseteq refresh
    BY <1>t, <1>9 DEF RevocationDone
  <2> QED BY <1>t, <1>n, <1>9, <2>1 DEF RevocationDone, RequestInHand, RefreshIssued
<1>10. CASE SetupTotp \/ DisableTotp \/ CliSession
  BY <1>t, <1>10 DEF SetupTotp, DisableTotp, CliSession, Secrets, RequestInHand, RefreshIssued
<1>11. CASE \E q \in Clients : ReadOffered(q)
  <2> PICK q \in Clients : ReadOffered(q)
    BY <1>11
  <2> DEFINE r == [inflight[q] EXCEPT !.at = "enabling", !.secret = offered]
  <2>1. r \in Request /\ r.at = "enabling"
    BY <1>t DEF Request
  <2>2. inflight' = [inflight EXCEPT ![q] = r] /\ sidOf' = sidOf
    BY <1>t DEF ReadOffered
  <2>3. inflight' \in [Clients -> Request] /\ RequestInHand'
    BY <1>t, <2>1, <2>2, RequestMoves
  <2> QED BY <1>t, <2>2, <2>3 DEF ReadOffered, RefreshIssued
<1>12. CASE \E q \in Clients : EnableTotp(q)
  BY <1>t, <1>n, <1>12 DEF EnableTotp, Enabled, Finish, RequestInHand, RefreshIssued, Request
<1>13. CASE \E q \in Clients : PollCli(q)
  <2> PICK q \in Clients : PollCli(q)
    BY <1>13
  <2> DEFINE r == [inflight[q] EXCEPT !.at = "polling"]
  <2>1. r \in Request /\ r.at = "polling"
    BY <1>t DEF Request
  <2>2. inflight' = [inflight EXCEPT ![q] = r] /\ sidOf' = sidOf
    BY <1>t DEF PollCli, Goes
  <2>3. inflight' \in [Clients -> Request] /\ RequestInHand'
    BY <1>t, <2>1, <2>2, RequestMoves
  <2> QED BY <1>t, <2>2, <2>3 DEF PollCli, RefreshIssued
<1>14. CASE \E q \in Clients : ConsumeApproval(q)
  BY <1>t, <1>n, <1>14 DEF ConsumeApproval, Finish, RequestInHand, RefreshIssued
<1>15. CASE UNCHANGED sessionVars
  BY <1>t, <1>15 DEF sessionVars, RequestInHand, RefreshIssued
<1> QED
  BY <1>1, <1>2, <1>3, <1>4, <1>5, <1>6, <1>7, <1>8, <1>9, <1>10, <1>11, <1>12, <1>13, <1>14, <1>15
  DEF SessionNext

\* Every variable of the sessions keeps its type; that a request still has a
\* token of a session in hand when it rotates it is what makes it inductive.
THEOREM SessionTyped == SessionSpec => []SessionTypeOK
<1>1. SessionInv => SessionTypeOK
  BY DEF SessionInv
<1> QED BY SessionInitially, SessionStep, <1>1, PTL DEF SessionSpec

-----------------------------------------------------------------------------
\* A session that was signed out, revoked or has expired is never active again
\* (tokens.ts, issueTokens), whatever refreshes, sign-ins and scans overlap:
\* a refresh writes a session's key only while it exists.
THEOREM GoneForGood == SessionSpec => RevokedStaysRevoked
<1>1. SessionInv /\ [SessionNext]_sessionVars
      => [\A s \in Sids : session[s].state = "gone" => session'[s].state = "gone"]_sessionVars
  <2> SUFFICES ASSUME SessionInv, SessionNext
               PROVE  \A s \in Sids : session[s].state = "gone" => session'[s].state = "gone"
    OBVIOUS
  <2>t. session \in [Sids -> SessionRow] /\ SessionTypeOK /\ RequestInHand
    BY DEF SessionInv, SessionTypeOK, SessionRow
  <2>1. CASE \E q \in Clients : FinishSignIn(q) \/ StoreApproval(q)
    BY <2>t, <2>1, SessionIssued DEF FinishSignIn, StoreApproval, RequestInHand
  <2>2. CASE \E q \in Clients : RotateRefresh(q)
    BY <2>t, <2>2, SessionRotated DEF RotateRefresh, RequestInHand
  <2>3. CASE \E ss : EndSessions(ss)
    BY <2>t, <2>3, SessionEnds
  <2>4. CASE session' = session
    BY <2>4
  <2> QED
    BY <2>1, <2>2, <2>3, <2>4
    DEF SessionNext, SignIn, VerifyChallenge, CheckRefresh, ConsumeRefresh, Logout, SessionExpires,
        StartRevocation, RevokeSession, RevokeOthers, RevokeAllRefresh, RevokeBatch, RevocationDone,
        SetupTotp, ReadOffered, EnableTotp, DisableTotp, CliSession, ApproveCli, PollCli, ConsumeApproval
<1> QED BY SessionInitially, SessionStep, <1>1, PTL DEF SessionSpec, RevokedStaysRevoked

-----------------------------------------------------------------------------
(* Accounts: the types, the owner of the org, who may be deleted, and that  *)
(* a link is redeemed once.                                                 *)

USE NobodyAssumption, MailBound

AccountRow == [exists : BOOLEAN, verified : BOOLEAN, asked : BOOLEAN,
               closing : {"no", "grace", "due"}]
MailRow    == [user : People \cup {Nobody}, purpose : Purposes,
               state : {"none", "live", "used", "expired"}]

LEMMA AccountRowChange ==
  ASSUME NEW a \in AccountRow
  PROVE  /\ [a EXCEPT !.verified = TRUE] \in AccountRow
         /\ [a EXCEPT !.asked = TRUE] \in AccountRow
         /\ [a EXCEPT !.closing = "grace"] \in AccountRow
         /\ [a EXCEPT !.closing = "due"] \in AccountRow
         /\ [a EXCEPT !.asked = FALSE, !.closing = "no"] \in AccountRow
         /\ [a EXCEPT !.exists = FALSE, !.closing = "no"] \in AccountRow
  BY DEF AccountRow

LEMMA MailRowChange ==
  ASSUME NEW r \in MailRow
  PROVE  /\ [r EXCEPT !.state = "used"] \in MailRow
         /\ [r EXCEPT !.state = "expired"] \in MailRow
  BY DEF MailRow

LEMMA Typed ==
  AccountTypeOK <=>
    /\ account \in [People -> AccountRow]
    /\ owners \subseteq People /\ org \in BOOLEAN
    /\ mail \in [Mails -> MailRow]
    /\ redeeming \in [Servers -> [at : {"idle", "found", "marked", "redeemed"},
                                  mail : Mails \cup {NoMail}]]
    /\ dueList \subseteq People
    /\ verdict \in [user : People \cup {Nobody}, doomed : BOOLEAN]
    /\ redeemed \in [Mails -> 0..2] /\ burned \subseteq Mails
    /\ meant \subseteq People /\ overlooked \subseteq People
  BY DEF AccountTypeOK, AccountRow, MailRow

\* A token that has been found, marked or redeemed by a request is one of Mails.
InHand == \A q \in Servers : redeeming[q].at # "idle" =>
            redeeming[q].mail \in Mails /\ mail[redeeming[q].mail].user \in People

\* Every token that was issued is somebody's.
Addressed == \A m \in Mails : mail[m].state # "none" => mail[m].user \in People

\* The janitor's verdict is on somebody.
OnSomebody == verdict # NoVerdict => verdict.user \in People

AccountInv == AccountTypeOK /\ Addressed /\ InHand /\ OnSomebody

LEMMA AccountInitially == AccountInit => AccountInv
  BY DEF AccountInit, AccountInv, AccountTypeOK, Addressed, InHand, OnSomebody, NoToken, NoVerdict, Purposes

LEMMA Issued ==
  ASSUME AccountInv, NEW u \in People, NEW p \in Purposes, IssueEmailToken(u, p)
  PROVE  /\ mail' \in [Mails -> MailRow]
         /\ \A m \in Mails : mail'[m].state # "none" => mail'[m].user \in People
         /\ \A m \in Mails : mail[m].user \in People => mail'[m].user \in People
         /\ \A m \in Mails : mail'[m].state # "none" /\ mail[m].state = "none" => mail'[m].state = "live"
         /\ \A m \in Mails : mail[m].state # "none" => mail'[m] = mail[m]
<1> PICK m \in Mails : /\ mail[m].state = "none"
                       /\ mail' = [mail EXCEPT ![m] = [user |-> u, purpose |-> p, state |-> "live"]]
  BY DEF IssueEmailToken
<1>1. [user |-> u, purpose |-> p, state |-> "live"] \in MailRow
  BY DEF MailRow
<1>2. mail \in [Mails -> MailRow]
  BY Typed DEF AccountInv
<1> QED BY <1>1, <1>2 DEF AccountInv, Addressed

LEMMA AccountStep == AccountInv /\ [AccountNext]_accountVars => AccountInv'
<1> SUFFICES ASSUME AccountInv, [AccountNext]_accountVars PROVE AccountInv'
    OBVIOUS
<1>t. /\ account \in [People -> AccountRow] /\ owners \subseteq People /\ org \in BOOLEAN
      /\ mail \in [Mails -> MailRow]
      /\ redeeming \in [Servers -> [at : {"idle", "found", "marked", "redeemed"},
                                    mail : Mails \cup {NoMail}]]
      /\ dueList \subseteq People /\ verdict \in [user : People \cup {Nobody}, doomed : BOOLEAN]
      /\ redeemed \in [Mails -> 0..2] /\ burned \subseteq Mails
      /\ meant \subseteq People /\ overlooked \subseteq People
      /\ Addressed /\ InHand /\ OnSomebody
  BY Typed DEF AccountInv
<1>q. SUFFICES
        /\ account' \in [People -> AccountRow] /\ owners' \subseteq People /\ org' \in BOOLEAN
        /\ mail' \in [Mails -> MailRow]
        /\ redeeming' \in [Servers -> [at : {"idle", "found", "marked", "redeemed"},
                                       mail : Mails \cup {NoMail}]]
        /\ dueList' \subseteq People /\ verdict' \in [user : People \cup {Nobody}, doomed : BOOLEAN]
        /\ redeemed' \in [Mails -> 0..2] /\ burned' \subseteq Mails
        /\ meant' \subseteq People /\ overlooked' \subseteq People
        /\ Addressed' /\ InHand' /\ OnSomebody'
  BY Typed DEF AccountInv, AccountTypeOK, AccountRow, MailRow
<1> USE DEF janitor, history
<1>1. CASE \E u \in People : AskForDeletion(u)
  <2> PICK u \in People : AskForDeletion(u)
    BY <1>1
  <2>1. "account_delete" \in Purposes /\ IssueEmailToken(u, "account_delete")
    BY DEF Purposes, AskForDeletion
  <2>2. account' \in [People -> AccountRow]
    BY <1>t, AccountRowChange DEF AskForDeletion
  <2> QED BY <1>t, <2>1, <2>2, Issued DEF AskForDeletion, Addressed, InHand, OnSomebody
<1>2. CASE \E u \in People : CancelDeletion(u)
  <2> PICK u \in People : CancelDeletion(u)
    BY <1>2
  <2>1. account' \in [People -> AccountRow]
    BY <1>t, AccountRowChange DEF CancelDeletion, Cancelled
  <2> QED BY <1>t, <2>1 DEF CancelDeletion, Addressed, InHand, OnSomebody
<1>3. CASE \E u \in People : GracePasses(u)
  <2> PICK u \in People : GracePasses(u)
    BY <1>3
  <2>1. account' \in [People -> AccountRow]
    BY <1>t, AccountRowChange DEF GracePasses
  <2> QED BY <1>t, <2>1 DEF GracePasses, Addressed, InHand, OnSomebody
<1>4. CASE \E u \in People : DeletionImpact(u)
  BY <1>t, <1>4 DEF DeletionImpact, SoleOwner, Addressed, InHand, OnSomebody
<1>5. CASE \E u \in People, p \in Purposes : SendLink(u, p)
  BY <1>t, <1>5, Issued DEF SendLink, Addressed, InHand, OnSomebody
<1>6. CASE \E m \in Mails : TokenExpires(m)
  <2> PICK m \in Mails : TokenExpires(m)
    BY <1>6
  <2>1. /\ mail' \in [Mails -> MailRow]
        /\ \A k \in Mails : mail'[k].user = mail[k].user
        /\ \A k \in Mails : mail'[k].state # "none" => mail[k].state # "none"
    BY <1>t, MailRowChange DEF TokenExpires, MailRow
  <2> QED BY <1>t, <2>1 DEF TokenExpires, Addressed, InHand, OnSomebody
<1>7. CASE \E q \in Servers : MarkUsed(q)
  <2> PICK q \in Servers : MarkUsed(q)
    BY <1>7
  <2> DEFINE m == redeeming[q].mail
  <2>1. m \in Mails
    BY <1>t DEF MarkUsed, InHand
  <2>2. CASE Unused(m)
    <3>0. /\ mail' = [mail EXCEPT ![m].state = "used"]
          /\ mail[m].state # "none"
          /\ mail[m] \in MailRow /\ [mail[m] EXCEPT !.state = "used"] \in MailRow
          /\ [mail[m] EXCEPT !.state = "used"].user = mail[m].user
      BY <1>t, <2>1, <2>2, MailRowChange DEF MarkUsed, Unused, MailRow
    <3>1. /\ mail' \in [Mails -> MailRow]
          /\ \A k \in Mails : mail'[k].user = mail[k].user
          /\ \A k \in Mails : mail'[k].state # "none" => mail[k].state # "none"
      BY <1>t, <2>1, <3>0
    <3>2. redeeming' = [redeeming EXCEPT ![q].at = "marked"]
      BY <2>2 DEF MarkUsed
    <3>3. redeemed' \in [Mails -> 0..2]
      BY <1>t, <2>1, <2>2 DEF MarkUsed
    <3>4. /\ redeeming' \in [Servers -> [at : {"idle", "found", "marked", "redeemed"},
                                         mail : Mails \cup {NoMail}]]
          /\ \A p \in Servers : /\ redeeming'[p].mail = redeeming[p].mail
                                /\ redeeming'[p].at # "idle" => redeeming[p].at # "idle"
      <4>1. redeeming[q].at = "found"
        BY DEF MarkUsed
      <4> QED BY <1>t, <3>2, <4>1
    <3>5. InHand'
      BY <1>t, <3>1, <3>4 DEF InHand
    <3>6. Addressed'
      BY <1>t, <3>1 DEF Addressed
    <3>7. OnSomebody'
      BY <1>t, <2>2 DEF MarkUsed, OnSomebody, NoVerdict
    <3>8. /\ account' = account /\ owners' = owners /\ org' = org /\ dueList' = dueList
          /\ verdict' = verdict /\ burned' = burned /\ meant' = meant /\ overlooked' = overlooked
      BY DEF MarkUsed
    <3> QED BY <1>t, <3>1, <3>3, <3>4, <3>5, <3>6, <3>7, <3>8
  <2>3. CASE ~Unused(m)
    BY <1>t, <2>1, <2>3 DEF MarkUsed, Addressed, InHand, OnSomebody
  <2> QED BY <2>2, <2>3
<1>8. CASE \E q \in Servers : BurnSiblings(q)
  <2> PICK q \in Servers : BurnSiblings(q)
    BY <1>8
  <2>1. /\ mail' \in [Mails -> MailRow]
        /\ \A k \in Mails : mail'[k].user = mail[k].user
        /\ \A k \in Mails : mail'[k].state # "none" => mail[k].state # "none"
    BY <1>t, MailRowChange DEF BurnSiblings, Siblings, MailRow
  <2>2. Siblings(redeeming[q].mail) \subseteq Mails
    BY DEF Siblings
  <2>3. redeeming' = [redeeming EXCEPT ![q].at = "redeemed"]
    BY DEF BurnSiblings
  <2> QED BY <1>t, <2>1, <2>2, <2>3 DEF BurnSiblings, Addressed, InHand, OnSomebody
<1>9. CASE \E q \in Servers : ActOnToken(q)
  <2> PICK q \in Servers : ActOnToken(q)
    BY <1>9
  <2> DEFINE u == mail[redeeming[q].mail].user
  <2>1. u \in People
    BY <1>t DEF ActOnToken, InHand
  <2>2. account' \in [People -> AccountRow]
    BY <1>t, <2>1, AccountRowChange DEF ActOnToken
  <2> QED BY <1>t, <2>1, <2>2 DEF ActOnToken, Addressed, InHand, OnSomebody
<1>10. CASE \E q \in Servers, m \in Mails : FindToken(q, m)
  BY <1>t, <1>10 DEF FindToken, Addressed, InHand, OnSomebody
<1>11. CASE FindDue
  BY <1>t, <1>11 DEF FindDue, Addressed, InHand, OnSomebody
<1>12. CASE DeleteAccount
  <2>1. account' \in [People -> AccountRow]
    BY <1>t, <1>12, AccountRowChange DEF DeleteAccount
  <2>2. /\ mail' \in [Mails -> MailRow]
        /\ \A k \in Mails : mail'[k].user = mail[k].user
        /\ \A k \in Mails : mail[k].user = verdict.user \/ mail'[k].state = mail[k].state
    BY <1>t, <1>12, MailRowChange DEF DeleteAccount, MailRow
  <2> QED BY <1>t, <1>12, <2>1, <2>2 DEF DeleteAccount, NoVerdict, Addressed, InHand, OnSomebody
<1>13. CASE UNCHANGED accountVars
  BY <1>t, <1>13 DEF accountVars, Addressed, InHand, OnSomebody
<1> QED
  BY <1>1, <1>2, <1>3, <1>4, <1>5, <1>6, <1>7, <1>8, <1>9, <1>10, <1>11, <1>12, <1>13
  DEF AccountNext

\* Every variable of the accounts keeps its type, whatever the users, requests
\* and mails: what a request carries from one of its steps to the next is a
\* token that was issued to somebody.
THEOREM AccountTyped == AccountSpec => []AccountTypeOK
<1>1. AccountInv => AccountTypeOK
  BY DEF AccountInv
<1> QED BY AccountInitially, AccountStep, <1>1, PTL DEF AccountSpec

-----------------------------------------------------------------------------
\* The janitor's verdict on an owner is the one it would still come to.
VerdictStands == verdict # NoVerdict => (verdict.doomed <=> SoleOwner(verdict.user))

\* The org exists as long as it has an owner (account-deletion.ts:
\* deletionImpact's sole owners, deleteAccount's two branches), although what
\* goes with an account is decided before the transaction that deletes it.
THEOREM OrgKeptWithOwner == AccountSpec => []OrgHasOwner
<1> DEFINE I == AccountInv /\ OrgHasOwner /\ VerdictStands
<1>1. AccountInit => I
  BY AccountInitially DEF AccountInit, OrgHasOwner, VerdictStands
<1>2. I /\ [AccountNext]_accountVars => I'
  <2> SUFFICES ASSUME I, [AccountNext]_accountVars PROVE OrgHasOwner' /\ VerdictStands'
    BY AccountStep
  <2>t. owners \subseteq People /\ (verdict # NoVerdict => verdict.user \in People) /\ org \in BOOLEAN
    BY DEF AccountInv, AccountTypeOK, OnSomebody
  <2>1. CASE \E u \in People : DeletionImpact(u)
    <3> PICK u \in People : DeletionImpact(u)
      BY <2>1
    <3>1. owners' = owners /\ org' = org /\ verdict' = [user |-> u, doomed |-> SoleOwner(u)]
      BY DEF DeletionImpact
    <3>2. SoleOwner(u) <=> u \in owners' /\ owners' \ {u} = {}
      BY <3>1 DEF SoleOwner
    <3> QED BY <3>1, <3>2 DEF OrgHasOwner, VerdictStands, SoleOwner
  <2>2. CASE DeleteAccount
    BY <2>2, <2>t DEF DeleteAccount, OrgHasOwner, VerdictStands, SoleOwner, NoVerdict
  <2>3. CASE FindDue
    BY <2>3 DEF FindDue, OrgHasOwner, VerdictStands, SoleOwner
  <2>4. CASE UNCHANGED <<owners, org, verdict>>
    BY <2>4 DEF OrgHasOwner, VerdictStands, SoleOwner
  <2> QED
    BY <2>1, <2>2, <2>3, <2>4
    DEF AccountNext, accountVars, AskForDeletion, CancelDeletion, GracePasses, SendLink,
        TokenExpires, MarkUsed, BurnSiblings, ActOnToken, FindToken, janitor
<1>3. I => OrgHasOwner
  OBVIOUS
<1> QED BY <1>1, <1>2, <1>3, PTL DEF AccountSpec

-----------------------------------------------------------------------------
\* Who is closing, who is on the janitor's list and whom its verdict is on has
\* confirmed it, and whoever took it back since did so behind the list.
Confirmed ==
  /\ \A u \in People : account[u].exists /\ account[u].closing # "no" => u \in meant
  /\ \A u \in dueList : u \in meant \/ u \in overlooked
  /\ verdict # NoVerdict => verdict.user \in meant \/ verdict.user \in overlooked

\* No account is deleted that was not to be (account-deletion.ts,
\* runDueDeletions; janitor.ts): its owner confirmed the closing and did not
\* take it back before the janitor had read that it was due.
THEOREM DeletedAsMeant == AccountSpec => DeletedOnlyIfMeant
<1> DEFINE I == AccountInv /\ Confirmed
<1>1. AccountInit => I
  BY AccountInitially DEF AccountInit, Confirmed
<1>t. AccountInv => /\ account \in [People -> AccountRow] /\ dueList \subseteq People
                    /\ (verdict # NoVerdict => verdict.user \in People) /\ InHand
  BY Typed DEF AccountInv, OnSomebody
<1>2. I /\ [AccountNext]_accountVars => I'
  <2> SUFFICES ASSUME I, [AccountNext]_accountVars PROVE Confirmed'
    BY AccountStep
  <2> USE DEF janitor, history
  <2>1. CASE \E u \in People : AskForDeletion(u)
    BY <1>t, <2>1 DEF AskForDeletion, Confirmed, AccountRow
  <2>2. CASE \E u \in People : CancelDeletion(u)
    <3> PICK u \in People : CancelDeletion(u)
      BY <2>2
    <3>1. \A v \in People : v # u => account'[v] = account[v]
      BY <1>t DEF CancelDeletion
    <3>2. account'[u].closing = "no"
      BY <1>t DEF CancelDeletion, Cancelled, AccountRow
    <3> QED BY <1>t, <3>1, <3>2 DEF CancelDeletion, Confirmed
  <2>3. CASE \E u \in People : GracePasses(u)
    BY <1>t, <2>3 DEF GracePasses, Confirmed, AccountRow
  <2>4. CASE \E u \in People : DeletionImpact(u)
    BY <1>t, <2>4 DEF DeletionImpact, Confirmed
  <2>5. CASE \E q \in Servers : ActOnToken(q)
    <3> PICK q \in Servers : ActOnToken(q)
      BY <2>5
    <3> DEFINE u == mail[redeeming[q].mail].user
    <3>1. u \in People
      BY <1>t DEF ActOnToken, InHand
    <3>2. CASE mail[redeeming[q].mail].purpose = "account_delete"
      <4>1. \A v \in People : v # u => account'[v] = account[v]
        BY <1>t, <3>1, <3>2 DEF ActOnToken
      <4>2. meant' = meant \cup {u} /\ overlooked' = overlooked \ {u}
        BY <3>2 DEF ActOnToken
      <4> QED BY <1>t, <3>1, <4>1, <4>2 DEF ActOnToken, Confirmed
    <3>3. CASE mail[redeeming[q].mail].purpose # "account_delete"
      <4>1. \A v \in People : /\ account'[v].exists = account[v].exists
                              /\ account'[v].closing = account[v].closing
        BY <1>t, <3>1, <3>3 DEF ActOnToken, AccountRow
      <4> QED BY <1>t, <3>3, <4>1 DEF ActOnToken, Confirmed
    <3> QED BY <3>2, <3>3
  <2>6. CASE FindDue
    BY <1>t, <2>6 DEF FindDue, Confirmed
  <2>7. CASE DeleteAccount
    <3>1. \A v \in People : v # verdict.user => account'[v] = account[v]
      BY <1>t, <2>7 DEF DeleteAccount
    <3>2. ~account'[verdict.user].exists
      BY <1>t, <2>7 DEF DeleteAccount, AccountRow
    <3> QED BY <1>t, <2>7, <3>1, <3>2 DEF DeleteAccount, Confirmed
  <2>8. CASE UNCHANGED <<account, dueList, verdict, meant, overlooked>>
    BY <2>8 DEF Confirmed
  <2> QED
    BY <2>1, <2>2, <2>3, <2>4, <2>5, <2>6, <2>7, <2>8
    DEF AccountNext, accountVars, SendLink, TokenExpires, MarkUsed, BurnSiblings, FindToken
<1>3. I /\ [AccountNext]_accountVars
      => [\A u \in People : account[u].exists /\ ~account'[u].exists =>
            u \in meant \/ u \in overlooked]_accountVars
  <2> SUFFICES ASSUME I, AccountNext, NEW u \in People, account[u].exists, ~account'[u].exists
               PROVE  u \in meant \/ u \in overlooked
    OBVIOUS
  <2> USE DEF janitor, history
  <2>1. CASE DeleteAccount
    BY <1>t, <2>1 DEF DeleteAccount, Confirmed
  <2>2. CASE \E q \in Servers : ActOnToken(q)
    <3> PICK q \in Servers : ActOnToken(q)
      BY <2>2
    <3>1. mail[redeeming[q].mail].user \in People
      BY <1>t DEF ActOnToken, InHand
    <3> QED BY <1>t, <3>1 DEF ActOnToken, AccountRow
  <2>3. CASE \E v \in People : AskForDeletion(v) \/ CancelDeletion(v) \/ GracePasses(v)
    <3> PICK v \in People : AskForDeletion(v) \/ CancelDeletion(v) \/ GracePasses(v)
      BY <2>3
    <3>1. CASE AskForDeletion(v)
      BY <1>t, <3>1 DEF AskForDeletion, AccountRow
    <3>2. CASE CancelDeletion(v)
      BY <1>t, <3>2 DEF CancelDeletion, Cancelled, AccountRow
    <3>3. CASE GracePasses(v)
      BY <1>t, <3>3 DEF GracePasses, AccountRow
    <3> QED BY <3>1, <3>2, <3>3
  <2>4. CASE account' = account
    BY <2>4
  <2> QED
    BY <2>1, <2>2, <2>3, <2>4
    DEF AccountNext, DeletionImpact, SendLink, TokenExpires, MarkUsed, BurnSiblings, FindToken, FindDue
<1> QED BY <1>1, <1>2, <1>3, PTL DEF AccountSpec, DeletedOnlyIfMeant

-----------------------------------------------------------------------------
\* A token that is not used was neither redeemed nor invalidated.
UnusedIsFresh == \A m \in Mails : mail[m].state # "used" => redeemed[m] = 0 /\ m \notin burned

\* A link of a mail works once (email-tokens.ts, consumeEmailToken), however many
\* requests bring it at the same time, and not at all once the redemption of another
\* of its kind has invalidated it: the update that marks it finds it unused.  The
\* invalidation is a second update, after that mark, so two links of one kind may
\* both be redeemed if both are marked before either has invalidated the other.
THEOREM LinkOnce == AccountSpec => LinksUsedOnce
<1> DEFINE I == AccountInv /\ UnusedIsFresh
<1>1. AccountInit => I
  BY AccountInitially DEF AccountInit, UnusedIsFresh
<1>t. AccountInv => /\ mail \in [Mails -> MailRow] /\ redeemed \in [Mails -> 0..2] /\ InHand
  BY Typed DEF AccountInv
<1>2. I /\ [AccountNext]_accountVars
        => I' /\ \A m \in Mails : redeemed'[m] > redeemed[m] => redeemed[m] = 0 /\ m \notin burned
  <2> SUFFICES ASSUME I, [AccountNext]_accountVars
               PROVE  /\ UnusedIsFresh'
                      /\ \A m \in Mails : redeemed'[m] > redeemed[m]
                                           => redeemed[m] = 0 /\ m \notin burned
    BY AccountStep
  <2> USE DEF janitor, history
  <2>1. CASE \E q \in Servers : MarkUsed(q)
    <3> PICK q \in Servers : MarkUsed(q)
      BY <2>1
    <3> DEFINE m == redeeming[q].mail
    <3>1. m \in Mails /\ burned' = burned
      BY <1>t DEF MarkUsed, InHand
    <3>2. CASE Unused(m)
      <4>1. mail' = [mail EXCEPT ![m].state = "used"] /\ mail[m].state # "used"
        BY <3>2 DEF MarkUsed, Unused
      <4>2. redeemed' = [redeemed EXCEPT ![m] = IF @ < 2 THEN @ + 1 ELSE @]
        BY <3>2 DEF MarkUsed
      <4>3. redeemed[m] = 0 /\ m \notin burned
        BY <3>1, <4>1 DEF UnusedIsFresh
      <4>4. \A k \in Mails : k # m => mail'[k] = mail[k] /\ redeemed'[k] = redeemed[k]
        BY <1>t, <3>1, <4>1, <4>2
      <4>5. mail'[m].state = "used"
        BY <1>t, <3>1, <4>1 DEF MailRow
      <4>6. UnusedIsFresh'
        BY <3>1, <4>4, <4>5 DEF UnusedIsFresh
      <4>7. \A k \in Mails : k # m => ~(redeemed'[k] > redeemed[k])
        BY <1>t, <4>4
      <4> QED BY <4>3, <4>6, <4>7
    <3>3. CASE ~Unused(m)
      BY <1>t, <3>1, <3>3 DEF MarkUsed, UnusedIsFresh
    <3> QED BY <3>2, <3>3
  <2>2. CASE \E q \in Servers : BurnSiblings(q)
    <3>1. \A k \in Mails : /\ mail'[k].state # "used" => mail[k].state # "used" /\ k \notin burned'
      BY <1>t, <2>2 DEF BurnSiblings, Siblings, MailRow, UnusedIsFresh
    <3> QED BY <1>t, <2>2, <3>1 DEF BurnSiblings, UnusedIsFresh
  <2>3. CASE \E u \in People, p \in Purposes : IssueEmailToken(u, p) /\ UNCHANGED <<redeemed, burned>>
    <3>1. \A k \in Mails : mail'[k].state # "used" => mail[k].state # "used"
      BY <2>3, Issued
    <3> QED BY <1>t, <2>3, <3>1 DEF UnusedIsFresh
  <2>4. CASE (\E m \in Mails : TokenExpires(m)) \/ DeleteAccount
    <3>1. \A k \in Mails : mail'[k].state # "used" => mail[k].state # "used"
      BY <1>t, <2>4 DEF TokenExpires, DeleteAccount, MailRow
    <3>2. redeemed' = redeemed /\ burned' = burned
      BY <2>4 DEF TokenExpires, DeleteAccount
    <3>3. \A k \in Mails : ~(redeemed'[k] > redeemed[k])
      BY <1>t, <3>2
    <3> QED BY <3>1, <3>2, <3>3 DEF UnusedIsFresh
  <2>5. CASE UNCHANGED <<mail, redeemed, burned>>
    BY <1>t, <2>5 DEF UnusedIsFresh
  <2>6. "account_delete" \in Purposes
    BY DEF Purposes
  <2> QED
    BY <2>1, <2>2, <2>3, <2>4, <2>5, <2>6
    DEF AccountNext, accountVars, AskForDeletion, CancelDeletion, GracePasses, DeletionImpact,
        SendLink, ActOnToken, FindToken, FindDue
<1> QED BY <1>1, <1>2, PTL DEF AccountSpec, LinksUsedOnce
=============================================================================
