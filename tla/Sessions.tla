------------------------------ MODULE Sessions ------------------------------
(***************************************************************************)
(* The sessions of one account (auth/tokens.ts, auth/sessions.ts and the   *)
(* routes of api/auth.routes.ts that use them): signing in, the second     *)
(* factor, refresh tokens that are used once, signing out, revocation, and *)
(* the login of a CLI that a browser approves.  Redis keys and rows are    *)
(* shared; every request is a process of its own between its awaits.       *)
(* Access tokens are not state: they name a session and are good while it  *)
(* is active (requireUser).                                                *)
(***************************************************************************)
EXTENDS Naturals, FiniteSets

CONSTANTS Devices, NoDevice,
          Clients,      \* requests that may be served at one time
          MaxSids,      \* bound: sessions
          MaxJtis,      \* bound: refresh tokens
          MaxSecrets    \* bound: second factors offered

ASSUME NoDeviceAssumption == NoDevice \notin Devices
ASSUME SessionBounds == {MaxSids, MaxJtis, MaxSecrets} \subseteq Nat

Sids    == 1..MaxSids
Jtis    == 1..MaxJtis
Secrets == 1..MaxSecrets
None    == 0

VARIABLES session,   \* the key authsession:<user>:<sid>, and its device
          sidOf,     \* of each refresh token issued, its session
          refresh,   \* the keys refresh:<jti>
          devices,   \* auth_sessions: devices seen before
          factor,    \* users.totpSecret
          offered,   \* totp:pending, the secret of the last setup
          issued,    \* how many secrets were offered
          inflight,   \* of each request: where it stands, what it has read
          scan,      \* revokeSessions under way: what is left of its scan
          cli        \* the one cli_session key

sessionVars == <<session, sidOf, refresh, devices, factor, offered, issued, inflight, scan, cli>>

NoSession == [state |-> "none", device |-> NoDevice]
NoRequest == [at |-> "idle", device |-> NoDevice, jti |-> None, secret |-> None]
NoScan    == [of |-> "nothing", left |-> {}, device |-> NoDevice, keep |-> None]

SessionTypeOK ==
  /\ session \in [Sids -> [state : {"none", "active", "gone"}, device : Devices \cup {NoDevice}]]
  /\ sidOf \in [Jtis -> Sids \cup {None}] /\ refresh \subseteq Jtis
  /\ devices \subseteq Devices
  /\ factor \in Secrets \cup {None} /\ offered \in Secrets \cup {None} /\ issued \in 0..MaxSecrets
  /\ inflight \in [Clients ->
       [at : {"idle", "signingIn", "challenged", "verified", "active", "consumed", "enabling",
              "approving", "polling"},
        device : Devices \cup {NoDevice}, jti : Jtis \cup {None}, secret : Secrets \cup {None}]]
  /\ scan \in [of : {"nothing", "device", "others", "all"}, left : SUBSET Sids,
               device : Devices \cup {NoDevice}, keep : Sids \cup {None}]
  /\ cli \in {"none", "pending", "approved"}

SessionInit ==
  /\ session = [s \in Sids |-> NoSession]
  /\ sidOf = [j \in Jtis |-> None] /\ refresh = {}
  /\ devices = {} /\ factor = None /\ offered = None /\ issued = 0
  /\ inflight = [q \in Clients |-> NoRequest]
  /\ scan = NoScan /\ cli = "none"

Active == {s \in Sids : session[s].state = "active"}
NewSid == {s \in Sids : session[s].state = "none" /\ \A t \in Sids : t < s => session[t].state # "none"}
NewJti == {j \in Jtis : sidOf[j] = None /\ \A k \in Jtis : k < j => sidOf[k] # None}

Goes(q, at) == inflight' = [inflight EXCEPT ![q].at = at]
Finish(q)   == inflight' = [inflight EXCEPT ![q] = NoRequest]
factors == <<factor, offered, issued>>

-----------------------------------------------------------------------------
(* Signing in, by password or GitHub.  The account is read first; with a    *)
(* second factor it takes a challenge, and the session is issued last.      *)

SignIn(q, d) ==
  /\ inflight[q] = NoRequest
  /\ inflight' = [inflight EXCEPT ![q].at = IF factor = None THEN "signingIn" ELSE "challenged",
                                ![q].device = d]
  /\ UNCHANGED <<session, sidOf, refresh, devices, factors, scan, cli>>

\* The challenge is read, the code is checked against the secret of now.
VerifyChallenge(q) ==
  /\ inflight[q].at = "challenged"
  /\ \/ factor # None /\ Goes(q, "verified")
     \/ Finish(q)
  /\ UNCHANGED <<session, sidOf, refresh, devices, factors, scan, cli>>

\* issueTokens with a new session, which recordSignIn has recorded the device of.
IssueTokens(d) ==
  \E s \in NewSid, j \in NewJti :
    /\ session' = [session EXCEPT ![s] = [state |-> "active", device |-> d]]
    /\ sidOf' = [sidOf EXCEPT ![j] = s] /\ refresh' = refresh \cup {j}

FinishSignIn(q) ==
  /\ inflight[q].at \in {"signingIn", "verified"}
  /\ devices' = devices \cup {inflight[q].device}
  /\ IssueTokens(inflight[q].device)
  /\ Finish(q)
  /\ UNCHANGED <<factors, scan, cli>>

-----------------------------------------------------------------------------
(* /auth/refresh: the session is checked, the token consumed, and a token   *)
(* for the same session issued, which checks the session again.             *)

CheckRefresh(q, j) ==
  /\ inflight[q] = NoRequest /\ sidOf[j] # None
  /\ sidOf[j] \in Active
  /\ inflight' = [inflight EXCEPT ![q].at = "active", ![q].jti = j]
  /\ UNCHANGED <<session, sidOf, refresh, devices, factors, scan, cli>>

\* getdel
Consumed(j) == refresh \ {j}

ConsumeRefresh(q) ==
  LET j == inflight[q].jti
  IN /\ inflight[q].at = "active"
     /\ refresh' = Consumed(j)
     /\ IF j \in refresh THEN Goes(q, "consumed") ELSE Finish(q)
     /\ UNCHANGED <<session, sidOf, devices, factors, scan, cli>>

\* Mutation of Rotated: the session's key is written whether it exists or not.
RotatedBlindly(s) ==
  \E j \in NewJti :
    /\ session' = [session EXCEPT ![s].state = "active"]
    /\ sidOf' = [sidOf EXCEPT ![j] = s] /\ refresh' = refresh \cup {j}

\* The script of issueTokens: nothing, unless the session still exists.
Rotated(s) ==
  \/ /\ s \in Active
     /\ \E j \in NewJti : sidOf' = [sidOf EXCEPT ![j] = s] /\ refresh' = refresh \cup {j}
     /\ UNCHANGED session
  \/ s \notin Active /\ UNCHANGED <<session, sidOf, refresh>>

RotateRefresh(q) ==
  /\ inflight[q].at = "consumed"
  /\ Rotated(sidOf[inflight[q].jti])
  /\ Finish(q)
  /\ UNCHANGED <<devices, factors, scan, cli>>

-----------------------------------------------------------------------------
(* Sessions end: by signing out, by revocation, or unused for thirty days.  *)

EndSessions(ss) ==
  session' = [s \in Sids |-> IF s \in ss /\ s \in Active THEN [session[s] EXCEPT !.state = "gone"]
                             ELSE session[s]]

\* /auth/logout: only with a refresh token that is still good.
Logout(j) ==
  /\ j \in refresh /\ refresh' = refresh \ {j}
  /\ EndSessions({sidOf[j]})
  /\ UNCHANGED <<sidOf, devices, factors, inflight, scan, cli>>

SessionExpires(s) ==
  /\ s \in Active /\ EndSessions({s})
  /\ refresh' = {j \in refresh : sidOf[j] # s}
  /\ UNCHANGED <<sidOf, devices, factors, inflight, scan, cli>>

\* revokeSessions: of one device, of all but the caller's session, or of all
\* (the reset of a password).  The keys there when the scan begins are found,
\* batch after batch, and later ones may be; rows and tokens go afterwards.
StartRevocation(of, d, keep) ==
  /\ scan.of = "nothing"
  /\ scan' = [of |-> of, left |-> Active \ {keep}, device |-> d, keep |-> keep]
  /\ UNCHANGED <<session, sidOf, refresh, devices, factors, inflight, cli>>

RevokeSession(d)   == d \in devices /\ StartRevocation("device", d, None)
RevokeOthers(s)    == s \in Active /\ StartRevocation("others", NoDevice, s)
RevokeAllRefresh   == StartRevocation("all", NoDevice, None)

RevokeBatch(s) ==
  /\ scan.of # "nothing" /\ s # scan.keep
  /\ s \in scan.left \cup Active
  /\ scan' = [scan EXCEPT !.left = @ \ {s}]
  /\ EndSessions(IF scan.of = "device" => session[s].device = scan.device THEN {s} ELSE {})
  /\ UNCHANGED <<sidOf, refresh, devices, factors, inflight, cli>>

RevocationDone ==
  /\ scan.of # "nothing" /\ scan.left = {}
  /\ scan' = NoScan
  /\ devices' = CASE scan.of = "device" -> devices \ {scan.device}
                  [] scan.of = "others" -> {d \in devices : /\ scan.keep \in Active
                                                            /\ d = session[scan.keep].device}
                  [] OTHER -> devices
  /\ refresh' = IF scan.of = "all" THEN {} ELSE refresh
  /\ UNCHANGED <<session, sidOf, factors, inflight, cli>>

-----------------------------------------------------------------------------
(* The second factor: a secret is offered, and enabled with a code for it.  *)

SetupTotp ==
  /\ factor = None /\ issued < MaxSecrets
  /\ issued' = issued + 1 /\ offered' = issued + 1
  /\ UNCHANGED <<session, sidOf, refresh, devices, factor, inflight, scan, cli>>

ReadOffered(q) ==
  /\ inflight[q] = NoRequest /\ offered # None
  /\ inflight' = [inflight EXCEPT ![q].at = "enabling", ![q].secret = offered]
  /\ UNCHANGED <<session, sidOf, refresh, devices, factors, scan, cli>>

\* The update is of a user without a secret; only then the offer is deleted.
Enabled(secret) ==
  \/ factor = None /\ factor' = secret /\ offered' = None
  \/ factor # None /\ UNCHANGED <<factor, offered>>

EnableTotp(q) ==
  /\ inflight[q].at = "enabling"
  /\ Enabled(inflight[q].secret)
  /\ Finish(q)
  /\ UNCHANGED <<session, sidOf, refresh, devices, issued, scan, cli>>

DisableTotp ==
  /\ factor # None /\ factor' = None
  /\ UNCHANGED <<session, sidOf, refresh, devices, offered, issued, inflight, scan, cli>>

-----------------------------------------------------------------------------
(* /auth/cli-session: a code is made, a browser approves it, the CLI polls. *)

CliSession ==
  /\ cli = "none" /\ cli' = "pending"
  /\ UNCHANGED <<session, sidOf, refresh, devices, factors, inflight, scan>>

ApproveCli(q, d) ==
  /\ inflight[q] = NoRequest /\ cli # "none"
  /\ inflight' = [inflight EXCEPT ![q].at = "approving", ![q].device = d]
  /\ UNCHANGED <<session, sidOf, refresh, devices, factors, scan, cli>>

StoreApproval(q) ==
  /\ inflight[q].at = "approving"
  /\ IssueTokens(inflight[q].device)
  /\ cli' = "approved" /\ Finish(q)
  /\ UNCHANGED <<devices, factors, scan>>

PollCli(q) ==
  /\ inflight[q] = NoRequest /\ cli = "approved"
  /\ Goes(q, "polling")
  /\ UNCHANGED <<session, sidOf, refresh, devices, factors, scan, cli>>

ConsumeApproval(q) ==
  /\ inflight[q].at = "polling"
  /\ cli' = "none" /\ Finish(q)
  /\ UNCHANGED <<session, sidOf, refresh, devices, factors, scan>>

-----------------------------------------------------------------------------
SessionNext ==
  \/ \E q \in Clients, d \in Devices : SignIn(q, d) \/ ApproveCli(q, d)
  \/ \E q \in Clients : \/ VerifyChallenge(q) \/ FinishSignIn(q) \/ ConsumeRefresh(q)
                        \/ RotateRefresh(q) \/ ReadOffered(q) \/ EnableTotp(q)
                        \/ StoreApproval(q) \/ PollCli(q) \/ ConsumeApproval(q)
  \/ \E q \in Clients, j \in Jtis : CheckRefresh(q, j)
  \/ \E j \in Jtis : Logout(j)
  \/ \E s \in Sids : SessionExpires(s) \/ RevokeOthers(s) \/ RevokeBatch(s)
  \/ \E d \in Devices : RevokeSession(d)
  \/ RevokeAllRefresh \/ RevocationDone \/ SetupTotp \/ DisableTotp \/ CliSession

SessionSpec == SessionInit /\ [][SessionNext]_sessionVars

-----------------------------------------------------------------------------
\* "A concurrent revocation must never recreate a session" (tokens.ts:49): one
\* that was signed out, revoked or has expired is never active again, whatever
\* refresh of it was under way.
RevokedStaysRevoked ==
  [][\A s \in Sids : session[s].state = "gone" => session'[s].state = "gone"]_sessionVars

\* A refresh token is used once: however many requests bring it, a session has
\* one token that is good, or one request that is about to get one.
OneRefreshPerSession ==
  \A s \in Sids :
    Cardinality({j \in refresh : sidOf[j] = s})
      + Cardinality({q \in Clients : inflight[q].at = "consumed" /\ sidOf[inflight[q].jti] = s}) <= 1

\* An existing second factor cannot be replaced, only disabled, however many
\* setups and confirmations overlap.
FactorNotReplaced == [][factor # None => factor' \in {None, factor}]_sessionVars
=============================================================================
