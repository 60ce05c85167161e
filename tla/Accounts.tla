------------------------------ MODULE Accounts ------------------------------
(***************************************************************************)
(* Tokens sent by mail (auth/email-tokens.ts) and the closing of accounts  *)
(* (auth/account-deletion.ts, janitor.ts), with the routes of              *)
(* api/auth.routes.ts that use them.  The accounts share one org, of which *)
(* some of them are owners.                                                *)
(* Abstracted: passwords, addresses and mails, and the limits on sending.  *)
(***************************************************************************)
EXTENDS Naturals, FiniteSets

CONSTANTS People, Nobody,
          Servers,      \* requests that redeem tokens, at one time
          MaxMails      \* bound: tokens issued

ASSUME NobodyAssumption == Nobody \notin People
ASSUME MailBound == MaxMails \in Nat

Mails    == 1..MaxMails
Purposes == {"password_reset", "email_verify", "account_delete"}
NoMail   == 0

VARIABLES account,    \* of each user: whether it is verified, asked for, or due
          owners,     \* org_members with role owner
          org,        \* whether the org exists
          mail,       \* auth_tokens
          redeeming,  \* of each request: where consumeEmailToken stands
          dueList,    \* runDueDeletions: users it found due and has not come to
          verdict,    \* of the user it is at: whether the org goes too
          redeemed, burned,   \* history: redemptions, tokens invalidated by one
          meant, overlooked   \* history: deletions confirmed and not called off,
                              \* those called off after the janitor had looked

accountVars == <<account, owners, org, mail, redeeming, dueList, verdict,
                 redeemed, burned, meant, overlooked>>

NoToken   == [user |-> Nobody, purpose |-> "password_reset", state |-> "none"]
NoVerdict == [user |-> Nobody, doomed |-> FALSE]

AccountTypeOK ==
  /\ account \in [People -> [exists : BOOLEAN, verified : BOOLEAN, asked : BOOLEAN,
                             closing : {"no", "grace", "due"}]]
  /\ owners \subseteq People /\ org \in BOOLEAN
  /\ mail \in [Mails -> [user : People \cup {Nobody}, purpose : Purposes,
                         state : {"none", "live", "used", "expired"}]]
  /\ redeeming \in [Servers -> [at : {"idle", "found", "marked", "redeemed"},
                                mail : Mails \cup {NoMail}]]
  /\ dueList \subseteq People
  /\ verdict \in [user : People \cup {Nobody}, doomed : BOOLEAN]
  /\ redeemed \in [Mails -> 0..2] /\ burned \subseteq Mails
  /\ meant \subseteq People /\ overlooked \subseteq People

AccountInit ==
  /\ account = [u \in People |-> [exists |-> TRUE, verified |-> FALSE, asked |-> FALSE,
                                  closing |-> "no"]]
  /\ owners \in (SUBSET People) \ {{}} /\ org = TRUE
  /\ mail = [m \in Mails |-> NoToken]
  /\ redeeming = [q \in Servers |-> [at |-> "idle", mail |-> NoMail]]
  /\ dueList = {} /\ verdict = NoVerdict
  /\ redeemed = [m \in Mails |-> 0] /\ burned = {} /\ meant = {} /\ overlooked = {}

janitor == <<dueList, verdict>>
history == <<redeemed, burned, meant, overlooked>>

-----------------------------------------------------------------------------
(* Tokens.  consumeEmailToken reads the row, marks it used, then every other *)
(* of the same user and purpose; the route acts on it after that.           *)

IssueEmailToken(u, purpose) ==
  \E m \in Mails :
    /\ mail[m].state = "none" /\ \A k \in Mails : k < m => mail[k].state # "none"
    /\ mail' = [mail EXCEPT ![m] = [user |-> u, purpose |-> purpose, state |-> "live"]]

\* /auth/forgot, /auth/resend-verification
SendLink(u, purpose) ==
  /\ account[u].exists
  /\ purpose = "password_reset" \/ (purpose = "email_verify" /\ ~account[u].verified)
  /\ IssueEmailToken(u, purpose)
  /\ UNCHANGED <<account, owners, org, redeeming, janitor, history>>

TokenExpires(m) ==
  /\ mail[m].state = "live"
  /\ mail' = [mail EXCEPT ![m].state = "expired"]
  /\ UNCHANGED <<account, owners, org, redeeming, janitor, history>>

FindToken(q, m) ==
  /\ redeeming[q].at = "idle" /\ mail[m].state = "live"
  /\ redeeming' = [redeeming EXCEPT ![q] = [at |-> "found", mail |-> m]]
  /\ UNCHANGED <<account, owners, org, mail, janitor, history>>

\* The update's own condition, isNull(usedAt).
Unused(m) == mail[m].state \in {"live", "expired"}

MarkUsed(q) ==
  LET m == redeeming[q].mail
  IN /\ redeeming[q].at = "found"
     /\ IF Unused(m)
        THEN /\ mail' = [mail EXCEPT ![m].state = "used"]
             /\ redeeming' = [redeeming EXCEPT ![q].at = "marked"]
             /\ redeemed' = [redeemed EXCEPT ![m] = IF @ < 2 THEN @ + 1 ELSE @]
        ELSE /\ redeeming' = [redeeming EXCEPT ![q] = [at |-> "idle", mail |-> NoMail]]
             /\ UNCHANGED <<mail, redeemed>>
     /\ UNCHANGED <<account, owners, org, janitor, burned, meant, overlooked>>

Siblings(m) == {k \in Mails : /\ mail[k].state # "none"
                              /\ mail[k].user = mail[m].user /\ mail[k].purpose = mail[m].purpose}

BurnSiblings(q) ==
  LET m == redeeming[q].mail
  IN /\ redeeming[q].at = "marked"
     /\ mail' = [k \in Mails |-> IF k \in Siblings(m) THEN [mail[k] EXCEPT !.state = "used"]
                                 ELSE mail[k]]
     /\ burned' = burned \cup Siblings(m)
     /\ redeeming' = [redeeming EXCEPT ![q].at = "redeemed"]
     /\ UNCHANGED <<account, owners, org, janitor, redeemed, meant, overlooked>>

\* /auth/reset, /auth/verify, /account/deletion/confirm
ActOnToken(q) ==
  LET m == redeeming[q].mail
      u == mail[m].user
  IN /\ redeeming[q].at = "redeemed"
     /\ redeeming' = [redeeming EXCEPT ![q] = [at |-> "idle", mail |-> NoMail]]
     /\ account' = CASE ~account[u].exists -> account
                     [] mail[m].purpose = "email_verify" -> [account EXCEPT ![u].verified = TRUE]
                     [] mail[m].purpose = "account_delete" -> [account EXCEPT ![u].closing = "grace"]
                     [] OTHER -> account
     /\ meant' = IF mail[m].purpose = "account_delete" THEN meant \cup {u} ELSE meant
     /\ overlooked' = IF mail[m].purpose = "account_delete" THEN overlooked \ {u} ELSE overlooked
     /\ UNCHANGED <<owners, org, mail, janitor, redeemed, burned>>

-----------------------------------------------------------------------------
(* Closing an account. *)

AskForDeletion(u) ==
  /\ account[u].exists
  /\ account' = [account EXCEPT ![u].asked = TRUE]
  /\ IssueEmailToken(u, "account_delete")
  /\ UNCHANGED <<owners, org, redeeming, janitor, history>>

\* Mutation of Cancelled: the date stays.
CancelledInPart(a) == [a EXCEPT !.asked = FALSE]

Cancelled(a) == [a EXCEPT !.asked = FALSE, !.closing = "no"]

CancelDeletion(u) ==
  /\ account[u].exists /\ account[u].closing # "no"
  /\ account' = [account EXCEPT ![u] = Cancelled(@)]
  /\ meant' = meant \ {u}
  /\ overlooked' = IF u \in dueList \/ verdict.user = u THEN overlooked \cup {u} ELSE overlooked
  /\ UNCHANGED <<owners, org, mail, redeeming, janitor, redeemed, burned>>

GracePasses(u) ==
  /\ account[u].exists /\ account[u].closing = "grace"
  /\ account' = [account EXCEPT ![u].closing = "due"]
  /\ UNCHANGED <<owners, org, mail, redeeming, janitor, history>>

\* runDueDeletions: who is due, then one after the other what goes with them,
\* and the deletion.
FindDue ==
  /\ dueList = {} /\ verdict = NoVerdict
  /\ dueList' = {u \in People : account[u].exists /\ account[u].closing = "due"}
  /\ dueList' # {}
  /\ UNCHANGED <<account, owners, org, mail, redeeming, verdict, history>>

\* Mutation of SoleOwner: the owner is counted among the others.
SoleOwnerOfNone(u) == u \in owners /\ owners = {}

SoleOwner(u) == u \in owners /\ owners \ {u} = {}

DeletionImpact(u) ==
  /\ verdict = NoVerdict /\ u \in dueList
  /\ dueList' = dueList \ {u}
  /\ verdict' = [user |-> u, doomed |-> SoleOwner(u)]
  /\ UNCHANGED <<account, owners, org, mail, redeeming, history>>

\* The transaction; the memberships and the tokens of the user go with it.
DeleteAccount ==
  LET u == verdict.user
  IN /\ verdict # NoVerdict
     /\ account' = [account EXCEPT ![u].exists = FALSE, ![u].closing = "no"]
     /\ org' = IF verdict.doomed THEN FALSE ELSE org
     /\ owners' = IF verdict.doomed THEN {} ELSE owners \ {u}
     /\ mail' = [m \in Mails |-> IF mail[m].user = u THEN [mail[m] EXCEPT !.state = "used"] ELSE mail[m]]
     /\ verdict' = NoVerdict
     /\ UNCHANGED <<redeeming, dueList, history>>

-----------------------------------------------------------------------------
AccountNext ==
  \/ \E u \in People : \/ AskForDeletion(u) \/ CancelDeletion(u) \/ GracePasses(u)
                       \/ DeletionImpact(u)
                       \/ \E p \in Purposes : SendLink(u, p)
  \/ \E m \in Mails : TokenExpires(m)
  \/ \E q \in Servers : \/ MarkUsed(q) \/ BurnSiblings(q) \/ ActOnToken(q)
                        \/ \E m \in Mails : FindToken(q, m)
  \/ FindDue \/ DeleteAccount

AccountSpec == AccountInit /\ [][AccountNext]_accountVars

-----------------------------------------------------------------------------
\* A link is redeemed once, whatever requests bring it at the same time, and not
\* once the second update of a redemption has invalidated it.  Between the two
\* updates of one request another may still redeem a second link of the kind.
LinksUsedOnce ==
  [][\A m \in Mails : redeemed'[m] > redeemed[m] => redeemed[m] = 0 /\ m \notin burned]_accountVars

\* An account goes only if its closing was confirmed and not called off; except
\* where it was called off after the janitor had found it due.
DeletedOnlyIfMeant ==
  [][\A u \in People : account[u].exists /\ ~account'[u].exists =>
       u \in meant \/ u \in overlooked]_accountVars

\* Whoever closes an account, the org goes with its last owner and not before.
OrgHasOwner == org <=> owners # {}
=============================================================================
