------------------------------ MODULE Accounts ------------------------------
(***************************************************************************)
(* Registration and e-mail verification in internal/auth: the account with *)
(* its profile, preferences, first session, link and mail in one           *)
(* transaction, the unique index on lower(email), and the links, which a   *)
(* resend retires and replaces and a verification claims.                  *)
(*                                                                         *)
(* Transactions are READ COMMITTED: what one has written the others see    *)
(* when it commits, and a row it has locked makes them wait.               *)
(***************************************************************************)
EXTENDS Naturals, FiniteSets

CONSTANTS Emails,        \* normalised addresses
          AccountIds, LinkIds,
          NoAccount,
          AccountCalls   \* requests at once

ASSUME AccountsAssumption ==
  AccountIds \subseteq Nat /\ LinkIds \subseteq Nat /\ NoAccount \notin AccountIds

VARIABLES accounts,   \* accounts[a]: its address, or {} when there is none
          verified,   \* the accounts whose email_verified_at is set
          links,      \* links[t]: whose link it is, and whether it is open, or
                      \* what its used_at comes from
          accountCalls,
          overlapped  \* history: accounts for which two resends overlapped

accountVars == <<accounts, verified, links, accountCalls, overlapped>>

NoLink == [owner |-> NoAccount, state |-> "none"]

\* account: the one a call is for; email: the address being registered; locked:
\* the links its transaction has written.
IdleAccountCall == [step |-> "idle", account |-> NoAccount, email |-> {}, locked |-> {}]
AccountCallStates ==
  [step: {"idle", "registering", "resend", "issue", "claimed"},
   account: AccountIds \cup {NoAccount}, email: SUBSET Emails, locked: SUBSET LinkIds]

AccountsTypeOK ==
  /\ accounts \in [AccountIds -> SUBSET Emails]
  /\ verified \subseteq AccountIds
  /\ links \in [LinkIds -> [owner: AccountIds \cup {NoAccount},
                            state: {"none", "open", "claimed", "retired", "expired"}]]
  /\ accountCalls \in [AccountCalls -> AccountCallStates]
  /\ overlapped \subseteq AccountIds

AccountsInit ==
  /\ accounts = [a \in AccountIds |-> {}]
  /\ verified = {}
  /\ links = [t \in LinkIds |-> NoLink]
  /\ accountCalls = [c \in AccountCalls |-> IdleAccountCall]
  /\ overlapped = {}

AccountCallAt(c, step) == accountCalls[c].step = step
AccountCallBecomes(c, call) == accountCalls' = [accountCalls EXCEPT ![c] = call]

OpenLinks(a) == {t \in LinkIds : links[t].owner = a /\ links[t].state = "open"}
LockedLinks == UNION {accountCalls[c].locked : c \in AccountCalls}

\* A link's hash is random, a row's id too: the next of each that is free.
IssueLink(a, retired) ==
  \E t \in LinkIds :
    /\ links[t] = NoLink /\ \A u \in LinkIds : links[u] = NoLink => t <= u
    /\ links' = [u \in LinkIds |->
                   IF u = t THEN [owner |-> a, state |-> "open"]
                   ELSE IF u \in retired THEN [links[u] EXCEPT !.state = "retired"]
                   ELSE links[u]]

-----------------------------------------------------------------------------
\* Fault: the address is looked up, and an insert under way is not waited for.
EmailIsFreeNow(email) == \A a \in AccountIds : email \notin accounts[a]

\* The unique index: a committed address is a conflict, one under way is waited
\* for.
EmailIsFree(email) ==
  /\ \A a \in AccountIds : email \notin accounts[a]
  /\ \A c \in AccountCalls : email \notin accountCalls[c].email

\* Register: the user row, and under it the profile, the preferences, the session ...
InsertAccount(c, email) ==
  /\ AccountCallAt(c, "idle") /\ EmailIsFree(email)
  /\ AccountCallBecomes(c, [IdleAccountCall EXCEPT !.step = "registering", !.email = {email}])
  /\ UNCHANGED <<accounts, verified, links, overlapped>>

\* ... the first link and its mail, all committed together.
CommitAccount(c) ==
  /\ AccountCallAt(c, "registering")
  /\ \E a \in AccountIds :
       /\ accounts[a] = {} /\ \A b \in AccountIds : accounts[b] = {} => a <= b
       /\ accounts' = [accounts EXCEPT ![a] = accountCalls[c].email]
       /\ IssueLink(a, {})
  /\ AccountCallBecomes(c, IdleAccountCall)
  /\ UNCHANGED <<verified, overlapped>>

-----------------------------------------------------------------------------
\* ResendEmailVerification: nothing for an account that is verified ...
AskForLink(c, a) ==
  /\ AccountCallAt(c, "idle") /\ accounts[a] # {} /\ a \notin verified
  /\ AccountCallBecomes(c, [IdleAccountCall EXCEPT !.step = "resend", !.account = a])
  /\ UNCHANGED <<accounts, verified, links, overlapped>>

\* ... InvalidateEmailVerificationTokens: the open links it can see, once no
\* other transaction is writing one of them ...
RetireLinks(c) ==
  /\ AccountCallAt(c, "resend")
  /\ LET a == accountCalls[c].account
     IN  /\ OpenLinks(a) \cap LockedLinks = {}
         /\ AccountCallBecomes(c, [accountCalls[c] EXCEPT !.step = "issue",
                                                          !.locked = OpenLinks(a)])
         /\ overlapped' = IF \E d \in AccountCalls :
                               AccountCallAt(d, "issue") /\ accountCalls[d].account = a
                          THEN overlapped \cup {a} ELSE overlapped
  /\ UNCHANGED <<accounts, verified, links>>

\* ... and the new link with its mail.
CommitLink(c) ==
  /\ AccountCallAt(c, "issue")
  /\ IssueLink(accountCalls[c].account, accountCalls[c].locked)
  /\ AccountCallBecomes(c, IdleAccountCall)
  /\ UNCHANGED <<accounts, verified, overlapped>>

-----------------------------------------------------------------------------
\* Fault: the claim reads the link without locking it.
Claimable(t) == links[t].state = "open"

\* ClaimEmailVerificationToken: FOR UPDATE, so a link being claimed or retired is
\* waited for and looked at again.
MayClaim(t) == links[t].state = "open" /\ t \notin LockedLinks

ClaimLink(c, t) ==
  /\ AccountCallAt(c, "idle") /\ MayClaim(t)
  /\ AccountCallBecomes(c, [IdleAccountCall EXCEPT
       !.step = "claimed", !.account = links[t].owner, !.locked = {t}])
  /\ UNCHANGED <<accounts, verified, links, overlapped>>

\* MarkEmailVerified, and the commit of both.
CommitClaim(c) ==
  /\ AccountCallAt(c, "claimed")
  /\ verified' = verified \cup {accountCalls[c].account}
  /\ links' = [t \in LinkIds |->
                 IF t \in accountCalls[c].locked THEN [links[t] EXCEPT !.state = "claimed"]
                 ELSE links[t]]
  /\ AccountCallBecomes(c, IdleAccountCall)
  /\ UNCHANGED <<accounts, overlapped>>

\* A statement fails or the process ends: nothing of the transaction remains.
AccountCallFails(c) ==
  /\ ~AccountCallAt(c, "idle")
  /\ AccountCallBecomes(c, IdleAccountCall)
  /\ UNCHANGED <<accounts, verified, links, overlapped>>

LinkExpires(t) ==
  /\ MayClaim(t)
  /\ links' = [links EXCEPT ![t].state = "expired"]
  /\ UNCHANGED <<accounts, verified, accountCalls, overlapped>>

AccountsNext ==
  \/ \E c \in AccountCalls :
       \/ \E email \in Emails : InsertAccount(c, email)
       \/ CommitAccount(c)
       \/ \E a \in AccountIds : AskForLink(c, a)
       \/ RetireLinks(c) \/ CommitLink(c)
       \/ \E t \in LinkIds : ClaimLink(c, t)
       \/ CommitClaim(c) \/ AccountCallFails(c)
  \/ \E t \in LinkIds : LinkExpires(t)

AccountsSpec == AccountsInit /\ [][AccountsNext]_accountVars

-----------------------------------------------------------------------------
\* An address has one account, however registrations race.  An account is
\* verified only by a link of its own that no resend had retired; a link is never
\* retired and claimed at once.  An account has one open link at most, unless two
\* resends overlapped, neither seeing the other's new link.
AccountsAreSound ==
  /\ \A a, b \in AccountIds : a # b => accounts[a] \cap accounts[b] = {}
  /\ \A a \in verified : \E t \in LinkIds : links[t] = [owner |-> a, state |-> "claimed"]
  /\ \A c, d \in AccountCalls :
       c # d => accountCalls[c].locked \cap accountCalls[d].locked = {}
  /\ \A a \in AccountIds \ overlapped : Cardinality(OpenLinks(a)) <= 1
=============================================================================
