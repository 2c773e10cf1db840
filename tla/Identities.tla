----------------------------- MODULE Identities -----------------------------
(***************************************************************************)
(* The accounts application: GitHub and ORCID identities in two tables.    *)
(* SocialAccount is allauth's private record, by which people sign in;     *)
(* ExternalIdentity is the public projection shown on credits.  Requests   *)
(* are not atomic (ATOMIC_REQUESTS is off): allauth writes its table, and  *)
(* the receivers of accounts/signals.py write the other one afterwards.    *)
(* Only save_user, sync_external_identity and unlink_external_identity are *)
(* transactions.  The last two lock the account and the rows they find; a  *)
(* row that is not there yet cannot be locked, so a first sync checks and  *)
(* writes in two steps (SyncCheck, SyncWrite; SignUp, Join).               *)
(*                                                                         *)
(* Any request may die or fail between its steps (Abandon), which is also  *)
(* what a refusal by an email address owned by another account does.       *)
(* Abstracted: display names, tokens, time of the last authentication; a   *)
(* row deleted and made again by another request is the same row.          *)
(***************************************************************************)
EXTENDS FiniteSets

CONSTANTS
  Accounts,    \* the accounts that may be created
  Identities,  \* provider subjects
  ProviderOf,  \* the provider of each
  Requests,    \* bound: the requests under way at once
  Nobody       \* owner of an identity without a row; null

ASSUME IdentitiesAssumption == Nobody \notin Accounts \cup Identities

VARIABLES
  accounts,    \* the rows of Account
  social,      \* user of each SocialAccount row
  external,    \* account of each ExternalIdentity row
  request      \* the next step of each request, its account and its identity

identityVars == <<accounts, social, external, request>>

Steps == {"idle", "login", "signup", "joining", "connect", "sync", "update", "create",
          "disconnect", "removed"}
Request(step, a, i) == [step |-> step, account |-> a, identity |-> i]
Idle == Request("idle", Nobody, Nobody)

Owned(table, a) == {i \in Identities : table[i] = a}
Another(table, a, i) == Owned(table, a) \ {i} # {}

\* The transactions under way: on identity i, in one of these steps.
Within(steps, i) == {t \in Requests : request[t].step \in steps /\ request[t].identity = i}

\* The locks held: of a projection by the sync that found it, of an account by
\* its sync.
RowLocked(i) == Within({"update"}, i) # {}
AccountLocked(a) ==
  \E t \in Requests : request[t].step \in {"update", "create"} /\ request[t].account = a

Become(t, step, a, i) == request' = [request EXCEPT ![t] = Request(step, a, i)]
End(t) == request' = [request EXCEPT ![t] = Idle]

\* The unique (account, provider): a different subject of the same provider.
OtherSubject(a, i) ==
  \E j \in Identities \ {i} : external[j] = a /\ ProviderOf[j] = ProviderOf[i]

\* assert_social_login_does_not_merge, for the account a sign-in is meant for.
DoesNotMerge(a, i) ==
  /\ external[i] # Nobody => a # Nobody /\ external[i] = a
  /\ a # Nobody => ~OtherSubject(a, i)
-----------------------------------------------------------------------------
\* A provider calls back: an identity that has a row signs in, a new one signs
\* up.  All of this is read without locks.
LoginCallback(t, i) ==
  /\ request[t].step = "idle"
  /\ DoesNotMerge(social[i], i)
  /\ Become(t, IF social[i] = Nobody THEN "signup" ELSE "login", social[i], i)
  /\ UNCHANGED <<accounts, social, external>>

\* Somebody signed in comes back from a provider to connect one more identity.
ConnectCallback(t, a, i) ==
  /\ request[t].step = "idle"
  /\ a \in accounts
  /\ social[i] = Nobody
  /\ DoesNotMerge(a, i)
  /\ Become(t, "connect", a, i)
  /\ UNCHANGED <<accounts, social, external>>

\* save_user begins its transaction: it inserts account and SocialAccount, which
\* others do not see but wait for, and finds no projection to lock.
SignUp(t, a) ==
  LET i == request[t].identity IN
  /\ request[t].step = "signup"
  /\ a \notin accounts /\ \A u \in Requests : request[u].account # a
  /\ social[i] = Nobody /\ Within({"joining"}, i) = {}
  /\ external[i] = Nobody
  /\ Become(t, "joining", a, i)
  /\ UNCHANGED <<accounts, social, external>>

\* update_or_create and commit: a projection that was made meanwhile is waited
\* for and handed over, whoever it belongs to.
Join(t) ==
  LET i == request[t].identity
      a == request[t].account
  IN  /\ request[t].step = "joining"
      /\ social[i] = Nobody
      /\ ~RowLocked(i)
      /\ accounts' = accounts \cup {a}
      /\ social' = [social EXCEPT ![i] = a]
      /\ external' = [external EXCEPT ![i] = a]
      /\ Become(t, "login", a, i)

\* allauth inserts the SocialAccount, after the transactions that insert it or
\* lock its account; its receiver has still to run.
InsertSocial(t) ==
  LET i == request[t].identity
      a == request[t].account
  IN  /\ request[t].step = "connect"
      /\ ~AccountLocked(a) /\ Within({"joining"}, i) = {}
      /\ social[i] = Nobody
      /\ social' = [social EXCEPT ![i] = a]
      /\ Become(t, "sync", a, i)
      /\ UNCHANGED <<accounts, external>>

\* authentication_step_completed: the receiver looks the row up, without lock.
Authenticated(t) ==
  LET i == request[t].identity
      a == request[t].account
  IN  /\ request[t].step = "login"
      /\ IF social[i] = a THEN Become(t, "sync", a, i) ELSE End(t)
      /\ UNCHANGED <<accounts, social, external>>

\* Mutant of SyncCheck: the account of the projection found is not compared.
SyncCheckUnowned(t) ==
  LET i == request[t].identity
      a == request[t].account
  IN  /\ request[t].step = "sync"
      /\ ~AccountLocked(a)
      /\ ~OtherSubject(a, i)
      /\ Become(t, IF external[i] = Nobody THEN "create" ELSE "update", a, i)
      /\ UNCHANGED <<accounts, social, external>>

\* sync_external_identity locks the account and the projection, if there is one;
\* it raises (Abandon) if the identity or the provider is taken, and does not
\* ask whether the SocialAccount is still there.
SyncCheck(t) ==
  LET i == request[t].identity
      a == request[t].account
  IN  /\ request[t].step = "sync"
      /\ ~AccountLocked(a)
      /\ external[i] \in {Nobody, a}
      /\ ~OtherSubject(a, i)
      /\ Become(t, IF external[i] = Nobody THEN "create" ELSE "update", a, i)
      /\ UNCHANGED <<accounts, social, external>>

\* update_or_create and commit.  Where the check found nothing, a projection made
\* meanwhile is waited for and handed over, whoever it belongs to.
SyncWrite(t) ==
  LET i == request[t].identity
      a == request[t].account
  IN  /\ request[t].step \in {"update", "create"}
      /\ Within({"update"}, i) \subseteq {t}
      /\ ~OtherSubject(a, i)
      /\ external' = [external EXCEPT ![i] = a]
      /\ End(t)
      /\ UNCHANGED <<accounts, social>>

\* Mutant of Unlink: any other projection counts as a way to sign in.
UnlinkByProjection(a, i) ==
  /\ ~AccountLocked(a)
  /\ external[i] = a
  /\ Another(external, a, i)
  /\ social[i] \in {Nobody, a}
  /\ external' = [external EXCEPT ![i] = Nobody]
  /\ social' = [social EXCEPT ![i] = Nobody]
  /\ UNCHANGED <<accounts, request>>

\* unlink_external_identity, one step: it locks the account and every row it
\* counts on.
Unlink(a, i) ==
  /\ ~AccountLocked(a)
  /\ external[i] = a
  /\ Another(external, a, i)
  /\ social[i] \in {Nobody, a}
  /\ social[i] = a => Another(social, a, i)
  /\ external' = [external EXCEPT ![i] = Nobody]
  /\ social' = [social EXCEPT ![i] = Nobody]
  /\ UNCHANGED <<accounts, request>>

\* The form of allauth's connections page is valid: the account has another row
\* in both tables (validate_disconnect).  Nothing is locked.
DisconnectForm(t, a, i) ==
  /\ request[t].step = "idle"
  /\ a \in accounts
  /\ social[i] = a
  /\ Another(social, a, i)
  /\ Another(external, a, i)
  /\ Become(t, "disconnect", a, i)
  /\ UNCHANGED <<accounts, social, external>>

\* allauth deletes the row, if it is still there.
DeleteSocial(t) ==
  LET i == request[t].identity
      a == request[t].account
  IN  /\ request[t].step = "disconnect"
      /\ social' = [social EXCEPT ![i] = IF @ = a THEN Nobody ELSE @]
      /\ Become(t, "removed", a, i)
      /\ UNCHANGED <<accounts, external>>

\* social_account_removed: the receiver deletes the projection.
RemoveExternal(t) ==
  LET i == request[t].identity
      a == request[t].account
  IN  /\ request[t].step = "removed"
      /\ external[i] = a => ~RowLocked(i)
      /\ external' = [external EXCEPT ![i] = IF @ = a THEN Nobody ELSE @]
      /\ End(t)
      /\ UNCHANGED <<accounts, social>>

\* A request dies, or is refused by a check or a constraint.
Abandon(t) ==
  /\ request[t].step # "idle"
  /\ End(t)
  /\ UNCHANGED <<accounts, social, external>>

IdentitiesInit ==
  /\ accounts = {}
  /\ social = [i \in Identities |-> Nobody]
  /\ external = [i \in Identities |-> Nobody]
  /\ request = [t \in Requests |-> Idle]

IdentitiesNext ==
  \/ \E t \in Requests :
       \/ Authenticated(t) \/ InsertSocial(t) \/ SyncCheck(t)
       \/ SyncWrite(t) \/ Join(t) \/ DeleteSocial(t) \/ RemoveExternal(t) \/ Abandon(t)
       \/ \E a \in Accounts : SignUp(t, a)
       \/ \E i \in Identities : LoginCallback(t, i)
       \/ \E a \in Accounts, i \in Identities :
            ConnectCallback(t, a, i) \/ DisconnectForm(t, a, i)
  \/ \E a \in Accounts, i \in Identities : Unlink(a, i)

IdentitiesSpec == IdentitiesInit /\ [][IdentitiesNext]_identityVars
-----------------------------------------------------------------------------
(* Type correctness; the rows of both tables belong to stored accounts,    *)
(* and only a sign-up that has not committed works for another one, which  *)
(* no other request does.                                                  *)
IdentitiesTypeOK ==
  /\ accounts \subseteq Accounts
  /\ social \in [Identities -> accounts \cup {Nobody}]
  /\ external \in [Identities -> accounts \cup {Nobody}]
  /\ request \in [Requests -> [step : Steps, account : Accounts \cup {Nobody},
                               identity : Identities \cup {Nobody}]]
  /\ \A t \in Requests :
       /\ request[t].identity = Nobody <=> request[t].step = "idle"
       /\ request[t].account = Nobody <=> request[t].step \in {"idle", "signup"}
       /\ request[t].account \in accounts
            <=> request[t].step \notin {"idle", "signup", "joining"}
  /\ \A t, u \in Requests :
       request[t].step = "joining" /\ request[t].account = request[u].account => t = u

\* "Account merging is not automatic": however sign-ins, connections and
\* removals overlap, allauth's table never hands an identity from one account
\* directly to another one; the projection does so to one account only, that of
\* a first sync which looked before the projection was there.
IdentitiesKeepOwner ==
  [][\A i \in Identities :
       /\ social[i] # Nobody => social'[i] \in {social[i], Nobody}
       /\ external[i] # Nobody =>
            external'[i] \in {external[i], Nobody}
                             \cup {request[t].account : t \in Within({"create", "joining"}, i)}
    ]_identityVars

\* A projection that a sync has found stays its account's until that sync ends:
\* no removal, and no sync of another account, comes between check and write.
FoundStaysOwned ==
  \A t \in Requests :
    request[t].step = "update" => external[request[t].identity] = request[t].account

\* An account shows one identity of each provider at most, although two of them
\* may be connected at the same time.
OneSubjectPerProvider ==
  \A i, j \in Identities :
    external[i] # Nobody /\ external[i] = external[j] /\ ProviderOf[i] = ProviderOf[j]
      => i = j

\* The page of the application never takes the last way to sign in away: an
\* account loses its last SocialAccount at a disconnect of allauth only.
LossIsDisconnect(a) ==
  Owned(social, a) # {} /\ Owned(social', a) = {} =>
    \E t \in Requests : /\ request[t].step = "disconnect" /\ request[t].account = a
                        /\ request'[t].step = "removed"
UnlinkKeepsSignIn == [][\A a \in accounts : LossIsDisconnect(a)]_identityVars

=============================================================================
