---------------------------- MODULE Integrations ----------------------------
(***************************************************************************)
(* Users who connect their Google or Outlook account, the access tokens    *)
(* the server keeps for them, and what is configured on top: synced        *)
(* calendars and external busy calendars of hosts (user/oauth_integration, *)
(* user/remove_integration, account/*_integration, calendar/*_sync_calendar,*)
(* service/*_busy_calendar, infra/services/*/auth_provider).               *)
(* The providers are external: a code or a refresh token is exchanged for  *)
(* an access token that is valid for Life from the moment the provider     *)
(* issues it.                                                              *)
(***************************************************************************)
EXTENDS Requests

CONSTANTS Life,     \* how long an access token is valid
          Margin,   \* what must be left of it when it is used, a minute
          Latency   \* how long a provider takes to answer at most

ASSUME LatencyAssumption ==
    Life \in Nat /\ Margin \in Nat /\ Latency \in Nat /\ Latency < Margin /\ Latency < Life

Issued(g) == [grant |-> g, until |-> now + Life]

IntegrationsUnchanged == UNCHANGED <<bounds, now, ghostVars>>

(* What a request keeps of a token it was handed: the token and when *)
Handed(token) == [token |-> token, at |-> now]

Connected(k, token) ==
    calls' = [calls EXCEPT ![k].at = "connected", ![k].grant = Handed(token),
                           ![k].asked = None]

----------------------------------------------------------------------------
(* get_access_token: the stored token while it is valid for another minute,*)
(* a renewed one otherwise.  The row is saved whole; a save that fails is  *)
(* logged and the token used all the same.  `withoutProvider` is what the   *)
(* use case does when there is no token to be had.                         *)

\* Mutant of StillValid: a token is used up to the moment it expires.
ValidUntilNow(row) == now <= row.expires
StillValid(row) == now + Margin <= row.expires
Renewed(row) == [row EXCEPT !.expires = now + Life]

FindToken(k, withoutProvider) ==
    LET q == calls[k]
        row == db.grants[<<q.user, q.provider>>]
    IN  /\ q.at = "token"
        /\ IF row = None THEN withoutProvider
           ELSE IF StillValid(row) THEN Connected(k, row.access)
           ELSE calls' = [calls EXCEPT ![k].at = "client", ![k].grant = row]
        /\ UNCHANGED db /\ IntegrationsUnchanged

FindClient(k, withoutProvider) ==
    LET q == calls[k]
    IN  /\ q.at = "client"
        /\ IF <<q.account, q.provider>> \in db.integrations
           THEN Goto(k, "renew") ELSE withoutProvider
        /\ UNCHANGED db /\ IntegrationsUnchanged

RenewToken(k, withoutProvider) ==
    LET q == calls[k]
    IN  /\ q.at = "renew"
        /\ \/ /\ calls' = [calls EXCEPT ![k].at = "store", ![k].asked = now,
                                         ![k].grant.access = Issued(q.grant.refresh)]
              /\ UNCHANGED failures
           \/ /\ MayFail /\ failures' = failures + 1
              /\ withoutProvider
        /\ UNCHANGED <<db, scenario, made, now, ghostVars>>

StoreToken(k) ==
    LET q == calls[k]
    IN  /\ q.at = "store"
        /\ Connected(k, q.grant.access)
        /\ \/ /\ db' = GrantSaved(db, q.user, q.provider, Renewed(q.grant))
              /\ UNCHANGED failures
           \/ MayFail /\ failures' = failures + 1 /\ UNCHANGED db
        /\ UNCHANGED <<scenario, made, now, ghostVars>>

GetAccessToken(k, withoutProvider) ==
    \/ FindToken(k, withoutProvider) \/ FindClient(k, withoutProvider)
    \/ RenewToken(k, withoutProvider) \/ StoreToken(k)

NeedsToken(k, ops) ==
    /\ calls[k] # None /\ calls[k].op \in ops
    /\ calls[k].at \in {"token", "client", "renew", "store"}

----------------------------------------------------------------------------
(* The integrations of an account.  Removing one removes those of its users *)

AddAccountIntegration(k) ==
    LET q == calls[k] IN
    \/ /\ At(k, "AddAccountIntegration", "find")
       /\ IF <<q.account, q.provider>> \in db.integrations THEN Answer(k) ELSE Goto(k, "insert")
       /\ UNCHANGED db /\ IntegrationsUnchanged
    \/ /\ At(k, "AddAccountIntegration", "insert")
       /\ Answer(k)
       /\ db' = IF IntegrationInsertAccepted(db, q.account, q.provider)
                THEN IntegrationInserted(db, q.account, q.provider) ELSE db
       /\ IntegrationsUnchanged

RemoveAccountIntegration(k) ==
    LET q == calls[k] IN
    \/ /\ At(k, "RemoveAccountIntegration", "find")
       /\ IF <<q.account, q.provider>> \in db.integrations THEN Goto(k, "delete") ELSE Answer(k)
       /\ UNCHANGED db /\ IntegrationsUnchanged
    \/ /\ At(k, "RemoveAccountIntegration", "delete")
       /\ Answer(k)
       /\ db' = IntegrationDeleted(db, q.account, q.provider)
       /\ IntegrationsUnchanged

(* A user brings the code of a new grant                                   *)
OAuthIntegration(k) ==
    LET q == calls[k] IN
    \/ /\ At(k, "OAuthIntegration", "find")
       /\ IF <<q.account, q.provider>> \in db.integrations THEN Goto(k, "none") ELSE Answer(k)
       /\ UNCHANGED db /\ IntegrationsUnchanged
    \/ /\ At(k, "OAuthIntegration", "none")
       /\ IF HasIntegration(db, q.user, q.provider) THEN Answer(k) ELSE Goto(k, "exchange")
       /\ UNCHANGED db /\ IntegrationsUnchanged
    \/ \E g \in Grant :
        /\ At(k, "OAuthIntegration", "exchange")
        /\ calls' = [calls EXCEPT ![k].at = "write", ![k].asked = now,
                                  ![k].grant = [account |-> q.account, access |-> Issued(g),
                                                refresh |-> g, expires |-> 0]]
        /\ UNCHANGED db /\ IntegrationsUnchanged
    \/ /\ At(k, "OAuthIntegration", "write")
       /\ Answer(k)
       /\ db' = IF GrantInsertAccepted(db, q.user, q.provider, q.grant)
                THEN GrantInserted(db, q.user, q.provider, Renewed(q.grant)) ELSE db
       /\ IntegrationsUnchanged

RemoveIntegration(k) ==
    LET q == calls[k] IN
    \/ /\ At(k, "RemoveIntegration", "find")
       /\ IF HasIntegration(db, q.user, q.provider) THEN Goto(k, "delete") ELSE Answer(k)
       /\ UNCHANGED db /\ IntegrationsUnchanged
    \/ /\ At(k, "RemoveIntegration", "delete")
       /\ Answer(k)
       /\ db' = GrantDeleted(db, q.user, q.provider)
       /\ IntegrationsUnchanged

----------------------------------------------------------------------------
(* What is built on an integration: each asks the provider for the user's  *)
(* calendars and goes on if the one named is among them                    *)

GetExternalCalendars(k) ==
    \/ /\ At(k, "GetExternalCalendars", "find")
       /\ Goto(k, "token") /\ UNCHANGED db /\ IntegrationsUnchanged
    \/ /\ At(k, "GetExternalCalendars", "connected")
       /\ Answer(k) /\ UNCHANGED db /\ IntegrationsUnchanged

SyncOf(q) == [calendar |-> q.calendar, user |-> q.user, provider |-> q.provider, ext |-> q.ext]

AddSyncCalendar(k) ==
    LET q == calls[k]
        same(s) == s.provider = q.provider /\ s.ext = q.ext
    IN
    \/ /\ At(k, "AddSyncCalendar", "find")
       /\ IF HasIntegration(db, q.user, q.provider) THEN Goto(k, "exists") ELSE Answer(k)
       /\ UNCHANGED db /\ IntegrationsUnchanged
    \/ /\ At(k, "AddSyncCalendar", "exists")
       /\ IF \E s \in SyncsOf(db, q.calendar) : same(s) THEN Answer(k) ELSE Goto(k, "token")
       /\ UNCHANGED db /\ IntegrationsUnchanged
    \/ /\ At(k, "AddSyncCalendar", "connected")
       /\ Goto(k, "insert") \/ Answer(k)
       /\ UNCHANGED db /\ IntegrationsUnchanged
    \/ /\ At(k, "AddSyncCalendar", "insert")
       /\ Answer(k)
       /\ db' = IF SyncInsertAccepted(db, SyncOf(q)) THEN SyncInserted(db, SyncOf(q)) ELSE db
       /\ IntegrationsUnchanged

(* The row removed is the one found, whoever connected it                  *)
RemoveSyncCalendar(k) ==
    LET q == calls[k] IN
    \/ /\ At(k, "RemoveSyncCalendar", "find")
       /\ LET found == {s \in SyncsOf(db, q.calendar) : s.provider = q.provider /\ s.ext = q.ext}
          IN  IF found = {} THEN Answer(k)
              ELSE \E s \in found : Proceed(k, "delete", s)
       /\ UNCHANGED db /\ IntegrationsUnchanged
    \/ /\ At(k, "RemoveSyncCalendar", "delete")
       /\ Answer(k)
       /\ db' = SyncDeleted(db, q.row)
       /\ IntegrationsUnchanged

ExtBusyOf(q) == [service |-> q.service, user |-> q.user, provider |-> q.provider, ext |-> q.ext]

AddExtBusyCalendar(k) ==
    LET q == calls[k] IN
    \/ /\ At(k, "AddExtBusyCalendar", "find")
       /\ IF UserInAccount(db, q.user, q.account) THEN Goto(k, "exists") ELSE Answer(k)
       /\ UNCHANGED db /\ IntegrationsUnchanged
    \/ /\ At(k, "AddExtBusyCalendar", "exists")
       /\ \/ /\ IF ExtBusyExists(db, ExtBusyOf(q)) THEN Answer(k) ELSE Goto(k, "token")
             /\ UNCHANGED failures
          \/ MayFail /\ failures' = failures + 1 /\ Goto(k, "token")
       /\ UNCHANGED <<db, scenario, made, now, ghostVars>>
    \/ /\ At(k, "AddExtBusyCalendar", "connected")
       /\ Goto(k, "insert") \/ Answer(k)
       /\ UNCHANGED db /\ IntegrationsUnchanged
    \/ /\ At(k, "AddExtBusyCalendar", "insert")
       /\ Answer(k)
       /\ db' = IF ExtBusyInsertAccepted(db, ExtBusyOf(q))
                THEN ExtBusyInserted(db, ExtBusyOf(q)) ELSE db
       /\ IntegrationsUnchanged

RemoveExtBusyCalendar(k) ==
    LET q == calls[k] IN
    \/ /\ At(k, "RemoveExtBusyCalendar", "find")
       /\ IF UserInAccount(db, q.user, q.account) THEN Goto(k, "exists") ELSE Answer(k)
       /\ UNCHANGED db /\ IntegrationsUnchanged
    \/ /\ At(k, "RemoveExtBusyCalendar", "exists")
       /\ IF ExtBusyExists(db, ExtBusyOf(q)) THEN Goto(k, "delete") ELSE Answer(k)
       /\ UNCHANGED db /\ IntegrationsUnchanged
    \/ /\ At(k, "RemoveExtBusyCalendar", "delete")
       /\ Answer(k)
       /\ db' = ExtBusyDeleted(db, ExtBusyOf(q))
       /\ IntegrationsUnchanged

IntegrationOps ==
    {"AddAccountIntegration", "RemoveAccountIntegration", "OAuthIntegration",
     "RemoveIntegration", "GetExternalCalendars", "AddSyncCalendar", "RemoveSyncCalendar",
     "AddExtBusyCalendar", "RemoveExtBusyCalendar"}

IntegrationsNext(k) ==
    /\ calls[k].op \in IntegrationOps
    /\ \/ /\ NeedsToken(k, {"GetExternalCalendars", "AddSyncCalendar", "AddExtBusyCalendar"})
          /\ GetAccessToken(k, Answer(k))
       \/ AddAccountIntegration(k) \/ RemoveAccountIntegration(k)
       \/ OAuthIntegration(k) \/ RemoveIntegration(k)
       \/ GetExternalCalendars(k) \/ AddSyncCalendar(k) \/ RemoveSyncCalendar(k)
       \/ AddExtBusyCalendar(k) \/ RemoveExtBusyCalendar(k)
=============================================================================
