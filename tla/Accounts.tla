------------------------------ MODULE Accounts ------------------------------
(***************************************************************************)
(* Accounts, and the cache each process of the server keeps of them by     *)
(* their key (infra/src/repos/account/postgres.rs).  A request that comes  *)
(* with the key of its account is handed the account from the cache, and   *)
(* the settings of an account are saved as the whole row it was handed     *)
(* (account/create_account, set_account_pub_key, set_account_webhook,      *)
(* delete_account_webhook, get_account).                                   *)
(***************************************************************************)
EXTENDS Requests

CONSTANTS TimeToLive,   \* of an entry of the cache
          Delay         \* between the read of a row and its entry in the cache

ASSUME CacheAssumption == TimeToLive \in Nat /\ Delay \in Nat

VARIABLES
    cache,      \* the account a process remembers and until when
    current     \* when a row of an account was the stored one for the last time

accountVars == <<cache, current>>

AccountsUnchanged == UNCHANGED <<bounds, now, origin, homes>>

\* Mutant of Remembered: entries of the cache live for ever.
RememberedForever(s, a) == cache[s][a] # None
Remembered(s, a) == cache[s][a] # None /\ now < cache[s][a].until

(* The stored rows, noted before they change *)
Noted == [a \in Account |-> IF db.accounts[a] = None THEN current[a]
                            ELSE [current[a] EXCEPT ![db.accounts[a].data] = now]]

(* What a request was handed, and when *)
Identified(k, row, step) ==
    calls' = [calls EXCEPT ![k].row = row, ![k].at = step, ![k].asked = now]

----------------------------------------------------------------------------
(* protect_admin_route: find_by_apikey, a lookup in the cache and, when    *)
(* that misses, a SELECT whose row is then inserted in the cache           *)

FindByApiKey(k) ==
    LET q == calls[k] IN
    /\ q # None
    /\ \/ /\ q.at = "apikey"
          /\ IF Remembered(q.server, q.account)
             THEN Identified(k, cache[q.server][q.account].row, "find")
             ELSE Goto(k, "select")
          /\ UNCHANGED accountVars
       \/ /\ q.at = "select"
          /\ IF Stored(db.accounts, q.account)
             THEN Identified(k, db.accounts[q.account], "remember")
             ELSE IF q.op = "InitDefaultAccount" THEN Goto(k, "insert") ELSE Answer(k)
          /\ current' = Noted /\ UNCHANGED cache
       \/ /\ q.at = "remember"
          /\ cache' = [cache EXCEPT ![q.server][q.account] =
                           [row |-> q.row, until |-> now + TimeToLive]]
          /\ Goto(k, "find")
          /\ UNCHANGED current
    /\ UNCHANGED <<db, kept>> /\ AccountsUnchanged

----------------------------------------------------------------------------
(* create_account: the key and the id are drawn by the server *)
CreateAccount(k) ==
    LET q == calls[k] IN
    \E a \in {x \in Account : db.accounts[x] = None} :
        /\ At(k, "CreateAccount", "find")
        /\ Answer(k)
        /\ db' = AccountInserted(db, a, [data |-> [f \in Field |-> q.patch[f]]])
        /\ kept' = [kept EXCEPT ![a] = [f \in Field |-> None]]
        /\ UNCHANGED accountVars /\ AccountsUnchanged

\* Mutant of SetAccount: the process that saves the account does not forget it.
SetAccountOnly(k) ==
    LET q == calls[k] IN
    /\ At(k, "SetAccount", "find")
    /\ db' = AccountSaved(db, q.account, Merged(q.row, q.patch))
    /\ current' = Noted
    /\ Answer(k)
    /\ UNCHANGED <<cache, kept>> /\ AccountsUnchanged
(* The key for tokens, or the webhook, is replaced in the row that was     *)
(* handed out and the row saved.  The process that saves it forgets it, in *)
(* a second step; the others go on with the row they have.                 *)
SetAccount(k) ==
    LET q == calls[k] IN
    \/ /\ At(k, "SetAccount", "find")
       /\ db' = AccountSaved(db, q.account, Merged(q.row, q.patch))
       /\ Keeps(q.account, q.patch, q.row, db.accounts[q.account])
       /\ current' = Noted
       /\ Goto(k, "forget")
       /\ UNCHANGED cache /\ AccountsUnchanged
    \/ /\ At(k, "SetAccount", "forget")
       /\ cache' = [cache EXCEPT ![q.server][q.account] = None]
       /\ Answer(k)
       /\ UNCHANGED <<db, kept, current>> /\ AccountsUnchanged

GetAccount(k) ==
    /\ At(k, "GetAccount", "find")
    /\ Answer(k)
    /\ UNCHANGED <<db, kept, accountVars>> /\ AccountsUnchanged

(* init_default_account, when a process starts that is configured with an  *)
(* account and a client of each provider.  The account is looked up like   *)
(* that of a request, before and after it is made; nothing is configured   *)
(* for an account that is found.                                           *)
InitDefaultAccount(k) ==
    LET q == calls[k] IN
    \/ At(k, "InitDefaultAccount", "find") /\ Answer(k) /\ UNCHANGED <<db, kept>>
    \/ /\ At(k, "InitDefaultAccount", "insert")
       /\ IF Stored(db.accounts, q.account) THEN Answer(k) /\ UNCHANGED <<db, kept>>
          ELSE /\ db' = AccountInserted(db, q.account, [data |-> [f \in Field |-> q.patch[f]]])
               /\ kept' = [kept EXCEPT ![q.account] = [f \in Field |-> None]]
               /\ calls' = [calls EXCEPT ![k].at = "integrate", ![k].provider = "google"]
    \/ /\ At(k, "InitDefaultAccount", "integrate")
       /\ IF IntegrationInsertAccepted(db, q.account, q.provider)
          THEN /\ db' = IntegrationInserted(db, q.account, q.provider)
               /\ IF q.provider = "google" THEN calls' = [calls EXCEPT ![k].provider = "outlook"]
                  ELSE Goto(k, "apikey")
          ELSE UNCHANGED db /\ Answer(k)
       /\ UNCHANGED kept

AccountOps == {"CreateAccount", "SetAccount", "GetAccount", "InitDefaultAccount"}

AccountsNext(k) ==
    /\ calls[k].op \in AccountOps
    /\ \/ FindByApiKey(k) \/ CreateAccount(k) \/ SetAccount(k) \/ GetAccount(k)
       \/ InitDefaultAccount(k) /\ UNCHANGED accountVars /\ AccountsUnchanged
=============================================================================
