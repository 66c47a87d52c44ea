----------------------------- MODULE ServiceAccount -----------------------------
(***************************************************************************)
(* The omni_service_account resource (omni_service_account_resource.go,    *)
(* serviceaccount.go): one resource, the account of its name at Omni, and  *)
(* the listing of accounts, which a controller of Omni keeps up to date    *)
(* some time after each change.                                            *)
(*                                                                         *)
(* The private half of a key exists in the memory of the handler that      *)
(* generated it and then in the terraform state, nowhere else; a key and   *)
(* its private half carry the same number here, its public key ID.         *)
(* The name is one that is not an infra provider's.  Time advances in      *)
(* ticks; a ttl is a number of ticks.                                      *)
(***************************************************************************)
EXTENDS Naturals, FiniteSets

CONSTANTS Roles,       \* roles a service account can have
          Unset,       \* the role argument is left out
          UserRole,    \* role of the identity terraform authenticates as
          Configs,     \* configurations: the arguments role, ttl (valid or not), renew_trigger
          MaxTTL,      \* serviceAccountMaxTTL
          MaxKeys,     \* bound: keys ever generated
          MaxTime,     \* bound: ticks
          MaxEvents    \* bound: edits of the configuration, operations of others

ASSUME RolesAssumption == Unset \notin Roles /\ UserRole \in Roles
ASSUME ConfigsAssumption ==
  \A c \in Configs : /\ c.role \in Roles \cup {Unset} /\ c.ttl \in Nat /\ c.trigger \in Nat
                     /\ c = [role |-> c.role, ttl |-> c.ttl, trigger |-> c.trigger]
ASSUME NumbersAssumption ==
  MaxTTL \in Nat /\ MaxKeys \in Nat /\ MaxTime \in Nat /\ MaxEvents \in Nat

VARIABLES
  account,  \* the account at Omni: whether it lives, its role, its public keys
  observed, \* the account as the controller behind the listing last read it
  listing,  \* the account as ListServiceAccounts shows it
  expiry,   \* expiry[k]: when key k expires
  nextKey,  \* number of the next key generated, by anybody
  now,
  config,   \* the arguments in the configuration
  state,    \* the terraform state of the resource
  pc,       \* where the running operation stands
  replace,  \* the deletion under way is the first half of a replacement
  plan,     \* the model the running handler fills in
  excused,  \* history: keys terraform need not hold (see IssuedKeysAccountedFor)
  events    \* edits and operations of others so far

vars == <<account, observed, listing, expiry, nextKey, now, config, state, pc, replace, plan,
          excused, events>>

remote == <<account, expiry, nextKey>>
lag == <<observed, listing>>

Keys == 1 .. MaxKeys
None == 0                   \* a null attribute: no key, no time, no ttl
Times == 0 .. MaxTime + MaxTTL

Accounts == [live : BOOLEAN, role : Roles, keys : SUBSET Keys]

Model == [role : Roles \cup {Unset}, ttl : Nat, trigger : Nat,
          keyID : Keys \cup {None}, exp : Times, key : Keys \cup {None}]

NoAccount == [live |-> FALSE, role |-> UserRole, keys |-> {}]

\* Nothing known yet: what a plan starts from, and what an import starts from.
Blank == [role |-> Unset, ttl |-> None, trigger |-> None, keyID |-> None, exp |-> None,
          key |-> None]

InState(m) == [present |-> TRUE, model |-> m]
NotInState == [present |-> FALSE, model |-> Blank]

NoUpperBound(ttl) == 0 < ttl

\* parseServiceAccountTTL.  ValidateConfig applies it too, but cannot when the value is
\* only known at apply time, so a plan may carry any value.
ValidTTL(ttl) == 0 < ttl /\ ttl <= MaxTTL

--------------------------------------------------------------------------------
(* Reading an account *)

\* serviceAccountKeyExpiration: None when the account does not show the key.
KeyExpiration(acc, k) == IF k \in acc.keys THEN expiry[k] ELSE None

\* latestServiceAccountKey: the key that lives longest.
LatestKey(acc) ==
  LET latest == {k \in acc.keys : \A j \in acc.keys : expiry[j] <= expiry[k]}
  IN  IF latest = {} THEN None ELSE CHOOSE k \in latest : TRUE

\* The bug the comment of accountToModel warns of: the fallback taken for a model with a key.
AlwaysLatest(acc, m) ==
  [m EXCEPT !.role = acc.role, !.keyID = LatestKey(acc),
            !.exp = KeyExpiration(acc, LatestKey(acc))]

\* The other one: the expiration of whichever key lives longest.
LatestExpiration(acc, m) ==
  LET k == IF m.keyID # None THEN m.keyID ELSE LatestKey(acc)
  IN  [m EXCEPT !.role = acc.role, !.keyID = k, !.exp = KeyExpiration(acc, LatestKey(acc))]

\* accountToModel: a model that names a key keeps it and only learns its expiration, null
\* when the key is gone; a model without a key adopts the longest-lived one.
AccountToModel(acc, m) ==
  LET k == IF m.keyID # None THEN m.keyID ELSE LatestKey(acc)
  IN  [role |-> acc.role, ttl |-> m.ttl, trigger |-> m.trigger,
       keyID |-> k, exp |-> KeyExpiration(acc, k), key |-> m.key]

--------------------------------------------------------------------------------
(* Terraform core: configuration, refresh, plan *)

Idle == pc = "idle"

Init == /\ account = NoAccount /\ observed = NoAccount /\ listing = NoAccount
        /\ expiry = [k \in Keys |-> None] /\ nextKey = 1 /\ now = 0
        /\ config \in Configs
        /\ state = NotInState /\ plan = Blank
        /\ pc = "idle" /\ replace = FALSE
        /\ excused = {} /\ events = 0

Happens == events < MaxEvents /\ events' = events + 1

\* The user edits the configuration.  ValidateConfig does not see a value that is known only when
\* the plan is applied, so that a ttl which is not valid may come as far as Create and Update.
EditConfig == /\ Happens
              /\ \E c \in Configs : c # config /\ config' = c
              /\ UNCHANGED <<remote, lag, now, state, pc, replace, plan, excused>>

\* Read: the listing has the account, or the resource leaves the state.
Refresh == /\ Idle /\ state.present
           /\ state' = IF listing.live
                         THEN InState(AccountToModel(listing, state.model))
                         ELSE NotInState
           /\ UNCHANGED <<remote, lag, now, config, pc, replace, plan, excused, events>>

\* ImportState puts the name into the state; the Read after it must find the account.
Import == /\ Idle /\ ~state.present /\ listing.live
          /\ state' = InState(AccountToModel(listing, Blank))
          /\ UNCHANGED <<remote, lag, now, config, pc, replace, plan, excused, events>>

\* name and role force a replacement; an unset role keeps the one in the state
\* (UseStateForUnknown).
MustReplace == config.role \notin {Unset, state.model.role}
MustRenew == config.ttl # state.model.ttl \/ config.trigger # state.model.trigger

Planned(role) == [Blank EXCEPT !.role = role, !.ttl = config.ttl, !.trigger = config.trigger]

KeysLeft == nextKey <= MaxKeys

StartCreate == /\ Idle /\ KeysLeft /\ ~state.present
               /\ pc' = "create" /\ plan' = Planned(config.role)
               /\ UNCHANGED <<remote, lag, now, config, state, replace, excused, events>>

StartUpdate == /\ Idle /\ KeysLeft /\ state.present /\ ~MustReplace /\ MustRenew
               /\ pc' = "renew" /\ plan' = Planned(state.model.role)
               /\ UNCHANGED <<remote, lag, now, config, state, replace, excused, events>>

StartReplace == /\ Idle /\ KeysLeft /\ state.present /\ MustReplace
                /\ pc' = "delete" /\ replace' = TRUE /\ plan' = Planned(config.role)
                /\ UNCHANGED <<remote, lag, now, config, state, excused, events>>

StartDestroy == /\ Idle /\ state.present
                /\ pc' = "delete" /\ replace' = FALSE
                /\ UNCHANGED <<remote, lag, now, config, state, plan, excused, events>>

--------------------------------------------------------------------------------
(* The handlers *)

Return == pc' = "idle" /\ replace' = FALSE /\ plan' = Blank

OnlyID(m, k) == [m EXCEPT !.keyID = k]

\* The handler sets public_key_id and key to the pair it generated.
WithKey(m, k) == [m EXCEPT !.keyID = k, !.key = k]

\* A key pair is generated with the lifetime of the plan and its public half is registered
\* with acc.  Then the handler waits for the listing; or the answer is lost, the encoding
\* fails or the process dies, and the private half is gone with it.
Register(acc) ==
  /\ account' = [acc EXCEPT !.keys = @ \cup {nextKey}]
  /\ expiry' = [expiry EXCEPT ![nextKey] = now + plan.ttl]
  /\ nextKey' = nextKey + 1
  /\ \/ /\ pc' = "readback" /\ plan' = WithKey(plan, nextKey)
        /\ UNCHANGED <<replace, excused>>
     \/ /\ Return
        /\ excused' = excused \cup {nextKey}

\* use_user_role: a role nobody asked for is the one of the identity terraform runs as.
GrantedRole == IF plan.role = Unset THEN UserRole ELSE plan.role

\* Create: createServiceAccountKey.  Omni refuses a name that is taken.
Create == /\ pc = "create"
          /\ \/ /\ ~ValidTTL(plan.ttl) \/ account.live
                /\ Return
                /\ UNCHANGED <<remote, excused>>
             \/ /\ ValidTTL(plan.ttl) /\ ~account.live
                /\ Register([live |-> TRUE, role |-> GrantedRole, keys |-> {}])
          /\ UNCHANGED <<lag, now, config, state, events>>

\* Update: renewServiceAccountKey.  Omni refuses when there is no such account.
Renew == /\ pc = "renew"
         /\ \/ /\ ~ValidTTL(plan.ttl) \/ ~account.live
               /\ Return
               /\ UNCHANGED <<remote, excused>>
            \/ /\ ValidTTL(plan.ttl) /\ account.live
               /\ Register(account)
         /\ UNCHANGED <<lag, now, config, state, events>>

AccountShown(k) == listing.live

\* What lookupServiceAccountKeyWithRetry waits for: the key, not merely the account.
KeyShown(k) == listing.live /\ k \in listing.keys

\* A poll of the listing finds the key.  The state gets the new key; the one it replaces
\* may now be forgotten.
ReadBack == /\ pc = "readback" /\ KeyShown(plan.key)
            /\ state' = InState(AccountToModel(listing, plan))
            /\ excused' = excused \cup ({state.model.key} \ {None})
            /\ Return
            /\ UNCHANGED <<remote, lag, now, config, events>>

NoTimeout == FALSE

\* The timeout passes without the key, listing fails, or the process dies: the state stays
\* as it was and the key that was registered is lost.
ReadBackFails == /\ pc = "readback"
                 /\ excused' = excused \cup {plan.key}
                 /\ Return
                 /\ UNCHANGED <<remote, lag, now, config, state, events>>

\* Delete: DestroyServiceAccount, where "not found" is success.  A replacement goes on with
\* the creation.
Delete == /\ pc = "delete"
          /\ account' = NoAccount
          /\ state' = NotInState
          /\ IF replace THEN pc' = "create" /\ UNCHANGED plan ELSE pc' = "idle" /\ plan' = Blank
          /\ replace' = FALSE
          /\ UNCHANGED <<expiry, nextKey, lag, now, config, excused, events>>

\* The account is destroyed but the answer is lost: the resource stays in the state.
DeleteUnanswered == /\ pc = "delete"
                    /\ account' = NoAccount
                    /\ Return
                    /\ UNCHANGED <<expiry, nextKey, lag, now, config, state, excused, events>>

\* A call does not reach Omni, or the process dies before it.
Unreachable == /\ pc \in {"create", "renew", "delete"}
               /\ Return
               /\ UNCHANGED <<remote, lag, now, config, state, excused, events>>

--------------------------------------------------------------------------------
(* Omni and the others *)

\* The controller reads the account, and some time later publishes what it read.
Observe == /\ observed # account
           /\ observed' = account
           /\ UNCHANGED <<remote, listing, now, config, state, pc, replace, plan, excused, events>>

Publish == /\ listing # observed
           /\ listing' = observed
           /\ UNCHANGED <<remote, observed, now, config, state, pc, replace, plan, excused, events>>

Tick == /\ now < MaxTime /\ now' = now + 1
        /\ UNCHANGED <<remote, lag, config, state, pc, replace, plan, excused, events>>

RemoveExpiredKey == \E k \in account.keys :
  /\ expiry[k] <= now
  /\ account' = [account EXCEPT !.keys = @ \ {k}]
  /\ UNCHANGED <<expiry, nextKey, lag, now, config, state, pc, replace, plan, excused, events>>

\* The bound on keys leaves one for the operation that is under way.
Reserved == IF pc \in {"create", "renew"} \/ replace THEN 1 ELSE 0

\* Another administrator renews, destroys or creates the account of this name.
OthersRegister(acc) == /\ nextKey + Reserved <= MaxKeys
                       /\ \E ttl \in 1 .. MaxTTL : expiry' = [expiry EXCEPT ![nextKey] = now + ttl]
                       /\ account' = [acc EXCEPT !.keys = @ \cup {nextKey}]
                       /\ nextKey' = nextKey + 1
                       /\ excused' = excused \cup {nextKey}

Others == /\ Happens
          /\ \/ account.live /\ OthersRegister(account)
             \/ /\ ~account.live
                /\ \E r \in Roles : OthersRegister([live |-> TRUE, role |-> r, keys |-> {}])
             \/ /\ account.live /\ account' = NoAccount
                /\ UNCHANGED <<expiry, nextKey, excused>>
          /\ UNCHANGED <<lag, now, config, state, pc, replace, plan>>

--------------------------------------------------------------------------------
Handler == Create \/ Renew \/ ReadBack \/ ReadBackFails \/ Delete

Core == EditConfig \/ Refresh \/ Import \/ StartCreate \/ StartUpdate \/ StartReplace \/ StartDestroy

Next == \/ Core \/ Handler \/ DeleteUnanswered \/ Unreachable
        \/ Observe \/ Publish \/ Tick \/ RemoveExpiredKey \/ Others

Spec == Init /\ [][Next]_vars

\* A running handler goes on, and its read-back has a timeout.  Nothing is assumed of Omni:
\* the listing may never catch up.
FairSpec == Spec /\ WF_vars(Handler)

--------------------------------------------------------------------------------
(* Properties *)

TypeOK ==
  /\ account \in Accounts /\ observed \in Accounts /\ listing \in Accounts
  /\ expiry \in [Keys -> Times] /\ nextKey \in 1 .. MaxKeys + 1 /\ now \in 0 .. MaxTime
  /\ config \in Configs
  /\ state \in [present : BOOLEAN, model : Model]
  /\ pc \in {"idle", "create", "renew", "readback", "delete"} /\ replace \in BOOLEAN
  /\ plan \in Model
  /\ excused \subseteq Keys /\ events \in 0 .. MaxEvents

\* public_key_id always identifies the key whose private half is in the state (schema of
\* public_key_id, omni_service_account_resource.go:138), through renewals by anybody,
\* expired keys and accounts re-created behind terraform's back.
HeldKeyIsNamed == state.model.key # None => state.model.keyID = state.model.key

\* expiration is the one of the key that public_key_id names, never of some other key that
\* lives longer (comment of accountToModel, :384).
ExpirationDescribesKey ==
  state.model.exp # None => /\ state.model.keyID # None
                            /\ state.model.exp = expiry[state.model.keyID]

\* As long as the key in the state works, the role in the state is the role it gives: a
\* listing left over from a replaced account is never read back.
RoleOfHeldKey == state.model.key \in account.keys => state.model.role = account.role

\* A key that was registered for this resource and still opens the account is in the
\* state or in the hands of the handler, unless a failure was reported, a newer key took
\* its place, or it belongs to somebody else: no working key is silently lost.
IssuedKeysAccountedFor ==
  \A k \in account.keys : k \in excused \/ k = state.model.key \/ k = plan.key

\* A resource leaves the state only with its account gone: a listing that lags (or shows an
\* earlier account of the name) never makes a refresh drop a resource whose key works.
LiveKeyNotForgotten ==
  [][state.model.key \in account.keys /\ ~state'.present => ~account'.live]_vars

\* A create or renew that succeeds knows when its key expires and which role it has.
ApplyKnowsItsKey ==
  [][pc = "readback" /\ state' # state =>
       /\ state'.model.key = plan.key
       /\ state'.model.exp = expiry[plan.key] /\ state'.model.exp # None
       /\ state'.model.role \in Roles]_vars

\* Every apply ends, even when the listing never shows the key.
ApplyEnds == pc # "idle" ~> pc = "idle"

\* What the comment at omni_service_account_resource.go:397 says of a key that is gone from
\* the account: its ID is left in place because the resource holds its private half.
UnlistedKeyIsHeld ==
  Idle /\ state.present /\ state.model.keyID # None /\ state.model.exp = None
    => state.model.key = state.model.keyID

================================================================================
