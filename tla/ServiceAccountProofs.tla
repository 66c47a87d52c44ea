-------------------------- MODULE ServiceAccountProofs --------------------------
(***************************************************************************)
(* For any roles, configurations, lifetimes and bounds: the invariants of  *)
(* ServiceAccount, that no refresh forgets a working key and that a        *)
(* successful apply knows its key.                                         *)
(*                                                                         *)
(* The argument: keys are never issued twice, so a key belongs to one life *)
(* of the account; the three views of the account (the account, what the   *)
(* controller read, what it published) get older in that order; and a key  *)
(* enters the state only once the oldest view, the listing, shows it.      *)
(* From then on every view shows it as long as it works.                   *)
(***************************************************************************)
EXTENDS ServiceAccount, TLAPS

\* Keys that have not been generated appear nowhere; those that have expire some time.
KeysAreFresh ==
  /\ \A k \in Keys : k >= nextKey =>
       /\ k \notin account.keys /\ k \notin observed.keys /\ k \notin listing.keys
       /\ k # state.model.keyID /\ k # state.model.key /\ k # plan.keyID /\ k # plan.key
  /\ \A k \in Keys : k < nextKey => expiry[k] # None

\* Two views that show the same key show the same life of the account, and a key that is
\* both in the oldest view and in the newest is in the one between.
ViewsAgree ==
  /\ account.keys # {} => account.live
  /\ observed.keys # {} => observed.live
  /\ listing.keys # {} => listing.live
  /\ \A k \in account.keys : k \in observed.keys => observed.role = account.role
  /\ \A k \in account.keys : k \in listing.keys => k \in observed.keys /\ listing.role = account.role
  /\ \A k \in observed.keys : k \in listing.keys => listing.role = observed.role

\* A key in the state that works is shown by every view.
HeldKeyIsListed == state.model.key \in account.keys => state.model.key \in listing.keys

\* Outside of the read-back no key is in the hands of a handler; a resource that is not in
\* the state has none either.
HandsAreEmpty ==
  /\ pc # "readback" => plan.keyID = None /\ plan.key = None /\ plan.exp = None
  /\ pc = "readback" => plan.keyID = plan.key /\ plan.key # None /\ plan.exp = None
  /\ ~state.present => state.model = Blank

\* The bound on keys leaves one for the operation under way (an artefact of the bound).
RoomForKey == /\ pc \in {"create", "renew"} \/ replace => KeysLeft
              /\ replace => pc = "delete"

\* The part of the invariant that is inductive by itself: types, and what the handlers hold.
Shape == TypeOK /\ HandsAreEmpty /\ RoomForKey

IInv == /\ Shape /\ KeysAreFresh /\ ViewsAgree /\ HeldKeyIsListed
        /\ HeldKeyIsNamed /\ ExpirationDescribesKey /\ RoleOfHeldKey /\ IssuedKeysAccountedFor

--------------------------------------------------------------------------------
(* The operators *)

LEMMA NumberTypes == None = 0 /\ None \notin Keys /\ Keys \subseteq Nat
                     /\ MaxKeys \in Nat /\ MaxTime \in Nat /\ MaxTTL \in Nat
                     /\ None \in Times
  BY NumbersAssumption DEF None, Keys, Times

\* The longest-lived key is a key of the account, if there is one.
LEMMA LatestKeyIsShown ==
  ASSUME NEW acc \in Accounts
  PROVE  LatestKey(acc) \in acc.keys \cup {None}
  BY DEF LatestKey

LEMMA BlankIsModel == /\ Blank \in Model /\ Blank.key = None /\ Blank.keyID = None
                      /\ Blank.exp = None /\ Blank.role = Unset
  BY NumberTypes DEF Blank, Model, Times, None

LEMMA NoAccountIsAccount == NoAccount \in Accounts /\ NoAccount.keys = {} /\ ~NoAccount.live
  BY RolesAssumption DEF NoAccount, Accounts

\* accountToModel keeps the key and a key ID that is there, takes the role of the account,
\* and the expiration of the key that the result names.
LEMMA AccountToModelEffect ==
  ASSUME NEW acc \in Accounts, NEW m \in Model, expiry \in [Keys -> Times]
  PROVE  LET n == AccountToModel(acc, m)
         IN  /\ n \in Model
             /\ n.role = acc.role /\ n.key = m.key
             /\ m.keyID # None => n.keyID = m.keyID
             /\ m.keyID = None => n.keyID \in acc.keys \cup {None}
             /\ n.keyID \in acc.keys => n.exp = expiry[n.keyID]
             /\ n.keyID \notin acc.keys => n.exp = None
  <1> DEFINE k == IF m.keyID # None THEN m.keyID ELSE LatestKey(acc)
  <1>1. k \in Keys \cup {None} /\ (m.keyID = None => k \in acc.keys \cup {None})
    BY LatestKeyIsShown DEF Model, Accounts
  <1>2. KeyExpiration(acc, k) \in Times
    <2> HIDE DEF k
    <2>1. CASE k \in acc.keys
      BY <2>1 DEF KeyExpiration, Accounts
    <2>2. CASE k \notin acc.keys
      BY <2>2, NumberTypes DEF KeyExpiration
    <2>3. QED
      BY <2>1, <2>2
  <1>3. AccountToModel(acc, m) = [role |-> acc.role, ttl |-> m.ttl, trigger |-> m.trigger,
                                  keyID |-> k, exp |-> KeyExpiration(acc, k), key |-> m.key]
    BY DEF AccountToModel
  <1> HIDE DEF k
  <1>4. AccountToModel(acc, m) \in Model
    BY <1>1, <1>2, <1>3 DEF Model, Accounts
  <1>5. /\ AccountToModel(acc, m).role = acc.role /\ AccountToModel(acc, m).key = m.key
        /\ AccountToModel(acc, m).keyID = k /\ AccountToModel(acc, m).exp = KeyExpiration(acc, k)
    BY <1>3
  <1>6. m.keyID # None => k = m.keyID
    BY DEF k
  <1>7. QED
    BY <1>1, <1>4, <1>5, <1>6 DEF KeyExpiration

LEMMA PlannedEffect ==
  ASSUME NEW role \in Roles \cup {Unset}, config \in Configs
  PROVE  /\ Planned(role) \in Model /\ Planned(role).key = None /\ Planned(role).keyID = None
         /\ Planned(role).exp = None
  <1>1. config.ttl \in Nat /\ config.trigger \in Nat
    BY ConfigsAssumption
  <1>2. /\ [Blank EXCEPT !.role = role] \in Model
        /\ \A n \in Nat, m \in Model : [m EXCEPT !.ttl = n] \in Model /\ [m EXCEPT !.trigger = n] \in Model
    BY BlankIsModel DEF Model
  <1>3. QED
    BY <1>1, <1>2, BlankIsModel DEF Planned, Model

LEMMA WithKeyEffect ==
  ASSUME NEW m \in Model, NEW k \in Keys
  PROVE  /\ WithKey(m, k) \in Model /\ WithKey(m, k).key = k /\ WithKey(m, k).keyID = k
         /\ WithKey(m, k).exp = m.exp
  BY DEF WithKey, Model

--------------------------------------------------------------------------------
(* Shape *)

USE DEF remote, lag

LEMMA InitShape == ASSUME Init PROVE Shape
  <1> USE NumbersAssumption, NumberTypes, BlankIsModel, NoAccountIsAccount DEF Init
  <1>1. expiry \in [Keys -> Times]
    BY DEF Keys
  <1>2. nextKey \in 1 .. MaxKeys + 1 /\ now \in 0 .. MaxTime /\ events \in 0 .. MaxEvents
    OBVIOUS
  <1>3. state \in [present : BOOLEAN, model : Model] /\ state.model = Blank
    BY DEF NotInState
  <1>4. TypeOK
    BY <1>1, <1>2, <1>3 DEF TypeOK
  <1>5. QED
    BY <1>3, <1>4 DEF Shape, HandsAreEmpty, RoomForKey

\* A handler that is done holds nothing.
LEMMA ReturnShape ==
  ASSUME Shape, Return, UNCHANGED <<lag, now, config, events>>,
         account' \in Accounts, expiry' \in [Keys -> Times], nextKey' \in 1 .. MaxKeys + 1,
         excused' \subseteq Keys, state' \in [present : BOOLEAN, model : Model],
         ~state'.present => state'.model = Blank
  PROVE  Shape'
  <1>1. plan' = Blank /\ pc' = "idle" /\ replace' = FALSE
    BY DEF Return
  <1>2. TypeOK'
    BY <1>1, BlankIsModel DEF Shape, TypeOK
  <1>3. QED
    BY <1>1, <1>2, BlankIsModel DEF Shape, HandsAreEmpty, RoomForKey

LEMMA StartShape ==
  ASSUME Shape, StartCreate \/ StartUpdate \/ StartReplace \/ StartDestroy
  PROVE  Shape'
  <1>1. UNCHANGED <<remote, lag, now, config, state, excused, events>>
    BY DEF StartCreate, StartUpdate, StartReplace, StartDestroy
  <1>2. /\ plan' = plan \/ \E r \in Roles \cup {Unset} : plan' = Planned(r)
        /\ pc = "idle" /\ pc' \in {"create", "renew", "delete"} /\ replace' \in BOOLEAN
        /\ pc' \in {"create", "renew"} \/ replace' => KeysLeft
        /\ replace' => pc' = "delete"
    <2>1. CASE StartCreate
      <3>1. config.role \in Roles \cup {Unset}
        BY ConfigsAssumption DEF Shape, TypeOK
      <3>2. replace = FALSE
        BY <2>1 DEF Shape, TypeOK, RoomForKey, StartCreate, Idle
      <3>3. QED
        BY <2>1, <3>1, <3>2 DEF StartCreate, Idle
    <2>2. CASE StartReplace
      <3>1. config.role \in Roles \cup {Unset}
        BY ConfigsAssumption DEF Shape, TypeOK
      <3>2. QED
        BY <2>2, <3>1 DEF StartReplace, Idle
    <2>3. CASE StartUpdate
      <3>1. state.model.role \in Roles \cup {Unset}
        BY DEF Shape, TypeOK, Model
      <3>2. replace = FALSE
        BY <2>3 DEF Shape, TypeOK, RoomForKey, StartUpdate, Idle
      <3>3. QED
        BY <2>3, <3>1, <3>2 DEF StartUpdate, Idle
    <2>4. CASE StartDestroy
      BY <2>4 DEF StartDestroy, Idle
    <2>5. QED
      BY <2>1, <2>2, <2>3, <2>4
  <1>3. plan' \in Model /\ plan'.key = None /\ plan'.keyID = None /\ plan'.exp = None
    BY <1>2, PlannedEffect DEF Shape, TypeOK, HandsAreEmpty
  <1>4. TypeOK'
    BY <1>1, <1>2, <1>3 DEF Shape, TypeOK
  <1>5. HandsAreEmpty'
    BY <1>1, <1>2, <1>3 DEF Shape, HandsAreEmpty
  <1>6. RoomForKey'
    BY <1>1, <1>2 DEF RoomForKey, KeysLeft
  <1>7. QED
    BY <1>4, <1>5, <1>6 DEF Shape

\* Steps of Omni and of others leave the handler alone; so do an edit, the clock, a refresh.
LEMMA OutsideShape ==
  ASSUME Shape, UNCHANGED <<pc, replace, plan>>,
         state' \in [present : BOOLEAN, model : Model], ~state'.present => state'.model = Blank,
         account' \in Accounts, observed' \in Accounts, listing' \in Accounts,
         expiry' \in [Keys -> Times], nextKey' \in 1 .. MaxKeys + 1,
         nextKey' = nextKey \/ (nextKey + Reserved <= MaxKeys /\ nextKey' = nextKey + 1),
         now' \in 0 .. MaxTime, config' \in Configs, excused' \subseteq Keys,
         events' \in 0 .. MaxEvents
  PROVE  Shape'
  <1>1. TypeOK'
    BY DEF Shape, TypeOK
  <1>2. HandsAreEmpty'
    BY DEF Shape, HandsAreEmpty
  <1>3. ASSUME pc \in {"create", "renew"} \/ replace PROVE nextKey' <= MaxKeys
    <2>1. Reserved = 1 /\ nextKey <= MaxKeys
      BY <1>3 DEF Reserved, Shape, RoomForKey, KeysLeft
    <2>2. QED
      BY <2>1, NumberTypes DEF Shape, TypeOK
  <1>4. RoomForKey'
    BY <1>3 DEF Shape, RoomForKey, KeysLeft
  <1>5. QED
    BY <1>1, <1>2, <1>4 DEF Shape

--------------------------------------------------------------------------------
(* What a step does to the account, its views and the state *)

\* The account, its views and the state stay: edits, plans, failures, ticks.
LEMMA QuietIInv ==
  ASSUME IInv, Shape', UNCHANGED <<remote, lag, state>>, excused \subseteq excused',
         plan'.keyID \in {None, plan.keyID}, plan'.key \in {None, plan.key},
         plan'.key = plan.key \/ plan.key \in excused' \cup {None}
  PROVE  IInv'
  <1> USE NumberTypes DEF IInv
  <1>1. KeysAreFresh'
    BY DEF KeysAreFresh
  <1>2. ViewsAgree' /\ HeldKeyIsListed' /\ HeldKeyIsNamed' /\ ExpirationDescribesKey' /\ RoleOfHeldKey'
    BY DEF ViewsAgree, HeldKeyIsListed, HeldKeyIsNamed, ExpirationDescribesKey, RoleOfHeldKey
  <1>3. IssuedKeysAccountedFor'
    <2> SUFFICES ASSUME NEW k \in account.keys
                 PROVE  k \in excused' \/ k = state.model.key \/ k = plan'.key
      BY DEF IssuedKeysAccountedFor
    <2>1. k \in excused \/ k = state.model.key \/ k = plan.key
      BY DEF IssuedKeysAccountedFor
    <2>2. k # None
      BY DEF Shape, TypeOK, Accounts
    <2>3. QED
      BY <2>1, <2>2
  <1>4. QED
    BY <1>1, <1>2, <1>3

\* The listing is written into the state, over a model whose key, if it works, it shows.
LEMMA ReadIInv ==
  ASSUME IInv, Shape', UNCHANGED <<remote, lag>>, excused \subseteq excused',
         NEW m \in Model, state' = InState(AccountToModel(listing, m)),
         m.key # None => m.keyID = m.key,
         \A k \in Keys : k >= nextKey => k # m.keyID /\ k # m.key,
         m.key \in account.keys => m.key \in listing.keys,
         state.model.key = m.key \/ state.model.key \in excused' \cup {None},
         plan' = plan \/ (plan' = Blank /\ plan.key \in {None, m.key})
  PROVE  IInv'
  <1> USE NumberTypes DEF IInv
  <1> DEFINE n == AccountToModel(listing, m)
  <1>1. state'.model = n
    BY DEF InState
  <1>2. /\ n.role = listing.role /\ n.key = m.key
        /\ m.keyID # None => n.keyID = m.keyID
        /\ m.keyID = None => n.keyID \in listing.keys \cup {None}
        /\ n.keyID \in listing.keys => n.exp = expiry[n.keyID]
        /\ n.keyID \notin listing.keys => n.exp = None
    BY AccountToModelEffect DEF Shape, TypeOK
  <1> HIDE DEF n
  <1>3. listing.keys \subseteq Keys /\ account.keys \subseteq Keys
    BY DEF Shape, TypeOK, Accounts
  <1>4. KeysAreFresh'
    <2>1. ASSUME NEW k \in Keys, k >= nextKey
          PROVE  k # n.keyID /\ k # n.key /\ k # plan'.keyID /\ k # plan'.key
      BY <2>1, <1>2, BlankIsModel DEF KeysAreFresh
    <2>2. QED
      BY <2>1, <1>1 DEF KeysAreFresh
  <1>5. ViewsAgree'
    BY DEF ViewsAgree
  <1>6. HeldKeyIsListed'
    BY <1>1, <1>2 DEF HeldKeyIsListed
  <1>7. HeldKeyIsNamed'
    BY <1>1, <1>2 DEF HeldKeyIsNamed
  <1>8. ExpirationDescribesKey'
    BY <1>1, <1>2, <1>3 DEF ExpirationDescribesKey
  <1>9. RoleOfHeldKey'
    BY <1>1, <1>2 DEF RoleOfHeldKey, ViewsAgree
  <1>10. IssuedKeysAccountedFor'
    <2> SUFFICES ASSUME NEW k \in account.keys
                 PROVE  k \in excused' \/ k = n.key \/ k = plan'.key
      BY <1>1 DEF IssuedKeysAccountedFor
    <2>1. k \in excused \/ k = state.model.key \/ k = plan.key
      BY DEF IssuedKeysAccountedFor
    <2>2. QED
      BY <2>1, <1>2, <1>3
  <1>11. QED
    BY <1>4, <1>5, <1>6, <1>7, <1>8, <1>9, <1>10

\* Keys vanish from the account: it is destroyed, or one expires; the resource may leave
\* the state, when its key does not work afterwards.
LEMMA FewerKeysIInv ==
  ASSUME IInv, Shape', UNCHANGED <<lag, expiry, nextKey>>, excused' = excused,
         \/ account' \in {account, NoAccount}
         \/ /\ account'.role = account.role /\ account'.keys \subseteq account.keys
            /\ account'.keys # {} => account'.live,
         state' = state \/ (state' = NotInState /\ state.model.key \notin account'.keys),
         plan' = plan \/ (plan' = Blank /\ plan.key = None)
  PROVE  IInv'
  <1> USE NumberTypes, BlankIsModel, NoAccountIsAccount DEF IInv
  <1>1. account'.keys \subseteq account.keys /\ account.keys \subseteq Keys
    BY DEF Shape, TypeOK, Accounts
  <1>2. account'.keys # {} => account'.role = account.role /\ (account.live => account'.live)
    <2>1. CASE account' = NoAccount
      BY <2>1
    <2>2. CASE account' # NoAccount
      BY <2>2, <1>1 DEF ViewsAgree
    <2>3. QED
      BY <2>1, <2>2
  <1>3. state'.model = state.model \/ (state'.model = Blank /\ state.model.key \notin account'.keys)
    BY DEF NotInState
  <1>4. KeysAreFresh'
    BY <1>1, <1>3 DEF KeysAreFresh
  <1>5. ViewsAgree'
    BY <1>1, <1>2 DEF ViewsAgree
  <1>6. HeldKeyIsListed' /\ HeldKeyIsNamed' /\ ExpirationDescribesKey' /\ RoleOfHeldKey'
    BY <1>1, <1>2, <1>3
       DEF HeldKeyIsListed, HeldKeyIsNamed, ExpirationDescribesKey, RoleOfHeldKey
  <1>7. IssuedKeysAccountedFor'
    <2> SUFFICES ASSUME NEW k \in account'.keys
                 PROVE  k \in excused \/ k = state'.model.key \/ k = plan'.key
      BY DEF IssuedKeysAccountedFor
    <2>1. k \in excused \/ k = state.model.key \/ k = plan.key
      BY <1>1 DEF IssuedKeysAccountedFor
    <2>2. QED
      BY <2>1, <1>1, <1>3
  <1>8. QED
    BY <1>4, <1>5, <1>6, <1>7

\* A key nobody has seen is registered with the account, or with a new one.
LEMMA RegisterIInv ==
  ASSUME IInv, Shape', UNCHANGED <<lag, state>>, nextKey \in Keys, nextKey' = nextKey + 1,
         account'.live, \/ account'.keys = account.keys \cup {nextKey} /\ account'.role = account.role
                        \/ account'.keys = {nextKey},
         NEW t \in Times, t # None, expiry' = [expiry EXCEPT ![nextKey] = t],
         excused \subseteq excused', nextKey \in excused' \/ plan'.key = nextKey,
         plan' = plan \/ plan.key = None, plan'.key \in {None, plan.key, nextKey},
         plan'.keyID \in {None, plan.keyID, nextKey}
  PROVE  IInv'
  <1> USE NumberTypes DEF IInv
  <1>1. /\ nextKey \notin account.keys /\ nextKey \notin observed.keys /\ nextKey \notin listing.keys
        /\ nextKey # state.model.key /\ nextKey # state.model.keyID
    BY DEF KeysAreFresh
  <1>2. /\ account'.keys \subseteq account.keys \cup {nextKey}
        /\ \A k \in account'.keys : k # nextKey => k \in account.keys /\ account'.role = account.role
    OBVIOUS
  <1>3. expiry'[nextKey] = t /\ \A k \in Keys : k # nextKey => expiry'[k] = expiry[k]
    BY DEF Shape, TypeOK
  <1>4. \A k \in Keys : /\ k >= nextKey + 1 => k >= nextKey /\ k # nextKey
                        /\ k < nextKey + 1 => k < nextKey \/ k = nextKey
    BY DEF Keys
  <1>5. KeysAreFresh'
    BY <1>2, <1>3, <1>4 DEF KeysAreFresh
  <1>6. ViewsAgree'
    BY <1>1, <1>2 DEF ViewsAgree
  <1>7. HeldKeyIsListed' /\ HeldKeyIsNamed' /\ RoleOfHeldKey'
    BY <1>1, <1>2 DEF HeldKeyIsListed, HeldKeyIsNamed, RoleOfHeldKey
  <1>8. ExpirationDescribesKey'
    <2>1. state.model.keyID \in Keys \cup {None}
      BY DEF Shape, TypeOK, Model
    <2>2. QED
      BY <2>1, <1>1, <1>3 DEF ExpirationDescribesKey
  <1>9. IssuedKeysAccountedFor'
    <2> SUFFICES ASSUME NEW k \in account'.keys
                 PROVE  k \in excused' \/ k = state.model.key \/ k = plan'.key
      BY DEF IssuedKeysAccountedFor
    <2>1. CASE k = nextKey
      BY <2>1
    <2>2. CASE k # nextKey
      <3>1. k \in account.keys /\ k \in Keys
        BY <2>2, <1>2 DEF Shape, TypeOK, Accounts
      <3>2. QED
        BY <3>1 DEF IssuedKeysAccountedFor
    <2>3. QED
      BY <2>1, <2>2
  <1>10. QED
    BY <1>5, <1>6, <1>7, <1>8, <1>9

--------------------------------------------------------------------------------
(* The actions *)

LEMMA ShapeTypes ==
  ASSUME IInv
  PROVE  /\ Shape
         /\ account \in Accounts /\ observed \in Accounts /\ listing \in Accounts
         /\ expiry \in [Keys -> Times] /\ nextKey \in 1 .. MaxKeys + 1 /\ now \in 0 .. MaxTime
         /\ config \in Configs /\ state \in [present : BOOLEAN, model : Model]
         /\ ~state.present => state.model = Blank
         /\ excused \subseteq Keys /\ events \in 0 .. MaxEvents
  BY DEF IInv, Shape, TypeOK, HandsAreEmpty

LEMMA InStateType ==
  ASSUME NEW m \in Model
  PROVE  InState(m) \in [present : BOOLEAN, model : Model] /\ InState(m).present
  BY DEF InState

LEMMA NotInStateType ==
  NotInState \in [present : BOOLEAN, model : Model] /\ NotInState.model = Blank
  BY BlankIsModel DEF NotInState

LEMMA StartIInv ==
  ASSUME IInv, StartCreate \/ StartUpdate \/ StartReplace \/ StartDestroy
  PROVE  IInv'
  <1>1. UNCHANGED <<remote, lag, state, excused>> /\ pc = "idle" /\ pc' # "readback"
    BY DEF StartCreate, StartUpdate, StartReplace, StartDestroy, Idle
  <1>2. Shape'
    BY StartShape DEF IInv
  <1>3. /\ plan.key = None /\ plan.keyID = None
        /\ plan'.key = None /\ plan'.keyID = None
    BY <1>1, <1>2 DEF IInv, Shape, HandsAreEmpty
  <1>4. QED
    BY <1>1, <1>2, <1>3, QuietIInv

LEMMA EditIInv == ASSUME IInv, EditConfig PROVE IInv'
  <1>1. /\ UNCHANGED <<remote, lag, now, state, pc, replace, plan, excused>>
        /\ config' \in Configs /\ events' \in 0 .. MaxEvents
    BY NumbersAssumption DEF EditConfig, Happens, IInv, Shape, TypeOK
  <1>2. Shape'
    BY <1>1, ShapeTypes, OutsideShape
  <1>3. QED
    BY <1>1, <1>2, QuietIInv

LEMMA TickIInv == ASSUME IInv, Tick PROVE IInv'
  <1>1. /\ UNCHANGED <<remote, lag, config, state, pc, replace, plan, excused, events>>
        /\ now' \in 0 .. MaxTime
    BY NumbersAssumption DEF Tick, IInv, Shape, TypeOK
  <1>2. Shape'
    BY <1>1, ShapeTypes, OutsideShape
  <1>3. QED
    BY <1>1, <1>2, QuietIInv

\* Nothing changed at Omni, and a key that was registered is reported.
LEMMA GiveUpIInv ==
  ASSUME IInv, Return, UNCHANGED <<remote, lag, state, now, config, events>>,
         excused \subseteq excused', excused' \subseteq Keys,
         plan.key \in excused' \cup {None}
  PROVE  IInv'
  <1>1. Shape'
    BY ShapeTypes, ReturnShape
  <1>2. plan' = Blank
    BY DEF Return
  <1>3. QED
    BY <1>1, <1>2, BlankIsModel, QuietIInv

LEMMA FailIInv == ASSUME IInv, ReadBackFails \/ Unreachable PROVE IInv'
  <1>1. CASE ReadBackFails
    <2>1. plan.key \in Keys
      BY <1>1 DEF ReadBackFails, IInv, Shape, HandsAreEmpty, TypeOK, Model
    <2>2. QED
      BY <1>1, <2>1, GiveUpIInv DEF ReadBackFails, IInv, Shape, TypeOK
  <1>2. CASE Unreachable
    <2>1. plan.key = None
      BY <1>2 DEF Unreachable, IInv, Shape, HandsAreEmpty
    <2>2. QED
      BY <1>2, <2>1, GiveUpIInv DEF Unreachable, IInv, Shape, TypeOK
  <1>3. QED
    BY <1>1, <1>2

LEMMA RefreshIInv == ASSUME IInv, Refresh PROVE IInv'
  <1>1. UNCHANGED <<remote, lag, now, config, pc, replace, plan, excused, events>>
    BY DEF Refresh
  <1>2. CASE listing.live
    <2>1. state' = InState(AccountToModel(listing, state.model)) /\ state.model \in Model
      BY <1>2 DEF Refresh, IInv, Shape, TypeOK
    <2>2. AccountToModel(listing, state.model) \in Model
      BY <2>1, AccountToModelEffect DEF IInv, Shape, TypeOK
    <2>3. Shape'
      BY <1>1, <2>1, <2>2, InStateType, ShapeTypes, OutsideShape
    <2>4. /\ state.model.key # None => state.model.keyID = state.model.key
          /\ \A k \in Keys : k >= nextKey => k # state.model.keyID /\ k # state.model.key
          /\ state.model.key \in account.keys => state.model.key \in listing.keys
      BY DEF IInv, HeldKeyIsNamed, KeysAreFresh, HeldKeyIsListed
    <2>5. QED
      BY <1>1, <2>1, <2>3, <2>4, ReadIInv
  <1>3. CASE ~listing.live
    <2>1. state' = NotInState
      BY <1>3 DEF Refresh
    <2>2. Shape'
      BY <1>1, <2>1, NotInStateType, ShapeTypes, OutsideShape
    <2>3. state.model.key \notin account.keys
      BY <1>3 DEF IInv, HeldKeyIsListed, ViewsAgree
    <2>4. QED
      BY <1>1, <2>1, <2>2, <2>3, FewerKeysIInv
  <1>4. QED
    BY <1>2, <1>3

LEMMA ImportIInv == ASSUME IInv, Import PROVE IInv'
  <1>1. /\ UNCHANGED <<remote, lag, now, config, pc, replace, plan, excused, events>>
        /\ state' = InState(AccountToModel(listing, Blank))
        /\ state.model = Blank
    BY DEF Import, IInv, Shape, HandsAreEmpty
  <1>2. AccountToModel(listing, Blank) \in Model
    BY BlankIsModel, AccountToModelEffect DEF IInv, Shape, TypeOK
  <1>3. Shape'
    BY <1>1, <1>2, InStateType, ShapeTypes, OutsideShape
  <1>4. account.keys \subseteq Keys
    BY DEF IInv, Shape, TypeOK, Accounts
  <1>5. QED
    BY <1>1, <1>3, <1>4, BlankIsModel, NumberTypes, ReadIInv

LEMMA ReadBackIInv == ASSUME IInv, ReadBack PROVE IInv'
  <1>1. /\ UNCHANGED <<remote, lag, now, config, events>> /\ Return /\ plan' = Blank
        /\ state' = InState(AccountToModel(listing, plan))
        /\ excused' = excused \cup ({state.model.key} \ {None})
        /\ pc = "readback" /\ plan.key \in listing.keys
    BY DEF ReadBack, KeyShown, Return
  <1>2. plan \in Model /\ plan.keyID = plan.key
    BY <1>1 DEF IInv, Shape, TypeOK, HandsAreEmpty
  <1>3. AccountToModel(listing, plan) \in Model
    BY <1>2, AccountToModelEffect DEF IInv, Shape, TypeOK
  <1>4. excused' \subseteq Keys
    BY <1>1 DEF IInv, Shape, TypeOK, Model
  <1>5. Shape'
    BY <1>1, <1>3, <1>4, InStateType, ShapeTypes, ReturnShape
  <1>6. \A k \in Keys : k >= nextKey => k # plan.keyID /\ k # plan.key
    BY DEF IInv, KeysAreFresh
  <1>7. QED
    BY <1>1, <1>2, <1>5, <1>6, ReadIInv

\* Register, from Create with a new account or from Renew with the one there is.
LEMMA RegisterStep ==
  ASSUME IInv, NEW acc \in Accounts, acc.live, acc = account \/ acc.keys = {},
         ValidTTL(plan.ttl), pc \in {"create", "renew"}, Register(acc),
         UNCHANGED <<lag, now, config, state, events>>
  PROVE  IInv'
  <1> USE NumberTypes
  <1>1. /\ nextKey \in Keys /\ replace = FALSE /\ plan \in Model /\ excused \subseteq Keys
        /\ plan.key = None /\ plan.keyID = None /\ plan.exp = None
    BY DEF IInv, Shape, TypeOK, HandsAreEmpty, RoomForKey, KeysLeft, Keys
  <1>2. now + plan.ttl \in Times /\ now + plan.ttl # None
    BY <1>1 DEF ValidTTL, IInv, Shape, TypeOK, Times, None, Model
  <1>3. /\ account' \in Accounts /\ account'.live /\ account'.role = acc.role
        /\ account'.keys = acc.keys \cup {nextKey}
    BY <1>1 DEF Register, Accounts
  <1>4. expiry' \in [Keys -> Times] /\ expiry' = [expiry EXCEPT ![nextKey] = now + plan.ttl]
    BY <1>1, <1>2 DEF Register, IInv, Shape, TypeOK
  <1>5. nextKey' = nextKey + 1 /\ nextKey' \in 1 .. MaxKeys + 1
    BY <1>1 DEF Register, Keys
  <1>6. \/ pc' = "readback" /\ plan' = WithKey(plan, nextKey) /\ UNCHANGED <<replace, excused>>
        \/ Return /\ excused' = excused \cup {nextKey}
    BY DEF Register
  <1>7. Shape' /\ (plan'.key = nextKey \/ nextKey \in excused') /\ excused \subseteq excused'
        /\ plan'.key \in {None, nextKey} /\ plan'.keyID \in {None, nextKey}
    <2>1. CASE pc' = "readback" /\ plan' = WithKey(plan, nextKey) /\ UNCHANGED <<replace, excused>>
      <3>1. /\ plan' \in Model /\ plan'.key = nextKey /\ plan'.keyID = nextKey
            /\ plan'.exp = None
        BY <1>1, <2>1, WithKeyEffect
      <3>2. TypeOK'
        BY <1>3, <1>4, <1>5, <2>1, <3>1 DEF IInv, Shape, TypeOK
      <3>3. HandsAreEmpty' /\ RoomForKey'
        BY <1>1, <2>1, <3>1 DEF IInv, Shape, HandsAreEmpty, RoomForKey
      <3>4. QED
        BY <2>1, <3>1, <3>2, <3>3 DEF Shape
    <2>2. CASE Return /\ excused' = excused \cup {nextKey}
      <3>1. Shape'
        BY <1>1, <1>3, <1>4, <1>5, <2>2, ShapeTypes, ReturnShape
      <3>2. plan' = Blank
        BY <2>2 DEF Return
      <3>3. QED
        BY <2>2, <3>1, <3>2, BlankIsModel
    <2>3. QED
      BY <1>6, <2>1, <2>2
  <1> HIDE DEF IInv
  <1>8. QED
    BY <1>1, <1>2, <1>3, <1>4, <1>5, <1>7, RegisterIInv

LEMMA CreateIInv == ASSUME IInv, Create PROVE IInv'
  <1>1. pc = "create" /\ plan.key = None /\ UNCHANGED <<lag, now, config, state, events>>
    BY DEF Create, IInv, Shape, HandsAreEmpty
  <1>2. CASE ~ValidTTL(plan.ttl) \/ account.live
    BY <1>1, <1>2, GiveUpIInv DEF Create, IInv, Shape, TypeOK
  <1>3. CASE ValidTTL(plan.ttl) /\ ~account.live
    <2> DEFINE acc == [live |-> TRUE, role |-> GrantedRole, keys |-> {}]
    <2>1. GrantedRole \in Roles
      BY RolesAssumption DEF GrantedRole, IInv, Shape, TypeOK, Model
    <2>2. acc \in Accounts /\ acc.live /\ acc.keys = {}
      BY <2>1 DEF Accounts
    <2>3. Register(acc)
      BY <1>3 DEF Create
    <2> HIDE DEF acc
    <2>4. QED
      BY <1>1, <1>3, <2>2, <2>3, RegisterStep
  <1>4. QED
    BY <1>2, <1>3

LEMMA RenewIInv == ASSUME IInv, Renew PROVE IInv'
  <1>1. pc = "renew" /\ plan.key = None /\ UNCHANGED <<lag, now, config, state, events>>
    BY DEF Renew, IInv, Shape, HandsAreEmpty
  <1>2. CASE ~ValidTTL(plan.ttl) \/ ~account.live
    BY <1>1, <1>2, GiveUpIInv DEF Renew, IInv, Shape, TypeOK
  <1>3. CASE ValidTTL(plan.ttl) /\ account.live
    <2>1. Register(account) /\ account \in Accounts
      BY <1>3 DEF Renew, IInv, Shape, TypeOK
    <2>2. QED
      BY <1>1, <1>3, <2>1, RegisterStep
  <1>4. QED
    BY <1>2, <1>3

LEMMA DeleteIInv == ASSUME IInv, Delete PROVE IInv'
  <1>1. /\ account' = NoAccount /\ state' = NotInState /\ replace' = FALSE
        /\ UNCHANGED <<expiry, nextKey, lag, now, config, excused, events>>
        /\ \/ replace /\ pc' = "create" /\ plan' = plan
           \/ pc' = "idle" /\ plan' = Blank
        /\ plan.key = None /\ plan.keyID = None /\ plan.exp = None
    BY DEF Delete, IInv, Shape, HandsAreEmpty
  <1>2. TypeOK'
    BY <1>1, NoAccountIsAccount, NotInStateType, BlankIsModel DEF IInv, Shape, TypeOK
  <1>3. HandsAreEmpty' /\ RoomForKey'
    BY <1>1, NotInStateType, BlankIsModel
       DEF IInv, Shape, TypeOK, HandsAreEmpty, RoomForKey, KeysLeft
  <1>4. QED
    BY <1>1, <1>2, <1>3, NoAccountIsAccount, FewerKeysIInv DEF Shape

LEMMA DeleteUnansweredIInv == ASSUME IInv, DeleteUnanswered PROVE IInv'
  <1>1. /\ account' = NoAccount /\ Return /\ plan' = Blank
        /\ UNCHANGED <<expiry, nextKey, lag, now, config, state, excused, events>>
        /\ plan.key = None
    BY DEF DeleteUnanswered, Return, IInv, Shape, HandsAreEmpty
  <1>2. Shape'
    BY <1>1, NoAccountIsAccount, ShapeTypes, ReturnShape
  <1>3. QED
    BY <1>1, <1>2, FewerKeysIInv

LEMMA ControllerIInv == ASSUME IInv, Observe \/ Publish PROVE IInv'
  <1>1. /\ UNCHANGED <<remote, now, config, state, pc, replace, plan, excused, events>>
        /\ \/ observed' = account /\ listing' = listing
           \/ observed' = observed /\ listing' = observed
    BY DEF Observe, Publish
  <1>2. Shape'
    BY <1>1, ShapeTypes, OutsideShape
  <1>3. KeysAreFresh'
    BY <1>1 DEF IInv, KeysAreFresh
  <1>4. ViewsAgree'
    BY <1>1 DEF IInv, ViewsAgree
  <1>5. HeldKeyIsListed'
    BY <1>1 DEF IInv, HeldKeyIsListed, ViewsAgree
  <1>6. HeldKeyIsNamed' /\ ExpirationDescribesKey' /\ RoleOfHeldKey' /\ IssuedKeysAccountedFor'
    BY <1>1
       DEF IInv, HeldKeyIsNamed, ExpirationDescribesKey, RoleOfHeldKey, IssuedKeysAccountedFor
  <1>7. QED
    BY <1>2, <1>3, <1>4, <1>5, <1>6 DEF IInv

LEMMA RemoveExpiredKeyIInv == ASSUME IInv, RemoveExpiredKey PROVE IInv'
  <1>1. PICK k \in account.keys :
          /\ account' = [account EXCEPT !.keys = @ \ {k}]
          /\ UNCHANGED <<expiry, nextKey, lag, now, config, state, pc, replace, plan, excused, events>>
    BY DEF RemoveExpiredKey
  <1>2. /\ account' \in Accounts /\ account'.role = account.role
        /\ account'.live = account.live /\ account'.keys \subseteq account.keys
    BY <1>1 DEF IInv, Shape, TypeOK, Accounts
  <1>3. Shape'
    BY <1>1, <1>2, ShapeTypes, OutsideShape
  <1>4. account'.keys # {} => account'.live
    BY <1>2 DEF IInv, ViewsAgree
  <1>5. QED
    BY <1>1, <1>2, <1>3, <1>4, FewerKeysIInv

LEMMA OthersRegisterIInv ==
  ASSUME IInv, Happens, NEW acc \in Accounts, acc.live, acc = account \/ acc.keys = {},
         OthersRegister(acc), UNCHANGED <<lag, now, config, state, pc, replace, plan>>
  PROVE  IInv'
  <1> USE NumberTypes
  <1>1. PICK ttl \in 1 .. MaxTTL : expiry' = [expiry EXCEPT ![nextKey] = now + ttl]
    BY DEF OthersRegister
  <1>2. nextKey \in Keys /\ Reserved \in {0, 1} /\ events' \in 0 .. MaxEvents
    BY NumbersAssumption DEF OthersRegister, Reserved, Happens, IInv, Shape, TypeOK, Keys
  <1>3. now + ttl \in Times /\ now + ttl # None
    BY DEF IInv, Shape, TypeOK, Times, None
  <1>4. /\ account' \in Accounts /\ account'.live /\ account'.role = acc.role
        /\ account'.keys = acc.keys \cup {nextKey}
    BY <1>2 DEF OthersRegister, Accounts
  <1>5. expiry' \in [Keys -> Times]
    BY <1>1, <1>2, <1>3 DEF IInv, Shape, TypeOK
  <1>6. /\ nextKey + Reserved <= MaxKeys /\ nextKey' = nextKey + 1 /\ nextKey' \in 1 .. MaxKeys + 1
        /\ excused' = excused \cup {nextKey} /\ excused' \subseteq Keys
    BY <1>2 DEF OthersRegister, Keys, IInv, Shape, TypeOK
  <1>7. Shape'
    BY <1>2, <1>4, <1>5, <1>6, ShapeTypes, OutsideShape
  <1>8. QED
    BY <1>1, <1>2, <1>3, <1>4, <1>6, <1>7, RegisterIInv

LEMMA OthersIInv == ASSUME IInv, Others PROVE IInv'
  <1>1. Happens /\ UNCHANGED <<lag, now, config, state, pc, replace, plan>>
    BY DEF Others
  <1>2. CASE account.live /\ OthersRegister(account)
    BY <1>1, <1>2, OthersRegisterIInv DEF IInv, Shape, TypeOK
  <1>3. CASE \E r \in Roles : OthersRegister([live |-> TRUE, role |-> r, keys |-> {}])
    <2>1. PICK r \in Roles : OthersRegister([live |-> TRUE, role |-> r, keys |-> {}])
      BY <1>3
    <2> DEFINE acc == [live |-> TRUE, role |-> r, keys |-> {}]
    <2>2. acc \in Accounts /\ acc.live /\ acc.keys = {} /\ OthersRegister(acc)
      BY <2>1 DEF Accounts
    <2> HIDE DEF acc
    <2>3. QED
      BY <1>1, <2>2, OthersRegisterIInv
  <1>4. CASE account' = NoAccount /\ UNCHANGED <<expiry, nextKey, excused>>
    <2>1. events' \in 0 .. MaxEvents
      BY <1>1, NumbersAssumption DEF Happens, IInv, Shape, TypeOK
    <2>2. Shape'
      BY <1>1, <1>4, <2>1, NoAccountIsAccount, ShapeTypes, OutsideShape
    <2>3. QED
      BY <1>1, <1>4, <2>2, FewerKeysIInv
  <1>5. QED
    BY <1>2, <1>3, <1>4 DEF Others

LEMMA InitIInv == ASSUME Init PROVE IInv
  <1> USE NumberTypes, BlankIsModel, NoAccountIsAccount DEF Init, NotInState
  <1>1. KeysAreFresh
    BY DEF KeysAreFresh, Keys
  <1>2. ViewsAgree /\ HeldKeyIsListed
    BY DEF ViewsAgree, HeldKeyIsListed
  <1>3. HeldKeyIsNamed /\ ExpirationDescribesKey /\ RoleOfHeldKey /\ IssuedKeysAccountedFor
    BY DEF HeldKeyIsNamed, ExpirationDescribesKey, RoleOfHeldKey, IssuedKeysAccountedFor
  <1>4. QED
    BY <1>1, <1>2, <1>3, InitShape DEF IInv

LEMMA StutterIInv == ASSUME IInv, UNCHANGED vars PROVE IInv'
  <1>1. UNCHANGED <<remote, lag, now, config, state, pc, replace, plan, excused, events>>
    BY DEF vars
  <1>2. Shape'
    BY <1>1, ShapeTypes, OutsideShape
  <1>3. QED
    BY <1>1, <1>2, QuietIInv

LEMMA NextIInv == ASSUME IInv, [Next]_vars PROVE IInv'
  BY StutterIInv, EditIInv, RefreshIInv, ImportIInv, StartIInv, CreateIInv, RenewIInv, ReadBackIInv,
     FailIInv, DeleteIInv, DeleteUnansweredIInv, ControllerIInv, TickIInv, RemoveExpiredKeyIInv,
     OthersIInv
     DEF Next, Core, Handler

\* The invariant of the whole specification.
THEOREM Invariance == Spec => []IInv
  BY InitIInv, NextIInv, PTL DEF Spec

\* Every variable keeps its type.
THEOREM Typing == Spec => []TypeOK
  <1>1. IInv => TypeOK
    BY DEF IInv, Shape
  <1>2. QED
    BY <1>1, Invariance, PTL

\* public_key_id names the key that is held, whoever renews, expires or destroys.
THEOREM HeldKeyNamed == Spec => []HeldKeyIsNamed
  <1>1. IInv => HeldKeyIsNamed
    BY DEF IInv
  <1>2. QED
    BY <1>1, Invariance, PTL

\* expiration is that of the key named, never of another.
THEOREM ExpirationIsOfTheKey == Spec => []ExpirationDescribesKey
  <1>1. IInv => ExpirationDescribesKey
    BY DEF IInv
  <1>2. QED
    BY <1>1, Invariance, PTL

\* The role in the state is the one a working key gives, however far the listing lags.
THEOREM RoleIsOfTheKey == Spec => []RoleOfHeldKey
  <1>1. IInv => RoleOfHeldKey
    BY DEF IInv
  <1>2. QED
    BY <1>1, Invariance, PTL

\* No key that works is lost without a failure being reported.
THEOREM NoKeySilentlyLost == Spec => []IssuedKeysAccountedFor
  <1>1. IInv => IssuedKeysAccountedFor
    BY DEF IInv
  <1>2. QED
    BY <1>1, Invariance, PTL

\* A step that takes the resource out of the state finds its key not working, or ends it:
\* a refresh because every view shows a working key, a deletion because it destroys.
LEMMA DropStep ==
  ASSUME IInv, [Next]_vars, state.model.key \in account.keys, ~state'.present
  PROVE  ~account'.live
  <1>1. state.present
    <2>1. account.keys \subseteq Keys
      BY ShapeTypes DEF Accounts
    <2>2. QED
      BY <2>1, ShapeTypes, BlankIsModel, NumberTypes
  <1>2. state' # state
    BY <1>1
  <1>3. listing.live
    BY DEF IInv, HeldKeyIsListed, ViewsAgree
  <1>4. \/ account' = NoAccount
        \/ state' = InState(AccountToModel(listing, state.model))
        \/ state' = InState(AccountToModel(listing, Blank))
        \/ state' = InState(AccountToModel(listing, plan))
    <2>1. CASE Core
      BY <1>2, <1>3, <2>1 DEF Core, EditConfig, Refresh, Import, StartCreate, StartUpdate, StartReplace,
                              StartDestroy
    <2>2. CASE Handler
      BY <1>2, <2>2 DEF Handler, Create, Renew, ReadBack, ReadBackFails, Delete
    <2>3. CASE DeleteUnanswered \/ Unreachable \/ Observe \/ Publish \/ Tick \/ RemoveExpiredKey \/ Others
      BY <1>2, <2>3 DEF DeleteUnanswered, Unreachable, Observe, Publish, Tick, RemoveExpiredKey, Others
    <2>4. QED
      BY <1>2, <2>1, <2>2, <2>3 DEF Next, vars
  <1>5. account' = NoAccount
    BY <1>4 DEF InState
  <1>6. QED
    BY <1>5, NoAccountIsAccount

\* A resource whose key works leaves the state only with its account.
THEOREM WorkingKeyRemembered == Spec => LiveKeyNotForgotten
  <1>1. IInv /\ [Next]_vars =>
          [state.model.key \in account.keys /\ ~state'.present => ~account'.live]_vars
    BY DropStep
  <1>2. QED
    BY <1>1, Invariance, PTL DEF Spec, LiveKeyNotForgotten

\* A create or renew that ends with success has just seen its key in the listing.
LEMMA SuccessStep ==
  ASSUME IInv, [Next]_vars, pc = "readback", state' # state, ~Refresh, ~Import
  PROVE  ReadBack
  <1>1. CASE Core
    BY <1>1 DEF Core, EditConfig, StartCreate, StartUpdate, StartReplace, StartDestroy
  <1>2. CASE Handler
    BY <1>2 DEF Handler, Create, Renew, ReadBackFails, Delete
  <1>3. CASE DeleteUnanswered \/ Unreachable \/ Observe \/ Publish \/ Tick \/ RemoveExpiredKey \/ Others
    BY <1>3 DEF DeleteUnanswered, Unreachable, Observe, Publish, Tick, RemoveExpiredKey, Others
  <1>4. QED
    BY <1>1, <1>2, <1>3 DEF Next, vars

LEMMA KeyInHandExpires == ASSUME IInv, plan.key \in Keys PROVE expiry[plan.key] # None
  <1>1. PICK k \in Keys : k = plan.key
    OBVIOUS
  <1>2. ~(k >= nextKey)
    BY <1>1 DEF IInv, KeysAreFresh
  <1>3. k < nextKey
    BY <1>2, ShapeTypes, NumberTypes
  <1>4. expiry[k] # None
    BY <1>3 DEF IInv, KeysAreFresh
  <1>5. QED
    BY <1>1, <1>4

\* A create or renew that succeeds knows when its key expires and which role it has.
THEOREM SuccessKnowsItsKey == Spec => ApplyKnowsItsKey
  <1> DEFINE Knows == /\ state'.model.key = plan.key
                      /\ state'.model.exp = expiry[plan.key] /\ state'.model.exp # None
                      /\ state'.model.role \in Roles
  <1>1. ASSUME IInv, [Next]_vars, pc = "readback", state' # state PROVE Knows
    <2>1. ~Refresh /\ ~Import
      BY <1>1 DEF Refresh, Import, Idle
    <2>2. ReadBack
      BY <1>1, <2>1, SuccessStep
    <2>3. /\ state'.model = AccountToModel(listing, plan)
          /\ plan.key \in listing.keys /\ plan.keyID = plan.key /\ plan.key # None
      BY <1>1, <2>2 DEF ReadBack, KeyShown, InState, IInv, Shape, HandsAreEmpty
    <2>4. plan \in Model /\ listing \in Accounts /\ expiry \in [Keys -> Times]
      BY <1>1 DEF IInv, Shape, TypeOK
    <2>5. /\ AccountToModel(listing, plan).key = plan.key
          /\ AccountToModel(listing, plan).exp = expiry[plan.key]
          /\ AccountToModel(listing, plan).role = listing.role
      BY <2>3, <2>4, AccountToModelEffect
    <2>6. plan.key \in Keys
      BY <2>3, <2>4 DEF Accounts
    <2>7. expiry[plan.key] # None
      BY <1>1, <2>6, KeyInHandExpires
    <2>8. QED
      BY <2>3, <2>4, <2>5, <2>7 DEF Accounts
  <1>2. IInv /\ [Next]_vars => [pc = "readback" /\ state' # state => Knows]_vars
    BY <1>1
  <1>3. QED
    BY <1>2, Invariance, PTL DEF Spec, ApplyKnowsItsKey

================================================================================
