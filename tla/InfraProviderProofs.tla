-------------------------- MODULE InfraProviderProofs --------------------------
(***************************************************************************)
(* For every set of workspaces, every number of events, and numbers of     *)
(* lives and keys that do not run out: the types and the safety properties *)
(* of InfraProvider.                                                       *)
(***************************************************************************)
EXTENDS InfraProvider, FiniteSetTheorems, TLAPS

\* An account that is gone has no keys.
DeadAccountIsEmpty == ~account.live => account.keys = {}

\* A resource in the state is of a life.
StateNamesALife == \A w \in Workspaces : state[w].present => state[w].life # None

\* Terraform creates what is not in the state, renews and deletes what is.
HandlersFit ==
  \A w \in Workspaces :
    /\ pc[w] \in {"create", "register", "rollback", "undo"} => ~state[w].present
    /\ pc[w] \in {"renew", "delete", "destroy"} => state[w].present

\* Each key of the account but the first, and each renewal that runs, has cost an event.
Renewing == {w \in Workspaces : pc[w] = "renew"}
KeysAreCounted == /\ IsFiniteSet(account.keys)
                  /\ Cardinality(Renewing) <= events
                  /\ Cardinality(account.keys) + Cardinality(Renewing) <= events + 1

IInv == /\ TypeOK /\ DeadAccountIsEmpty /\ StateNamesALife /\ HandlersFit /\ KeysAreCounted
        /\ HeldKeyOpens /\ NoSilentOrphan

--------------------------------------------------------------------------------
(* Numbers do not run out *)

\* A function has at most one value for each member of a finite set.
LEMMA ImageIsSmall ==
  ASSUME NEW S, IsFiniteSet(S), NEW f
  PROVE  LET T == {f[x] : x \in S} IN IsFiniteSet(T) /\ Cardinality(T) <= Cardinality(S)
  <1> DEFINE T == {f[x] : x \in S}
             g == [x \in S |-> f[x]]
  <1>1. g \in Surjection(S, T)
    BY DEF Surjection
  <1>2. QED
    BY <1>1, FS_Surjection, Zenon

\* So has a union at most as many members as its parts together.
LEMMA UnionIsSmall ==
  ASSUME NEW S, IsFiniteSet(S), NEW T, IsFiniteSet(T)
  PROVE  IsFiniteSet(S \cup T) /\ Cardinality(S \cup T) <= Cardinality(S) + Cardinality(T)
  <1>1. IsFiniteSet(S \cup T) /\ IsFiniteSet(S \cap T)
        /\ Cardinality(S \cup T) = Cardinality(S) + Cardinality(T) - Cardinality(S \cap T)
    BY FS_Union, FS_Intersection
  <1>2. Cardinality(S) \in Nat /\ Cardinality(T) \in Nat /\ Cardinality(S \cap T) \in Nat
    BY <1>1, FS_CardinalityType
  <1>3. QED
    BY <1>1, <1>2

\* A set that is larger than another has a member of its own.
LEMMA LargerHasAnother ==
  ASSUME NEW S, IsFiniteSet(S), NEW T, IsFiniteSet(T), Cardinality(T) < Cardinality(S)
  PROVE  \E n \in S : n \notin T
  <1> SUFFICES ASSUME S \in SUBSET T PROVE FALSE
    OBVIOUS
  <1>1. Cardinality(S) <= Cardinality(T)
    BY FS_Subset
  <1>2. Cardinality(S) \in Nat /\ Cardinality(T) \in Nat
    BY FS_CardinalityType
  <1>3. QED
    BY <1>1, <1>2

\* There is a number for one more life: NewLife is a life, and nothing refers to it.
LEMMA NewLifeIsNew == NewLife \in Lives /\ NewLife \notin LivesInUse
  <1> DEFINE M == {made[w] : w \in Workspaces}
             L == {state[w].life : w \in Workspaces}
             lives == [w \in Workspaces |-> state[w].life]
  <1>1. IsFiniteSet({provider}) /\ Cardinality({provider}) = 1
    BY FS_Singleton
  <1>2. IsFiniteSet(M) /\ Cardinality(M) <= Cardinality(Workspaces)
    BY ImageIsSmall, EnoughNumbersAssumption
  <1>3. IsFiniteSet(L) /\ Cardinality(L) <= Cardinality(Workspaces)
    <2>1. L = {lives[w] : w \in Workspaces}
      OBVIOUS
    <2>2. LET T == {lives[w] : w \in Workspaces}
          IN  IsFiniteSet(T) /\ Cardinality(T) <= Cardinality(Workspaces)
      <3> HIDE DEF lives
      <3> QED
        BY ImageIsSmall, EnoughNumbersAssumption
    <2>3. QED
      BY <2>1, <2>2
  <1>4. IsFiniteSet({provider} \cup M) /\ Cardinality({provider} \cup M) <= 1 + Cardinality(M)
    BY <1>1, <1>2, UnionIsSmall
  <1>5. /\ IsFiniteSet(LivesInUse)
        /\ Cardinality(LivesInUse) <= Cardinality({provider} \cup M) + Cardinality(L)
    BY <1>3, <1>4, UnionIsSmall DEF LivesInUse
  <1>6. /\ Cardinality(Workspaces) \in Nat /\ Cardinality(M) \in Nat /\ Cardinality(L) \in Nat
        /\ Cardinality({provider} \cup M) \in Nat /\ Cardinality(LivesInUse) \in Nat
        /\ Cardinality(Lives) \in Nat
    BY <1>2, <1>3, <1>4, <1>5, EnoughNumbersAssumption, FS_CardinalityType
  <1>7. Cardinality(LivesInUse) < Cardinality(Lives)
    <2> HIDE DEF M, L
    <2> QED
      BY <1>2, <1>3, <1>4, <1>5, <1>6, EnoughNumbersAssumption
  <1>8. \E n \in Lives : n \notin LivesInUse
    BY <1>5, <1>7, EnoughNumbersAssumption, LargerHasAnother
  <1>9. QED
    BY <1>8 DEF NewLife

\* There is a number for one more key, as long as the account has no more keys than events may
\* happen: NewKey is a key, and neither the account nor a state has it.
LEMMA NewKeyIsNew ==
  ASSUME IsFiniteSet(account.keys), Cardinality(account.keys) <= MaxEvents
  PROVE  NewKey \in Keys /\ NewKey \notin KeysInUse
  <1> DEFINE K == {state[w].key : w \in Workspaces}
             keys == [w \in Workspaces |-> state[w].key]
  <1>1. IsFiniteSet(K) /\ Cardinality(K) <= Cardinality(Workspaces)
    <2>1. K = {keys[w] : w \in Workspaces}
      OBVIOUS
    <2>2. LET T == {keys[w] : w \in Workspaces}
          IN  IsFiniteSet(T) /\ Cardinality(T) <= Cardinality(Workspaces)
      <3> HIDE DEF keys
      <3> QED
        BY ImageIsSmall, EnoughNumbersAssumption
    <2>3. QED
      BY <2>1, <2>2
  <1>2. /\ IsFiniteSet(KeysInUse)
        /\ Cardinality(KeysInUse) <= Cardinality(account.keys) + Cardinality(K)
    BY <1>1, UnionIsSmall DEF KeysInUse
  <1>3. /\ Cardinality(Workspaces) \in Nat /\ Cardinality(K) \in Nat /\ Cardinality(Keys) \in Nat
        /\ Cardinality(account.keys) \in Nat /\ Cardinality(KeysInUse) \in Nat
    BY <1>1, <1>2, EnoughNumbersAssumption, FS_CardinalityType
  <1>4. Cardinality(KeysInUse) < Cardinality(Keys)
    <2> HIDE DEF K
    <2> QED
      BY <1>1, <1>2, <1>3, EnoughNumbersAssumption, NumbersAssumption
  <1>5. \E n \in Keys : n \notin KeysInUse
    BY <1>2, <1>4, EnoughNumbersAssumption, LargerHasAnother
  <1>6. QED
    BY <1>5 DEF NewKey

--------------------------------------------------------------------------------
(* What the steps have in common *)

LEMMA InitHolds == Init => IInv
  <1> SUFFICES ASSUME Init PROVE IInv
    OBVIOUS
  <1>1. TypeOK
    <2>1. events \in 0 .. MaxEvents
      BY NumbersAssumption DEF Init
    <2>2. account \in [live : BOOLEAN, keys : SUBSET Keys] /\ reported \in BOOLEAN
      BY DEF Init, NoAccount
    <2>3. QED
      BY <2>1, <2>2 DEF Init, TypeOK, NotInState, None, Half
  <1>2. DeadAccountIsEmpty /\ StateNamesALife /\ HandlersFit
    BY DEF Init, DeadAccountIsEmpty, StateNamesALife, HandlersFit, NoAccount, NotInState
  <1>3. KeysAreCounted
    <2>1. Renewing = {} /\ account.keys = {} /\ events = 0
      BY DEF Init, Renewing, NoAccount
    <2>2. QED
      BY <2>1, FS_EmptySet DEF KeysAreCounted
  <1>4. HeldKeyOpens /\ NoSilentOrphan
    BY DEF Init, HeldKeyOpens, NoSilentOrphan, NotInState
  <1>5. QED
    BY <1>1, <1>2, <1>3, <1>4 DEF IInv

\* The renewals that run, and the keys, have a number.
LEMMA Counts ==
  ASSUME IInv
  PROVE  /\ IsFiniteSet(Renewing) /\ Cardinality(Renewing) \in Nat
         /\ IsFiniteSet(account.keys) /\ Cardinality(account.keys) \in Nat
         /\ events \in Nat /\ events <= MaxEvents
  <1>1. Renewing \in SUBSET Workspaces
    BY DEF Renewing
  <1>2. IsFiniteSet(Renewing)
    BY <1>1, FS_Subset, EnoughNumbersAssumption
  <1>3. QED
    BY <1>2, FS_CardinalityType, NumbersAssumption DEF IInv, KeysAreCounted, TypeOK

\* Whoever goes on to another call than a renewal leaves the renewals, if he was there.
LEMMA LeavingRenewals ==
  ASSUME IInv, NEW w \in Workspaces, NEW q, q # "renew", Goto(w, q)
  PROVE  /\ IsFiniteSet(Renewing') /\ Cardinality(Renewing') \in Nat
         /\ Cardinality(Renewing') <= Cardinality(Renewing)
         /\ pc[w] = "renew" => Cardinality(Renewing') = Cardinality(Renewing) - 1
  <1>1. Renewing' = Renewing \ {w}
    BY DEF Renewing, Goto, IInv, TypeOK
  <1>2. pc[w] = "renew" <=> w \in Renewing
    BY DEF Renewing
  <1>3. /\ IsFiniteSet(Renewing \ {w})
        /\ Cardinality(Renewing \ {w}) =
             IF w \in Renewing THEN Cardinality(Renewing) - 1 ELSE Cardinality(Renewing)
    BY Counts, FS_RemoveElement
  <1>4. Cardinality(Renewing \ {w}) \in Nat
    BY <1>3, FS_CardinalityType
  <1>5. QED
    BY <1>1, <1>2, <1>3, <1>4, Counts

\* Such a step, if the account gets no key by it.
LEMMA CountsKept ==
  ASSUME IInv, NEW w \in Workspaces, NEW q, q # "renew", Goto(w, q),
         account'.keys \in {account.keys, {}}, events' = events \/ Happens
  PROVE  KeysAreCounted'
  <1>1. IsFiniteSet(account'.keys) /\ Cardinality(account'.keys) <= Cardinality(account.keys)
    <2>1. IsFiniteSet({}) /\ Cardinality({}) = 0
      BY FS_EmptySet
    <2>2. QED
      BY <2>1, Counts
  <1>2. Cardinality(account'.keys) \in Nat
    BY <1>1, FS_CardinalityType
  <1>3. QED
    BY <1>1, <1>2, Counts, LeavingRenewals DEF IInv, KeysAreCounted, Happens

\* Such a step, if it makes the account, with one key.
LEMMA FirstKeyCounts ==
  ASSUME IInv, NEW w \in Workspaces, NEW q, q # "renew", Goto(w, q),
         account' = NewAccount, events' = events \/ Happens
  PROVE  KeysAreCounted'
  <1>1. IsFiniteSet(account'.keys) /\ Cardinality(account'.keys) = 1
    BY FS_Singleton DEF NewAccount
  <1>2. QED
    BY <1>1, Counts, LeavingRenewals DEF IInv, KeysAreCounted, Happens

\* The end of a renewal that has added a key.
LEMMA RenewedKeyCounts ==
  ASSUME IInv, NEW w \in Workspaces, pc[w] = "renew", Goto(w, "idle"),
         account' = WithNewKey, events' = events \/ Happens
  PROVE  KeysAreCounted'
  <1>1. account'.keys = account.keys \cup {NewKey}
    BY DEF IInv, TypeOK, WithNewKey
  <1>2. IsFiniteSet(account'.keys) /\ Cardinality(account'.keys) <= Cardinality(account.keys) + 1
    <2>1. /\ IsFiniteSet(account.keys \cup {NewKey})
          /\ Cardinality(account.keys \cup {NewKey}) =
               IF NewKey \in account.keys THEN Cardinality(account.keys)
                                          ELSE Cardinality(account.keys) + 1
      BY Counts, FS_AddElement
    <2>2. QED
      BY <1>1, <2>1, Counts
  <1>3. Cardinality(account'.keys) \in Nat
    BY <1>2, FS_CardinalityType
  <1>4. Cardinality(Renewing') = Cardinality(Renewing) - 1 /\ Cardinality(Renewing') \in Nat
    BY LeavingRenewals
  <1>5. QED
    BY <1>2, <1>3, <1>4, Counts DEF IInv, KeysAreCounted, Happens

\* There is a key for a renewal that runs, and for an account that is not there.
LEMMA KeyForRenewal ==
  ASSUME IInv, NEW w \in Workspaces, pc[w] = "renew" \/ ~account.live
  PROVE  NewKey \in Keys /\ NewKey \notin KeysInUse
  <1>1. CASE pc[w] = "renew"
    <2>1. Renewing # {}
      BY <1>1 DEF Renewing
    <2>2. Cardinality(Renewing) # 0
      BY <2>1, Counts, FS_EmptySet
    <2>3. Cardinality(account.keys) <= MaxEvents
      BY <2>2, Counts, NumbersAssumption DEF IInv, KeysAreCounted
    <2>4. QED
      BY <2>3, Counts, NewKeyIsNew
  <1>2. CASE ~account.live
    <2>1. account.keys = {}
      BY <1>2 DEF IInv, DeadAccountIsEmpty
    <2>2. Cardinality(account.keys) <= MaxEvents
      BY <2>1, FS_EmptySet, NumbersAssumption
    <2>3. QED
      BY <2>2, Counts, NewKeyIsNew
  <1>3. QED
    BY <1>1, <1>2

--------------------------------------------------------------------------------
(* Terraform core *)

\* One more event is within the bound.
LEMMA EventsInBound == ASSUME IInv, events' = events \/ Happens PROVE events' \in 0 .. MaxEvents
  BY NumbersAssumption DEF IInv, TypeOK, Happens

LEMMA RefreshKeeps == ASSUME IInv, NEW w \in Workspaces, Refresh(w) PROVE IInv'
  <1>1. TypeOK'
    BY EventsInBound DEF IInv, TypeOK, Refresh, SetState, NotInState, omni, Half, None
  <1>2. DeadAccountIsEmpty' /\ StateNamesALife' /\ HandlersFit' /\ KeysAreCounted'
    BY DEF IInv, TypeOK, Refresh, SetState, NotInState, omni, DeadAccountIsEmpty, StateNamesALife,
       HandlersFit, KeysAreCounted, Renewing
  <1>3. HeldKeyOpens' /\ NoSilentOrphan'
    BY DEF IInv, TypeOK, Refresh, SetState, NotInState, omni, HeldKeyOpens, NoSilentOrphan
  <1>4. QED
    BY <1>1, <1>2, <1>3 DEF IInv

LEMMA ImportKeeps == ASSUME IInv, NEW w \in Workspaces, Import(w) PROVE IInv'
  <1>1. TypeOK'
    BY EventsInBound DEF IInv, TypeOK, Import, SetState, omni, Half, None
  <1>2. DeadAccountIsEmpty' /\ StateNamesALife' /\ HandlersFit'
    BY DEF IInv, TypeOK, Import, SetState, omni, DeadAccountIsEmpty, StateNamesALife, HandlersFit
  <1>3. KeysAreCounted'
    BY Counts DEF IInv, Import, Happens, omni, KeysAreCounted, Renewing
  <1>4. HeldKeyOpens' /\ NoSilentOrphan'
    BY DEF IInv, TypeOK, Import, SetState, omni, HeldKeyOpens, NoSilentOrphan, Half
  <1>5. QED
    BY <1>1, <1>2, <1>3, <1>4 DEF IInv

LEMMA StartCreateKeeps == ASSUME IInv, NEW w \in Workspaces, StartCreate(w) PROVE IInv'
  <1>1. TypeOK'
    BY EventsInBound DEF IInv, TypeOK, StartCreate, Goto, omni, Half
  <1>2. DeadAccountIsEmpty' /\ StateNamesALife' /\ HandlersFit'
    BY DEF IInv, TypeOK, StartCreate, Goto, omni, DeadAccountIsEmpty, StateNamesALife, HandlersFit
  <1>3. KeysAreCounted'
    BY CountsKept DEF StartCreate, omni
  <1>4. HeldKeyOpens' /\ NoSilentOrphan'
    BY DEF IInv, TypeOK, StartCreate, Goto, omni, HeldKeyOpens, NoSilentOrphan, Half
  <1>5. QED
    BY <1>1, <1>2, <1>3, <1>4 DEF IInv

LEMMA StartRenewKeeps == ASSUME IInv, NEW w \in Workspaces, StartRenew(w) PROVE IInv'
  <1>1. TypeOK'
    BY EventsInBound DEF IInv, TypeOK, StartRenew, Goto, omni, Half
  <1>2. DeadAccountIsEmpty' /\ StateNamesALife' /\ HandlersFit'
    BY DEF IInv, TypeOK, StartRenew, Goto, omni, DeadAccountIsEmpty, StateNamesALife, HandlersFit
  <1>3. KeysAreCounted'
    <2>1. Renewing' = Renewing \cup {w}
      BY DEF IInv, TypeOK, StartRenew, Goto, Renewing
    <2>2. w \notin Renewing
      BY DEF StartRenew, Renewing
    <2>3. Cardinality(Renewing') = Cardinality(Renewing) + 1
      BY <2>1, <2>2, Counts, FS_AddElement
    <2>4. QED
      BY <2>3, Counts DEF IInv, StartRenew, Happens, omni, KeysAreCounted
  <1>4. HeldKeyOpens' /\ NoSilentOrphan'
    BY DEF IInv, TypeOK, StartRenew, Goto, omni, HeldKeyOpens, NoSilentOrphan, Half
  <1>5. QED
    BY <1>1, <1>2, <1>3, <1>4 DEF IInv

LEMMA StartDeleteKeeps == ASSUME IInv, NEW w \in Workspaces, StartDelete(w) PROVE IInv'
  <1>1. TypeOK'
    BY EventsInBound DEF IInv, TypeOK, StartDelete, Goto, omni, Half
  <1>2. DeadAccountIsEmpty' /\ StateNamesALife' /\ HandlersFit'
    BY DEF IInv, TypeOK, StartDelete, Goto, omni, DeadAccountIsEmpty, StateNamesALife, HandlersFit
  <1>3. KeysAreCounted'
    BY CountsKept DEF StartDelete, omni
  <1>4. HeldKeyOpens' /\ NoSilentOrphan'
    BY DEF IInv, TypeOK, StartDelete, Goto, omni, HeldKeyOpens, NoSilentOrphan, Half
  <1>5. QED
    BY <1>1, <1>2, <1>3, <1>4 DEF IInv

--------------------------------------------------------------------------------
(* Create *)

\* A provider that is created is of a life that no state and no creation knows.
LEMMA CreateProviderKeeps == ASSUME IInv, NEW w \in Workspaces, CreateProvider(w) PROVE IInv'
  <1>1. NewLife \in Lives /\ NewLife # None /\ NewLife \notin LivesInUse
    BY NewLifeIsNew, NumbersAssumption DEF None
  <1>2. TypeOK'
    <2>1. provider' \in Lives \cup {None} /\ tearing' \in {None, provider'}
      BY <1>1 DEF IInv, TypeOK, CreateProvider, Taken
    <2>2. /\ pc' \in [Workspaces -> {"idle", "create", "register", "rollback", "undo", "renew",
                                    "delete", "destroy"}]
          /\ made' \in [Workspaces -> Lives \cup {None}] /\ reported' \in BOOLEAN
      BY <1>1, ZenonT(40) DEF IInv, TypeOK, CreateProvider, Return, Goto, None
    <2>3. \A x \in Workspaces : made'[x] # None <=> Half(x)'
      <3>1. \A x \in Workspaces : x # w => made'[x] = made[x] /\ pc'[x] = pc[x]
        BY DEF IInv, TypeOK, CreateProvider, Return, Goto
      <3>2. made'[w] # None <=> Half(w)'
        BY <1>1 DEF IInv, TypeOK, CreateProvider, Return, Goto, Half, None
      <3>3. QED
        BY <3>1, <3>2 DEF IInv, TypeOK, Half
    <2>4. QED
      BY <2>1, <2>2, <2>3 DEF IInv, TypeOK, CreateProvider
  <1>3. DeadAccountIsEmpty' /\ StateNamesALife' /\ HandlersFit'
    <2>1. DeadAccountIsEmpty' /\ StateNamesALife'
      BY DEF IInv, CreateProvider, DeadAccountIsEmpty, StateNamesALife
    <2>2. pc' = [pc EXCEPT ![w] = pc'[w]] /\ pc'[w] \in {"idle", "register"}
      BY DEF IInv, TypeOK, CreateProvider, Return, Goto
    <2>3. ~state[w].present /\ UNCHANGED state
      BY DEF IInv, HandlersFit, CreateProvider
    <2>4. HandlersFit'
      BY <2>2, <2>3 DEF IInv, TypeOK, HandlersFit
    <2>5. QED
      BY <2>1, <2>4
  <1>4. KeysAreCounted'
    BY CountsKept DEF CreateProvider, Return
  <1>5. HeldKeyOpens'
    BY <1>1 DEF IInv, CreateProvider, HeldKeyOpens, LivesInUse
  <1>6. NoSilentOrphan'
    BY DEF IInv, TypeOK, CreateProvider, Return, Goto, NoSilentOrphan, Half, Taken
  <1>7. QED
    BY <1>2, <1>3, <1>4, <1>5, <1>6 DEF IInv

LEMMA CreateUnansweredKeeps == ASSUME IInv, NEW w \in Workspaces, CreateUnanswered(w) PROVE IInv'
  <1>1. NewLife \in Lives /\ NewLife # None /\ NewLife \notin LivesInUse
    BY NewLifeIsNew, NumbersAssumption DEF None
  <1>2. TypeOK'
    <2>1. provider' \in Lives \cup {None} /\ tearing' \in {None, provider'}
      BY <1>1 DEF IInv, TypeOK, CreateUnanswered, Taken
    <2>2. /\ pc' \in [Workspaces -> {"idle", "create", "register", "rollback", "undo", "renew",
                                    "delete", "destroy"}]
          /\ made' \in [Workspaces -> Lives \cup {None}] /\ reported' \in BOOLEAN
      BY <1>1 DEF IInv, TypeOK, CreateUnanswered, Return, Goto, None
    <2>3. \A x \in Workspaces : made'[x] # None <=> Half(x)'
      <3>1. \A x \in Workspaces : x # w => made'[x] = made[x] /\ pc'[x] = pc[x]
        BY DEF IInv, TypeOK, CreateUnanswered, Return, Goto
      <3>2. made'[w] # None <=> Half(w)'
        BY <1>1 DEF IInv, TypeOK, CreateUnanswered, Return, Goto, Half, None
      <3>3. QED
        BY <3>1, <3>2 DEF IInv, TypeOK, Half
    <2>4. QED
      BY <2>1, <2>2, <2>3, EventsInBound DEF IInv, TypeOK, CreateUnanswered
  <1>3. DeadAccountIsEmpty' /\ StateNamesALife' /\ HandlersFit'
    BY DEF IInv, TypeOK, CreateUnanswered, Return, Goto, DeadAccountIsEmpty, StateNamesALife, HandlersFit
  <1>4. KeysAreCounted'
    BY CountsKept DEF CreateUnanswered, Return
  <1>5. HeldKeyOpens' /\ NoSilentOrphan'
    BY <1>1 DEF IInv, CreateUnanswered, HeldKeyOpens, NoSilentOrphan, LivesInUse
  <1>6. QED
    BY <1>2, <1>3, <1>4, <1>5 DEF IInv

\* The account of a provider that is registered is a new one, so no state has a key of it yet.
LEMMA RegisterAccountKeeps == ASSUME IInv, NEW w \in Workspaces, RegisterAccount(w) PROVE IInv'
  <1>1. CASE account.live
    <2>1. TypeOK'
      BY <1>1 DEF IInv, TypeOK, RegisterAccount, Goto, Half
    <2>2. DeadAccountIsEmpty' /\ StateNamesALife' /\ HandlersFit'
      BY <1>1 DEF IInv, TypeOK, RegisterAccount, Goto, DeadAccountIsEmpty, StateNamesALife, HandlersFit
    <2>3. KeysAreCounted'
      BY <1>1, CountsKept DEF RegisterAccount
    <2>4. HeldKeyOpens' /\ NoSilentOrphan'
      BY <1>1 DEF IInv, TypeOK, RegisterAccount, Goto, HeldKeyOpens, NoSilentOrphan, Half
    <2>5. QED
      BY <2>1, <2>2, <2>3, <2>4 DEF IInv
  <1>2. CASE ~account.live
    <2>1. NewKey \in Keys
      BY <1>2, KeyForRenewal
    <2>2. /\ account' = NewAccount /\ Return(w) /\ pc[w] = "register" /\ made[w] # None
          /\ state' = [state EXCEPT ![w] = [present |-> TRUE, key |-> NewKey, life |-> made[w]]]
          /\ UNCHANGED <<provider, tearing, reported, events>>
      BY <1>2 DEF IInv, TypeOK, RegisterAccount, SetState, Half
    <2>3. TypeOK'
      BY <2>1, <2>2 DEF IInv, TypeOK, NewAccount, Return, Goto, Half, None
    <2>4. DeadAccountIsEmpty' /\ StateNamesALife' /\ HandlersFit'
      BY <2>2 DEF IInv, TypeOK, NewAccount, Return, Goto, DeadAccountIsEmpty, StateNamesALife,
         HandlersFit
    <2>5. KeysAreCounted'
      BY <2>2, FirstKeyCounts DEF Return
    <2>6. HeldKeyOpens'
      <3>1. \A x \in Workspaces : ~(state[x].key # None /\ state[x].life = provider /\ tearing = None)
        BY <1>2 DEF IInv, DeadAccountIsEmpty, HeldKeyOpens
      <3>2. state'[w].key \in account'.keys
        BY <2>2 DEF IInv, TypeOK, NewAccount
      <3>3. \A x \in Workspaces : x # w => state'[x] = state[x]
        BY <2>2 DEF IInv, TypeOK
      <3>4. QED
        BY <2>2, <3>1, <3>2, <3>3 DEF HeldKeyOpens
    <2>7. NoSilentOrphan'
      <3>1. state'[w].present /\ state'[w].life = made[w]
        BY <2>2 DEF IInv, TypeOK
      <3>2. \A x \in Workspaces : x # w => /\ state'[x] = state[x] /\ pc'[x] = pc[x]
                                           /\ made'[x] = made[x]
        BY <2>2 DEF IInv, TypeOK, Return, Goto
      <3>3. ~state[w].present
        BY <2>2 DEF IInv, HandlersFit
      <3>4. QED
        BY <2>2, <3>1, <3>2, <3>3 DEF IInv, NoSilentOrphan, Half
    <2>8. QED
      BY <2>3, <2>4, <2>5, <2>6, <2>7 DEF IInv
  <1>3. QED
    BY <1>1, <1>2

LEMMA RegisterUnansweredKeeps ==
  ASSUME IInv, NEW w \in Workspaces, RegisterUnanswered(w) PROVE IInv'
  <1>1. \/ account' = account
        \/ ~account.live /\ account' = NewAccount /\ NewKey \in Keys
    BY KeyForRenewal DEF RegisterUnanswered
  <1>2. /\ Happens /\ pc[w] = "register" /\ Goto(w, "rollback")
        /\ UNCHANGED <<provider, tearing, state, made, reported>>
    BY DEF RegisterUnanswered
  <1>3. TypeOK'
    <2>1. account' \in [live : BOOLEAN, keys : SUBSET Keys]
      <3>1. NewKey \in Keys => NewAccount \in [live : BOOLEAN, keys : SUBSET Keys]
        BY DEF NewAccount
      <3>2. QED
        BY <1>1, <3>1 DEF IInv, TypeOK
    <2>2. QED
      BY <1>2, <2>1, EventsInBound DEF IInv, TypeOK, Goto, Half
  <1>4. DeadAccountIsEmpty' /\ StateNamesALife' /\ HandlersFit'
    BY <1>1, <1>2 DEF IInv, TypeOK, NewAccount, Goto, DeadAccountIsEmpty, StateNamesALife, HandlersFit
  <1>5. KeysAreCounted'
    BY <1>1, <1>2, CountsKept, FirstKeyCounts
  <1>6. HeldKeyOpens' /\ NoSilentOrphan'
    BY <1>1, <1>2 DEF IInv, TypeOK, Goto, DeadAccountIsEmpty, HeldKeyOpens, NoSilentOrphan, Half
  <1>7. QED
    BY <1>3, <1>4, <1>5, <1>6 DEF IInv

\* With no provider there, no key is held of it.
LEMMA KeysAreOfLives ==
  ASSUME IInv PROVE \A x \in Workspaces : state[x].key # None => state[x].life # None
  BY DEF IInv, TypeOK, StateNamesALife, NotInState

LEMMA RollbackKeeps == ASSUME IInv, NEW w \in Workspaces, Rollback(w) PROVE IInv'
  <1>1. TypeOK'
    BY EventsInBound DEF IInv, TypeOK, Rollback, Tears, Goto, Half, None
  <1>2. DeadAccountIsEmpty' /\ StateNamesALife' /\ HandlersFit'
    BY DEF IInv, TypeOK, Rollback, Tears, Goto, DeadAccountIsEmpty, StateNamesALife,
       HandlersFit
  <1>3. KeysAreCounted'
    BY CountsKept DEF Rollback, Tears
  <1>4. HeldKeyOpens' /\ NoSilentOrphan'
    BY KeysAreOfLives DEF IInv, TypeOK, Rollback, Tears, Goto, HeldKeyOpens,
       NoSilentOrphan, Half, None
  <1>5. QED
    BY <1>1, <1>2, <1>3, <1>4 DEF IInv

LEMMA RollbackDestroyKeeps == ASSUME IInv, NEW w \in Workspaces, RollbackDestroy(w) PROVE IInv'
  <1>1. TypeOK'
    BY EventsInBound DEF IInv, TypeOK, RollbackDestroy, Destroys, Return, Goto, Half, None
  <1>2. DeadAccountIsEmpty' /\ StateNamesALife' /\ HandlersFit'
    BY DEF IInv, TypeOK, RollbackDestroy, Destroys, Return, Goto, DeadAccountIsEmpty, StateNamesALife,
       HandlersFit
  <1>3. KeysAreCounted'
    BY CountsKept DEF RollbackDestroy, Destroys, Return
  <1>4. HeldKeyOpens' /\ NoSilentOrphan'
    BY KeysAreOfLives DEF IInv, TypeOK, RollbackDestroy, Destroys, Return, Goto, HeldKeyOpens,
       NoSilentOrphan, Half, None
  <1>5. QED
    BY <1>1, <1>2, <1>3, <1>4 DEF IInv

LEMMA RollbackFailsKeeps == ASSUME IInv, NEW w \in Workspaces, RollbackFails(w) PROVE IInv'
  <1>1. /\ pc[w] \in {"rollback", "undo"} /\ Return(w) /\ Happens
        /\ UNCHANGED <<account, state>> /\ reported' = (provider' # None)
        /\ \/ UNCHANGED <<provider, tearing>>
           \/ provider' = provider /\ tearing' = provider
           \/ provider' = None /\ tearing' = None
    BY DEF RollbackFails, RollbackCallFails, Tears, Destroys
  <1>2. TypeOK'
    <2>1. provider' \in Lives \cup {None} /\ tearing' \in {None, provider'} /\ reported' \in BOOLEAN
      BY <1>1 DEF IInv, TypeOK
    <2>2. QED
      BY <1>1, <2>1, EventsInBound DEF IInv, TypeOK, Return, Goto, Half, None
  <1>3. DeadAccountIsEmpty' /\ StateNamesALife' /\ HandlersFit'
    BY <1>1 DEF IInv, TypeOK, Return, Goto, DeadAccountIsEmpty, StateNamesALife, HandlersFit
  <1>4. KeysAreCounted'
    BY <1>1, CountsKept DEF Return
  <1>5. HeldKeyOpens' /\ NoSilentOrphan'
    BY <1>1, KeysAreOfLives DEF IInv, TypeOK, HeldKeyOpens, NoSilentOrphan
  <1>6. QED
    BY <1>2, <1>3, <1>4, <1>5 DEF IInv

--------------------------------------------------------------------------------
(* Update, Delete, and any of them cut short *)

LEMMA RenewKeeps == ASSUME IInv, NEW w \in Workspaces, Renew(w) PROVE IInv'
  <1>1. NewKey \in Keys
    BY KeyForRenewal DEF Renew
  <1>2. TypeOK'
    BY <1>1 DEF IInv, TypeOK, Renew, WithNewKey, SetState, Return, Goto, Half, HandlersFit
  <1>3. DeadAccountIsEmpty' /\ StateNamesALife' /\ HandlersFit'
    BY DEF IInv, TypeOK, Renew, WithNewKey, SetState, Return, Goto, DeadAccountIsEmpty,
       StateNamesALife, HandlersFit
  <1>4. KeysAreCounted'
    BY CountsKept, RenewedKeyCounts DEF Renew, Return
  <1>5. HeldKeyOpens' /\ NoSilentOrphan'
    BY DEF IInv, TypeOK, Renew, WithNewKey, SetState, Return, Goto, HeldKeyOpens, NoSilentOrphan, Half
  <1>6. QED
    BY <1>2, <1>3, <1>4, <1>5 DEF IInv

LEMMA RenewUnansweredKeeps == ASSUME IInv, NEW w \in Workspaces, RenewUnanswered(w) PROVE IInv'
  <1>1. NewKey \in Keys
    BY KeyForRenewal DEF RenewUnanswered
  <1>2. TypeOK'
    BY <1>1, EventsInBound DEF IInv, TypeOK, RenewUnanswered, WithNewKey, Return, Goto, Half
  <1>3. DeadAccountIsEmpty' /\ StateNamesALife' /\ HandlersFit'
    BY DEF IInv, TypeOK, RenewUnanswered, WithNewKey, Return, Goto, DeadAccountIsEmpty,
       StateNamesALife, HandlersFit
  <1>4. KeysAreCounted'
    BY RenewedKeyCounts DEF RenewUnanswered, Return
  <1>5. HeldKeyOpens' /\ NoSilentOrphan'
    BY DEF IInv, TypeOK, RenewUnanswered, WithNewKey, Return, Goto, HeldKeyOpens, NoSilentOrphan, Half
  <1>6. QED
    BY <1>2, <1>3, <1>4, <1>5 DEF IInv

LEMMA DeleteKeeps == ASSUME IInv, NEW w \in Workspaces, Delete(w) PROVE IInv'
  <1>1. TypeOK'
    BY EventsInBound DEF IInv, TypeOK, Delete, Tears, Goto, Half, None
  <1>2. DeadAccountIsEmpty' /\ StateNamesALife' /\ HandlersFit'
    BY DEF IInv, TypeOK, Delete, Tears, Goto, DeadAccountIsEmpty, StateNamesALife,
       HandlersFit
  <1>3. KeysAreCounted'
    BY CountsKept DEF Delete, Tears
  <1>4. HeldKeyOpens' /\ NoSilentOrphan'
    BY KeysAreOfLives DEF IInv, TypeOK, Delete, Tears, Goto, HeldKeyOpens,
       NoSilentOrphan, Half, None
  <1>5. QED
    BY <1>1, <1>2, <1>3, <1>4 DEF IInv

LEMMA DeleteDestroyKeeps == ASSUME IInv, NEW w \in Workspaces, DeleteDestroy(w) PROVE IInv'
  <1>1. TypeOK'
    BY EventsInBound DEF IInv, TypeOK, DeleteDestroy, Destroys, SetState, NotInState, Return, Goto, Half, None
  <1>2. DeadAccountIsEmpty' /\ StateNamesALife' /\ HandlersFit'
    BY DEF IInv, TypeOK, DeleteDestroy, Destroys, SetState, NotInState, Return, Goto, DeadAccountIsEmpty, StateNamesALife,
       HandlersFit
  <1>3. KeysAreCounted'
    BY CountsKept DEF DeleteDestroy, Destroys, SetState, NotInState, Return
  <1>4. HeldKeyOpens' /\ NoSilentOrphan'
    BY KeysAreOfLives DEF IInv, TypeOK, DeleteDestroy, Destroys, SetState, NotInState, Return, Goto, HeldKeyOpens,
       NoSilentOrphan, Half, None
  <1>5. QED
    BY <1>1, <1>2, <1>3, <1>4 DEF IInv

LEMMA DeleteUnansweredKeeps == ASSUME IInv, NEW w \in Workspaces, DeleteUnanswered(w) PROVE IInv'
  <1>1. TypeOK'
    BY EventsInBound DEF IInv, TypeOK, DeleteUnanswered, Tears, Destroys, Return, Goto, Half, None
  <1>2. DeadAccountIsEmpty' /\ StateNamesALife' /\ HandlersFit'
    BY DEF IInv, TypeOK, DeleteUnanswered, Tears, Destroys, Return, Goto, DeadAccountIsEmpty, StateNamesALife,
       HandlersFit
  <1>3. KeysAreCounted'
    BY CountsKept DEF DeleteUnanswered, Tears, Destroys, Return
  <1>4. HeldKeyOpens' /\ NoSilentOrphan'
    BY KeysAreOfLives DEF IInv, TypeOK, DeleteUnanswered, Tears, Destroys, Return, Goto, HeldKeyOpens,
       NoSilentOrphan, Half, None
  <1>5. QED
    BY <1>1, <1>2, <1>3, <1>4 DEF IInv

LEMMA CutShortKeeps == ASSUME IInv, NEW w \in Workspaces, CutShort(w) PROVE IInv'
  <1>1. TypeOK'
    BY EventsInBound DEF IInv, TypeOK, CutShort, Return, Goto, omni, Half, None
  <1>2. DeadAccountIsEmpty' /\ StateNamesALife' /\ HandlersFit'
    BY DEF IInv, TypeOK, CutShort, Return, Goto, omni, DeadAccountIsEmpty, StateNamesALife, HandlersFit
  <1>3. KeysAreCounted'
    BY CountsKept DEF CutShort, omni, Return
  <1>4. HeldKeyOpens' /\ NoSilentOrphan'
    BY DEF IInv, TypeOK, CutShort, Return, Goto, omni, HeldKeyOpens, NoSilentOrphan, Half, None
  <1>5. QED
    BY <1>1, <1>2, <1>3, <1>4 DEF IInv

LEMMA CleanupKeeps == ASSUME IInv, Cleanup PROVE IInv'
  <1>1. TypeOK'
    BY DEF IInv, TypeOK, Cleanup, NoAccount, Half
  <1>2. DeadAccountIsEmpty' /\ StateNamesALife' /\ HandlersFit'
    BY DEF IInv, Cleanup, NoAccount, DeadAccountIsEmpty, StateNamesALife, HandlersFit
  <1>3. KeysAreCounted'
    <2>1. account'.keys = {} /\ Renewing' = Renewing /\ events' = events
      BY DEF Cleanup, NoAccount, Renewing
    <2>2. QED
      BY <2>1, Counts, FS_EmptySet DEF IInv, KeysAreCounted
  <1>4. HeldKeyOpens' /\ NoSilentOrphan'
    BY KeysAreOfLives DEF IInv, Cleanup, HeldKeyOpens, NoSilentOrphan, Half
  <1>5. QED
    BY <1>1, <1>2, <1>3, <1>4 DEF IInv

--------------------------------------------------------------------------------
(* The specification *)

LEMMA NextKeeps == ASSUME IInv, Next PROVE IInv'
  <1>1. CASE \E w \in Workspaces : Core(w)
    BY <1>1, RefreshKeeps, ImportKeeps, StartCreateKeeps, StartRenewKeeps, StartDeleteKeeps DEF Core
  <1>2. CASE \E w \in Workspaces : Handler(w)
    BY <1>2, CreateProviderKeeps, RegisterAccountKeeps, RollbackKeeps, RollbackDestroyKeeps,
       RenewKeeps, DeleteKeeps, DeleteDestroyKeeps DEF Handler
  <1>3. CASE \E w \in Workspaces : Failure(w)
    BY <1>3, CreateUnansweredKeeps, RegisterUnansweredKeeps, RollbackFailsKeeps,
       RenewUnansweredKeeps, DeleteUnansweredKeeps, CutShortKeeps DEF Failure
  <1>4. QED
    BY <1>1, <1>2, <1>3, CleanupKeeps DEF Next

LEMMA StutterKeeps == ASSUME IInv, UNCHANGED vars PROVE IInv'
  <1>1. TypeOK'
    BY DEF IInv, TypeOK, vars, omni, Half
  <1>2. DeadAccountIsEmpty' /\ StateNamesALife' /\ HandlersFit' /\ KeysAreCounted'
    BY DEF IInv, vars, omni, DeadAccountIsEmpty, StateNamesALife, HandlersFit, KeysAreCounted, Renewing
  <1>3. HeldKeyOpens' /\ NoSilentOrphan'
    BY DEF IInv, vars, omni, HeldKeyOpens, NoSilentOrphan, Half
  <1>4. QED
    BY <1>1, <1>2, <1>3 DEF IInv

\* The inductive invariant: what the handlers may count on, whatever steps of the workspaces, of
\* failures and of Omni's cleanup have gone before.
THEOREM Invariance == Spec => []IInv
  <1>1. IInv /\ [Next]_vars => IInv'
    BY NextKeeps, StutterKeeps
  <1>2. QED
    BY <1>1, InitHolds, PTL DEF Spec

\* Every variable keeps its type: there is a number for each provider that CreateProvider makes
\* and for each key of createServiceAccountKey and renewServiceAccountKey, however long the
\* workspaces go on; and a creation has a provider at hand just between its two calls.
THEOREM Typing == Spec => []TypeOK
  <1>1. IInv => TypeOK
    BY DEF IInv
  <1>2. QED
    BY <1>1, Invariance, PTL

\* For any number of workspaces that create, renew, roll back and delete by name: the key that a
\* state holds opens the account as long as the provider lives that the key was issued for, and
\* is not being torn down.
THEOREM KeyOfLivingProviderOpens == Spec => []HeldKeyOpens
  <1>1. IInv => HeldKeyOpens
    BY DEF IInv
  <1>2. QED
    BY <1>1, Invariance, PTL

\* For any number of workspaces: a provider at Omni that is in no state belongs to a creation
\* that is still to register or to roll back, or a failure has told the user of it.
THEOREM NoOrphanWithoutReport == Spec => []NoSilentOrphan
  <1>1. IInv => NoSilentOrphan
    BY DEF IInv
  <1>2. QED
    BY <1>1, Invariance, PTL

================================================================================
