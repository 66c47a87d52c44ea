----------------------------- MODULE InfraProvider -----------------------------
(***************************************************************************)
(* The omni_infra_provider resource (omni_infra_provider_resource.go): an  *)
(* InfraProvider object and the service account that belongs to it, made   *)
(* by two calls; undoing them is a deletion of the object alone, because a *)
(* controller of Omni removes the account of a provider that goes.  A      *)
(* deletion is two calls, as AtomicState says: one that is interrupted     *)
(* leaves the provider torn down, and its name taken.                      *)
(*                                                                         *)
(* Several terraform workspaces manage the one provider of a name.  Each   *)
(* life of the provider has a number, which the properties need; Omni and  *)
(* terraform only know its name.  Numbers of lives and keys that nothing   *)
(* refers to any more are used again, so creations can be tried without    *)
(* end.  Keys expire in ServiceAccount; here they do not.                  *)
(***************************************************************************)
EXTENDS Naturals, FiniteSets

CONSTANTS Workspaces, \* terraform states with a resource of this name
          Lives, Keys,\* numbers, enough of both for one to be free at any time
          MaxEvents   \* bound: renewals, deletions and imports asked for, failures

ASSUME NumbersAssumption ==
  Lives \subseteq Nat \ {0} /\ Keys \subseteq Nat \ {0} /\ MaxEvents \in Nat

\* The provider and two variables of each workspace hold a life; a workspace holds a key, and
\* each renewal, which is an event, adds one to the account.
ASSUME EnoughNumbersAssumption ==
  /\ IsFiniteSet(Workspaces) /\ IsFiniteSet(Lives) /\ IsFiniteSet(Keys)
  /\ Cardinality(Lives) > 2 * Cardinality(Workspaces) + 1
  /\ Cardinality(Keys) > Cardinality(Workspaces) + MaxEvents

VARIABLES
  provider,  \* the life of the InfraProvider object at Omni, None when there is none
  tearing,   \* the life that is being torn down, None when none is
  account,   \* the service account "infra-provider:<name>": whether it lives, its keys
  state,     \* state[w]: whether the resource is in the state of w, its key, the life it is of
  pc,        \* pc[w]: the call the handler running for w makes next
  made,      \* made[w]: the life the creation running for w has created
  reported,  \* history: a failure told the user about the provider that is there
  events

omni == <<provider, tearing, account>>
vars == <<omni, state, pc, made, reported, events>>

None == 0
NoAccount == [live |-> FALSE, keys |-> {}]
NotInState == [present |-> FALSE, key |-> None, life |-> None]

LivesInUse == {provider} \cup {made[w] : w \in Workspaces} \cup {state[w].life : w \in Workspaces}
KeysInUse == account.keys \cup {state[w].key : w \in Workspaces}
NewLife == CHOOSE n \in Lives : n \notin LivesInUse
NewKey == CHOOSE n \in Keys : n \notin KeysInUse

Init == /\ provider = None /\ tearing = None /\ account = NoAccount
        /\ state = [w \in Workspaces |-> NotInState]
        /\ pc = [w \in Workspaces |-> "idle"] /\ made = [w \in Workspaces |-> None]
        /\ reported = FALSE /\ events = 0

Happens == events < MaxEvents /\ events' = events + 1

Goto(w, where) == pc' = [pc EXCEPT ![w] = where]
Return(w) == Goto(w, "idle") /\ made' = [made EXCEPT ![w] = None]
SetState(w, s) == state' = [state EXCEPT ![w] = s]

--------------------------------------------------------------------------------
(* Terraform core: refresh, import, plan *)

\* Read lists the providers.  One of the name suffices, whichever life it is of and be it torn
\* down; the key in the state is kept as it is.
Refresh(w) == /\ pc[w] = "idle" /\ state[w].present /\ provider = None
              /\ SetState(w, NotInState)
              /\ UNCHANGED <<omni, pc, made, reported, events>>

Import(w) == /\ Happens /\ pc[w] = "idle" /\ ~state[w].present /\ provider # None
             /\ SetState(w, [present |-> TRUE, key |-> None, life |-> provider])
             /\ UNCHANGED <<omni, pc, made, reported>>

\* Whoever has not got the provider applies again.
StartCreate(w) == /\ pc[w] = "idle" /\ ~state[w].present
                  /\ Goto(w, "create")
                  /\ UNCHANGED <<omni, state, made, reported, events>>

StartRenew(w) == /\ Happens /\ pc[w] = "idle" /\ state[w].present
                 /\ Goto(w, "renew")
                 /\ UNCHANGED <<omni, state, made, reported>>

StartDelete(w) == /\ Happens /\ pc[w] = "idle" /\ state[w].present
                  /\ Goto(w, "delete")
                  /\ UNCHANGED <<omni, state, made, reported>>

--------------------------------------------------------------------------------
(* Create *)

Taken == provider # None

\* First call: the InfraProvider object.  Omni refuses a name that is taken, by a provider that
\* is being torn down, too.
CreateProvider(w) ==
  /\ pc[w] = "create"
  /\ \/ /\ Taken
        /\ Return(w)
        /\ UNCHANGED <<provider, reported>>
     \/ /\ ~Taken
        /\ provider' = NewLife /\ reported' = FALSE
        /\ Goto(w, "register") /\ made' = [made EXCEPT ![w] = NewLife]
  /\ UNCHANGED <<tearing, account, state, events>>

\* The object is created and the answer is lost: an error, and no rollback.
CreateUnanswered(w) ==
  /\ Happens /\ pc[w] = "create" /\ ~Taken
  /\ provider' = NewLife /\ reported' = TRUE
  /\ Return(w)
  /\ UNCHANGED <<tearing, account, state>>

NewAccount == [live |-> TRUE, keys |-> {NewKey}]

\* The account that is there taken for the one to be made: its keys are not this one's.
RegisterExisting(w) ==
  /\ pc[w] = "register"
  /\ account' = IF account.live THEN account ELSE NewAccount
  /\ SetState(w, [present |-> TRUE, key |-> NewKey, life |-> made[w]])
  /\ Return(w)
  /\ UNCHANGED <<provider, tearing, reported, events>>

\* The whole creation tried again after a refusal, over a provider that is there by now.
RegisterRetries(w) ==
  /\ pc[w] = "register"
  /\ \/ /\ account.live
        /\ Goto(w, "create")
        /\ UNCHANGED <<account, state, made>>
     \/ /\ ~account.live
        /\ account' = NewAccount
        /\ SetState(w, [present |-> TRUE, key |-> NewKey, life |-> made[w]])
        /\ Return(w)
  /\ UNCHANGED <<provider, tearing, reported, events>>

\* Second call: createServiceAccountKey, which Omni refuses when the account is there.  The
\* key enters the state as it was issued; there is no listing to read it back from.
RegisterAccount(w) ==
  /\ pc[w] = "register"
  /\ \/ /\ account.live
        /\ Goto(w, "rollback")
        /\ UNCHANGED <<account, state, made>>
     \/ /\ ~account.live
        /\ account' = NewAccount
        /\ SetState(w, [present |-> TRUE, key |-> NewKey, life |-> made[w]])
        /\ Return(w)
  /\ UNCHANGED <<provider, tearing, reported, events>>

\* Second call without an answer: the account may be there, its key is lost.
RegisterUnanswered(w) ==
  /\ Happens /\ pc[w] = "register"
  /\ account' \in {account} \cup (IF account.live THEN {} ELSE {NewAccount})
  /\ Goto(w, "rollback")
  /\ UNCHANGED <<provider, tearing, state, made, reported>>

Tears == provider # None /\ tearing' = provider /\ UNCHANGED provider
Destroys == provider' = None /\ tearing' = None

\* The rollback forgotten: the provider is left behind.
NoRollback(w) == /\ pc[w] = "rollback"
                 /\ Return(w)
                 /\ UNCHANGED <<omni, state, reported, events>>

\* rollbackProvider: tears down the provider of the name.
Rollback(w) == /\ pc[w] = "rollback" /\ Tears
               /\ Goto(w, "undo")
               /\ UNCHANGED <<account, state, made, reported, events>>

\* And destroys it, once nothing holds it; "not found" is success.
RollbackDestroy(w) == /\ pc[w] = "undo" \/ (pc[w] = "rollback" /\ provider = None)
                      /\ Destroys /\ reported' = FALSE
                      /\ Return(w)
                      /\ UNCHANGED <<account, state, events>>

\* A call of the rollback that fails, whether it takes effect or not.
RollbackCallFails(w) ==
  /\ Happens
  /\ \/ pc[w] \in {"rollback", "undo"} /\ UNCHANGED <<provider, tearing>>
     \/ pc[w] = "rollback" /\ Tears
     \/ pc[w] = "undo" /\ Destroys
  /\ Return(w)
  /\ UNCHANGED <<account, state>>

\* The failure of the rollback dropped: the error tells of the account only.
RollbackSwallowed(w) == /\ RollbackCallFails(w)
                        /\ reported' = (reported /\ provider' # None)

\* A rollback that fails is joined to the error of the creation.
RollbackFails(w) == /\ RollbackCallFails(w)
                    /\ reported' = (provider' # None)

--------------------------------------------------------------------------------
(* Update, Delete, and any of them cut short *)

WithNewKey == [account EXCEPT !.keys = @ \cup {NewKey}]

\* renewServiceAccountKey adds a key to the account; the state gets the new one.
Renew(w) == /\ pc[w] = "renew"
            /\ \/ ~account.live /\ UNCHANGED <<account, state>>
               \/ /\ account.live
                  /\ account' = WithNewKey
                  /\ SetState(w, [state[w] EXCEPT !.key = NewKey])
            /\ Return(w)
            /\ UNCHANGED <<provider, tearing, reported, events>>

RenewUnanswered(w) == /\ Happens /\ pc[w] = "renew" /\ account.live
                      /\ account' = WithNewKey
                      /\ Return(w)
                      /\ UNCHANGED <<provider, tearing, state, reported>>

\* Delete: tears down the provider of the name, whichever life it is of.
Delete(w) == /\ pc[w] = "delete" /\ Tears
             /\ Goto(w, "destroy")
             /\ UNCHANGED <<account, state, made, reported, events>>

\* And destroys it, once nothing holds it.  One that is gone is success.
DeleteDestroy(w) == /\ pc[w] = "destroy" \/ (pc[w] = "delete" /\ provider = None)
                    /\ Destroys /\ reported' = FALSE
                    /\ SetState(w, NotInState)
                    /\ Return(w)
                    /\ UNCHANGED <<account, events>>

\* A call of the deletion takes effect, and Delete fails: after the teardown the provider is left
\* torn down.
DeleteUnanswered(w) == /\ Happens
                       /\ \/ pc[w] = "delete" /\ Tears /\ UNCHANGED reported
                          \/ pc[w] = "destroy" /\ Destroys /\ reported' = FALSE
                       /\ Return(w)
                       /\ UNCHANGED <<account, state>>

\* A call that does not reach Omni, a ttl that does not parse, a process that dies.  What a
\* creation has made by then stays, and what a deletion has torn down.
CutShort(w) == /\ Happens /\ pc[w] # "idle"
               /\ reported' = (reported \/ (provider # None /\ made[w] = provider))
               /\ Return(w)
               /\ UNCHANGED <<omni, state>>

\* Omni's cleanup controller, from the teardown on.
Cleanup == /\ provider = None \/ tearing # None
           /\ account.live /\ account' = NoAccount
           /\ UNCHANGED <<provider, tearing, state, pc, made, reported, events>>

--------------------------------------------------------------------------------
Handler(w) == \/ CreateProvider(w) \/ RegisterAccount(w) \/ Rollback(w) \/ RollbackDestroy(w)
              \/ Renew(w) \/ Delete(w) \/ DeleteDestroy(w)

Failure(w) == CreateUnanswered(w) \/ RegisterUnanswered(w) \/ RollbackFails(w)
                \/ RenewUnanswered(w) \/ DeleteUnanswered(w) \/ CutShort(w)

Core(w) == Refresh(w) \/ Import(w) \/ StartCreate(w) \/ StartRenew(w) \/ StartDelete(w)

Next == (\E w \in Workspaces : Core(w) \/ Handler(w) \/ Failure(w)) \/ Cleanup

Spec == Init /\ [][Next]_vars

\* Handlers go on; the user keeps applying; the cleanup is not put off for ever by creations
\* that are tried again and again.
FairSpec == /\ Spec
            /\ \A w \in Workspaces :
                 WF_vars(Handler(w)) /\ WF_vars(Refresh(w)) /\ WF_vars(StartCreate(w))
            /\ SF_vars(Cleanup)

--------------------------------------------------------------------------------
(* Properties *)

Half(w) == pc[w] \in {"register", "rollback", "undo"}

TypeOK ==
  /\ provider \in Lives \cup {None} /\ tearing \in {None, provider}
  /\ account \in [live : BOOLEAN, keys : SUBSET Keys]
  /\ state \in [Workspaces -> [present : BOOLEAN, key : Keys \cup {None}, life : Lives \cup {None}]]
  /\ pc \in [Workspaces -> {"idle", "create", "register", "rollback", "undo", "renew", "delete",
                        "destroy"}]
  /\ made \in [Workspaces -> Lives \cup {None}]
  /\ reported \in BOOLEAN /\ events \in 0 .. MaxEvents
  /\ \A w \in Workspaces : /\ made[w] # None <=> Half(w)
                           /\ ~state[w].present => state[w] = NotInState

\* Omni keeps no provider that nothing owns (comment in Create,
\* omni_infra_provider_resource.go:197), unless a failure told the user of it: it is in a
\* state, or a creation that goes on will finish it or roll it back.
NoSilentOrphan ==
  provider # None => \/ reported
                     \/ \E w \in Workspaces : state[w].present /\ state[w].life = provider
                     \/ \E w \in Workspaces : Half(w) /\ made[w] = provider

\* As long as the provider lives that a resource was made for, and is not being torn down, the
\* key in the state opens the account: no creation, rollback, renewal or deletion of another
\* workspace breaks it, and Read, which only looks for the name, has nothing to miss.
HeldKeyOpens ==
  \A w \in Workspaces :
    state[w].key # None /\ state[w].life = provider /\ tearing = None => state[w].key \in account.keys

\* Whatever is cut short in between, creations that are tried again get there, although each
\* may find the account of an earlier life and be rolled back: in the end the provider is
\* there and in a state, unless the user has to take care of one that a failure left.  One whose
\* deletion was interrupted counts: it is torn down, but in a state, where it can be deleted again.
RetriesConverge ==
  <>[](provider # None /\ (reported \/ \E w \in Workspaces : state[w].present))

\* What the comment of rollbackProvider (omni_infra_provider_resource.go:166) says it
\* destroys: a provider created earlier in the failed operation.
RollbackDestroysItsOwn ==
  [][\A w \in Workspaces :
       Half(w) /\ ~Half(w)' /\ provider # None /\ provider' = None
         => provider = made[w]]_vars

================================================================================
