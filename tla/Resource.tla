------------------------------- MODULE Resource -------------------------------
(***************************************************************************)
(* The life of a resource whose object is kept in the COSI state of Omni:  *)
(* the Create, Read, Update, Delete and ImportState handlers that the      *)
(* resources of src/pkg/omni share, between terraform, which compares the  *)
(* configuration with its state, and Omni, where others edit and destroy   *)
(* the same objects.  What differs from resource to resource, how a plan   *)
(* is made, written into an object and read back, are the parameters.      *)
(*                                                                         *)
(* A call is what AtomicState says, which ManagedState implements: one     *)
(* step to create or to update an object, two to delete one.  A deletion   *)
(* that fails between the two leaves an object that is being torn down.    *)
(***************************************************************************)
EXTENDS Naturals

CONSTANTS Kinds,                \* the resources
          Null,                 \* not in the state, no object, an attribute without a value
          ConfigsOf(_),         \* configurations that ValidateConfig lets through
          ModelsOf(_),          \* models: plans and states
          ObjectsOf(_),         \* objects at Omni
          Imported(_, _),       \* state of an import, given the object's ID
          PlanOf(_, _, _),      \* plan for a configuration, given the state (Null: none)
          MustReplace(_, _, _), \* whether a plan cannot be reached from the state by an update
          Converts(_, _),       \* whether a plan can be written into an object
          Created(_, _),        \* the object that Create stores for a plan
          Updated(_, _, _),     \* what Update makes of an object for a plan
          AfterApply(_, _, _),  \* the state after an apply, given the plan and the object
          ReadBack(_, _, _),    \* what Read makes of the state, given the object
          ObjectId(_, _),       \* ID of an object
          StateId(_, _),        \* ID in a state
          EditsOf(_, _),        \* what others may make of an object
          AsConfigured(_, _, _),\* whether an object is as a configuration asks
          ShowsScope(_, _, _),  \* whether an object's labels tell the scope that a state has
          TearsDown(_),         \* whether an object is torn down before it is destroyed
          MaxEvents             \* bound: edits, operations of others, failures

ASSUME MaxEventsAssumption == MaxEvents \in Nat

VARIABLES
  kind,     \* the resource this behaviour is about
  config,   \* its configuration
  objects,  \* the objects of the kind at Omni, with different IDs
  tearing,  \* IDs of the objects that are being torn down
  state,    \* the model in the terraform state, Null when it is not there
  pc,       \* "idle" or the call the running operation makes next
  plan,     \* the plan being applied
  outdated, \* history: the configuration was edited since the plan was made
  fresh,    \* history: nobody edited the object since it was read or created
  settled,  \* history: nor that or the configuration since it was applied
  rescoped, \* history: others left the object without the labels of the state's scope
  events

vars == <<kind, config, objects, tearing, state, pc, plan, outdated, fresh, settled, rescoped,
          events>>

AtOmni(id) == {o \in objects : ObjectId(kind, o) = id}

PlanNow == PlanOf(kind, config, state)

NoDiff == state # Null /\ PlanNow = state

Idle == pc = "idle"

Happens == events < MaxEvents /\ events' = events + 1

Init == /\ kind \in Kinds
        /\ config \in ConfigsOf(kind) /\ outdated = FALSE
        /\ objects = {} /\ tearing = {} /\ state = Null /\ plan = Null
        /\ pc = "idle" /\ fresh = FALSE /\ settled = FALSE /\ rescoped = FALSE /\ events = 0

--------------------------------------------------------------------------------
(* Others *)

EditConfig == /\ Happens
              /\ \E c \in ConfigsOf(kind) : c # config /\ config' = c
              /\ settled' = FALSE /\ outdated' = ~Idle
              /\ UNCHANGED <<kind, objects, tearing, state, pc, plan, fresh, rescoped>>

\* An object is edited, torn down, destroyed, or created as another terraform would.
OthersEdit ==
  /\ Happens
  /\ \/ \E o \in objects :
          \/ /\ \E n \in EditsOf(kind, o) : n # o /\ objects' = (objects \ {o}) \cup {n}
             /\ UNCHANGED tearing
          \/ /\ TearsDown(kind) /\ ObjectId(kind, o) \notin tearing
             /\ tearing' = tearing \cup {ObjectId(kind, o)} /\ UNCHANGED objects
          \/ objects' = objects \ {o} /\ tearing' = tearing \ {ObjectId(kind, o)}
     \/ \E c \in ConfigsOf(kind) :
          LET p == PlanOf(kind, c, Null)
          IN  /\ Converts(kind, p) /\ objects = {} /\ objects' = {Created(kind, p)}
              /\ UNCHANGED tearing
  /\ rescoped' = \/ rescoped
                 \/ /\ state # Null
                    /\ \E o \in objects' : /\ ObjectId(kind, o) = StateId(kind, state)
                                           /\ ~ShowsScope(kind, o, state)
  /\ fresh' = FALSE /\ settled' = FALSE
  /\ UNCHANGED <<kind, config, state, pc, plan, outdated>>

--------------------------------------------------------------------------------
(* Terraform core *)

\* Read: an object that is gone takes the resource out of the state; one that is being torn
\* down is read as any other.
Refresh == /\ Idle /\ state # Null
           /\ \/ /\ AtOmni(StateId(kind, state)) = {}
                 /\ state' = Null
              \/ \E o \in AtOmni(StateId(kind, state)) : state' = ReadBack(kind, o, state)
           /\ fresh' = TRUE
           /\ UNCHANGED <<kind, config, objects, tearing, pc, plan, outdated, settled, rescoped,
                          events>>

\* ImportState puts the ID into the state; the Read after it must find the object.
Import == /\ Idle /\ state = Null
          /\ \E o \in objects : state' = ReadBack(kind, o, Imported(kind, ObjectId(kind, o)))
          /\ fresh' = TRUE /\ settled' = FALSE /\ rescoped' = FALSE
          /\ UNCHANGED <<kind, config, objects, tearing, pc, plan, outdated, events>>

Start(call, p) == /\ pc' = call /\ plan' = p
                  /\ UNCHANGED <<kind, config, objects, tearing, state, outdated, fresh, settled,
                                 rescoped, events>>

\* The plan is made from a state that may be out of date by now.
StartApply == /\ Idle /\ ~NoDiff
              /\ \/ state = Null /\ Start("create", PlanNow)
                 \/ /\ state # Null
                    /\ \/ ~MustReplace(kind, PlanNow, state) /\ Start("update", PlanNow)
                       \/ /\ MustReplace(kind, PlanNow, state)
                          /\ Start("replace", PlanOf(kind, config, Null))

StartDestroy == /\ Happens /\ Idle /\ state # Null
                /\ pc' = "delete"
                /\ UNCHANGED <<kind, config, objects, tearing, state, plan, outdated, fresh,
                               settled, rescoped>>

--------------------------------------------------------------------------------
(* The handlers *)

Return == pc' = "idle" /\ plan' = Null /\ outdated' = FALSE

Fail == /\ Return
        /\ UNCHANGED <<kind, config, objects, tearing, state, fresh, settled, rescoped, events>>

Written(o) == state' = AfterApply(kind, plan, o) /\ Return

\* A creation that takes over an object of the ID.
CreateOverwrites == LET o == Created(kind, plan)
                    IN  /\ pc = "create" /\ Converts(kind, plan)
                        /\ objects' = (objects \ AtOmni(ObjectId(kind, o))) \cup {o}
                        /\ tearing' = tearing \ {ObjectId(kind, o)}
                        /\ Written(o)
                        /\ fresh' = TRUE /\ settled' = ~outdated /\ rescoped' = FALSE
                        /\ UNCHANGED <<kind, config, events>>

\* Create: refused when the plan does not convert or the ID is taken, be it by an object that
\* is being torn down.
Create == /\ pc = "create"
          /\ \/ /\ \/ ~Converts(kind, plan)
                   \/ AtOmni(ObjectId(kind, Created(kind, plan))) # {}
                /\ Fail
             \/ LET o == Created(kind, plan)
                IN  /\ Converts(kind, plan) /\ AtOmni(ObjectId(kind, o)) = {}
                    /\ objects' = objects \cup {o}
                    /\ Written(o)
                    /\ fresh' = TRUE /\ settled' = ~outdated /\ rescoped' = FALSE
                    /\ UNCHANGED <<kind, config, tearing, events>>

\* An object that is being torn down is not written.
Writable(o, n) == n = o \/ ObjectId(kind, o) \notin tearing

\* Update: refused when the plan does not convert or the object is gone or being torn down;
\* such an object may pass when there is nothing to write.
Update == /\ pc = "update"
          /\ \/ /\ \/ ~Converts(kind, plan) \/ AtOmni(StateId(kind, plan)) = {}
                   \/ StateId(kind, plan) \in tearing
                /\ Fail
             \/ \E o \in AtOmni(StateId(kind, plan)) :
                  LET n == Updated(kind, plan, o)
                  IN  /\ Converts(kind, plan) /\ Writable(o, n)
                      /\ objects' = (objects \ {o}) \cup {n}
                      /\ Written(n)
                      /\ settled' = (fresh /\ ~outdated)
                      /\ UNCHANGED <<kind, config, tearing, fresh, rescoped, events>>

\* The object that the state names.
Own == AtOmni(StateId(kind, state))

\* A deletion, of its own or for a replacement, that has not torn down its object.
Intact == pc \in {"delete", "replace"} /\ TearsDown(kind) /\ Own # {}

TornDown == tearing' = tearing \cup {StateId(kind, state)} /\ UNCHANGED objects

Destroyed == objects' = objects \ Own /\ tearing' = tearing \ {StateId(kind, state)}

\* A teardown that fails when the object is being torn down already.
TeardownOnce ==
  \/ Intact /\ StateId(kind, state) \in tearing /\ Fail
  \/ /\ Intact /\ StateId(kind, state) \notin tearing /\ TornDown
     /\ pc' = IF pc = "replace" THEN "replacing" ELSE "deleting"
     /\ UNCHANGED <<kind, config, state, plan, outdated, fresh, settled, rescoped, events>>

\* TeardownAndDestroy, its first call: it takes up the teardown that others or a deletion
\* before began.
Teardown == /\ Intact /\ TornDown
            /\ pc' = IF pc = "replace" THEN "replacing" ELSE "deleting"
            /\ UNCHANGED <<kind, config, state, plan, outdated, fresh, settled, rescoped, events>>

\* A deletion that has its object destroyed next.
Destroying == \/ pc \in {"deleting", "replacing"}
              \/ pc \in {"delete", "replace"} /\ ~Intact

\* Its second call, once nothing holds the object: one that is gone is success.  A replacement
\* goes on with the creation.
Destroy == /\ Destroying /\ Destroyed
           /\ state' = Null /\ fresh' = FALSE /\ settled' = FALSE
           /\ \/ /\ pc \in {"replace", "replacing"} /\ pc' = "create"
                 /\ UNCHANGED <<plan, outdated>>
              \/ pc \in {"delete", "deleting"} /\ Return
           /\ UNCHANGED <<kind, config, rescoped, events>>

\* The call takes effect but its answer is lost, or the process dies before the state is
\* saved: the state stays as it was.
Unanswered == /\ Happens
              /\ \/ LET o == Created(kind, plan)
                    IN  /\ pc = "create" /\ Converts(kind, plan)
                        /\ AtOmni(ObjectId(kind, o)) = {} /\ objects' = objects \cup {o}
                        /\ UNCHANGED tearing
                 \/ /\ pc = "update" /\ Converts(kind, plan)
                    /\ \E o \in AtOmni(StateId(kind, plan)) :
                         LET n == Updated(kind, plan, o)
                         IN  Writable(o, n) /\ objects' = (objects \ {o}) \cup {n}
                    /\ UNCHANGED tearing
                 \/ Intact /\ TornDown
                 \/ Destroying /\ Destroyed
              /\ Return
              /\ fresh' = FALSE /\ settled' = FALSE
              /\ UNCHANGED <<kind, config, state, rescoped>>

\* The call does not reach Omni, or the process dies before it: a deletion may have torn
\* down its object by then.
Unreached == /\ Happens /\ ~Idle
             /\ Return
             /\ UNCHANGED <<kind, config, objects, tearing, state, fresh, settled, rescoped>>

--------------------------------------------------------------------------------
Handler == Create \/ Update \/ Teardown \/ Destroy

Next == \/ EditConfig \/ OthersEdit
        \/ Refresh \/ Import \/ StartApply \/ StartDestroy
        \/ Handler \/ Unanswered \/ Unreached

Spec == Init /\ [][Next]_vars

\* Handlers go on, the controllers letting go of what is torn down, and the user keeps
\* applying.  Terraform refreshes before it plans; the user
\* who skips that (-refresh=false, a saved plan) does not do so for ever.
FairSpec == Spec /\ SF_vars(Refresh) /\ WF_vars(StartApply) /\ WF_vars(Handler)

--------------------------------------------------------------------------------
(* Properties *)

TypeOK == /\ kind \in Kinds /\ config \in ConfigsOf(kind) /\ outdated \in BOOLEAN
          /\ objects \subseteq ObjectsOf(kind)
          /\ \A id \in tearing : \E o \in objects : ObjectId(kind, o) = id
          /\ tearing # {} => TearsDown(kind)
          /\ state \in ModelsOf(kind) \cup {Null} /\ plan \in ModelsOf(kind) \cup {Null}
          /\ pc \in {"idle", "create", "update", "replace", "replacing", "delete", "deleting"}
          /\ fresh \in BOOLEAN /\ settled \in BOOLEAN /\ rescoped \in BOOLEAN
          /\ events \in 0 .. MaxEvents

\* Reading again finds what is in the state: what an apply stores is what Omni holds, and a
\* second Read adds nothing to the first.
StateIsTrue == fresh /\ state # Null =>
  \A o \in AtOmni(StateId(kind, state)) : ReadBack(kind, o, state) = state

\* After an apply there is nothing left to plan, until somebody edits something: no spurious
\* difference, no value that terraform finds inconsistent.
NoSpuriousDiff == settled /\ state # Null => NoDiff

\* When a resource was just read and nothing is planned, the attributes of the object are what
\* the configuration asks for: no edit of others is hidden by the way the state is read; but
\* where others took away the labels of a scope that the Read then keeps, nothing is promised.
\* That an object is being torn down is no attribute: it is read as before until it is gone.
NoHiddenDrift == fresh /\ NoDiff /\ ~rescoped => \A o \in Own : AsConfigured(kind, config, o)

\* A handler changes, tears down or destroys only the object that the state names: one that
\* others made under the ID of a plan is left alone, and a replacement never touches its
\* successor.
OnlyOwnObjects ==
  [][pc' # pc => /\ \A o \in objects \ objects' :
                      state # Null /\ ObjectId(kind, o) = StateId(kind, state)
                 /\ \A id \in tearing' \ tearing : state # Null /\ id = StateId(kind, state)]_vars

\* An object in the way: a creation whose answer was lost, or others, left it to be imported, or
\* a deletion that was interrupted, or others, left it half torn down.  Updates of the latter are
\* refused until somebody destroys it; a replacement does.
InTheWay ==
  \/ state = Null /\ AtOmni(ObjectId(kind, Created(kind, PlanOf(kind, config, Null)))) # {}
  \/ state # Null /\ StateId(kind, state) \in tearing /\ ~MustReplace(kind, PlanNow, state)

\* If applies are repeated, then in the end the object is as configured, not being torn down,
\* and nothing is left to plan, whatever was lost, interrupted or edited before; unless the
\* configuration does not convert, an object is in the way, or others took its labels.
Converges ==
  <>[]\/ /\ NoDiff /\ Own # {} /\ StateId(kind, state) \notin tearing
         /\ rescoped \/ \A o \in Own : AsConfigured(kind, config, o)
      \/ ~Converts(kind, PlanOf(kind, config, Null))
      \/ InTheWay

================================================================================
