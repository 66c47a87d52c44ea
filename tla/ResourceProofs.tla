---------------------------- MODULE ResourceProofs ----------------------------
(***************************************************************************)
(* The life of a resource, for every kind whose conversions are sound:     *)
(* what is written and read back has to be what was planned, whatever the  *)
(* configurations, models and objects of the kind are.  The handlers do    *)
(* the rest, whatever others do and whichever calls are lost.              *)
(***************************************************************************)
EXTENDS Resource, TLAPS

--------------------------------------------------------------------------------
(* Sound conversions, of the kind k *)

\* A plan is a model; unless it replaces the object, it is for the object in the state.
Planning(k) ==
  \A c \in ConfigsOf(k) :
    /\ PlanOf(k, c, Null) \in ModelsOf(k)
    /\ \A m \in ModelsOf(k) :
         LET p == PlanOf(k, c, m)
         IN  p \in ModelsOf(k) /\ (~MustReplace(k, p, m) => StateId(k, p) = StateId(k, m))

\* r is what can be in the state for the object o: reading once more adds nothing.
IsRead(k, o, r) == /\ r \in ModelsOf(k) /\ StateId(k, r) = ObjectId(k, o)
                   /\ ReadBack(k, o, r) = r

\* What is read is of the object, and reading is done at once; a Read may find that the
\* object does not count (Null).
Reading(k) ==
  \A o \in ObjectsOf(k) :
    /\ LET r == ReadBack(k, o, Imported(k, ObjectId(k, o)))
       IN  r # Null => IsRead(k, o, r) /\ ShowsScope(k, o, r)
    /\ \A m \in ModelsOf(k) :
         StateId(k, m) = ObjectId(k, o) /\ ReadBack(k, o, m) # Null =>
           /\ IsRead(k, o, ReadBack(k, o, m))
           /\ ShowsScope(k, o, m) => ShowsScope(k, o, ReadBack(k, o, m))

\* A creation stores an object that is as planned, and a state that stays.
Creating(k) ==
  \A c \in ConfigsOf(k) :
    LET p == PlanOf(k, c, Null)
        o == Created(k, p)
        a == AfterApply(k, p, o)
    IN  Converts(k, p) =>
          /\ o \in ObjectsOf(k) /\ IsRead(k, o, a) /\ ShowsScope(k, o, a)
          /\ PlanOf(k, c, a) = a

\* So does an update of an object that was read, and it leaves the object its ID.
Updating(k) ==
  \A c \in ConfigsOf(k), m \in ModelsOf(k), o \in ObjectsOf(k) :
    LET p == PlanOf(k, c, m)
        n == Updated(k, p, o)
        a == AfterApply(k, p, n)
    IN  Converts(k, p) /\ ~MustReplace(k, p, m) /\ StateId(k, m) = ObjectId(k, o) =>
          /\ n \in ObjectsOf(k) /\ ObjectId(k, n) = ObjectId(k, o)
          /\ a \in ModelsOf(k) /\ StateId(k, a) = ObjectId(k, n)
          /\ ShowsScope(k, o, m) => ShowsScope(k, n, m) /\ ShowsScope(k, n, a)
          /\ ReadBack(k, o, m) = m => ReadBack(k, n, a) = a /\ PlanOf(k, c, a) = a

\* Others leave an object its ID.
Editing(k) == \A o \in ObjectsOf(k) : \A n \in EditsOf(k, o) :
                n \in ObjectsOf(k) /\ ObjectId(k, n) = ObjectId(k, o)

\* The state tells all that the configuration asks for.
Telling(k) ==
  \A c \in ConfigsOf(k), m \in ModelsOf(k), o \in ObjectsOf(k) :
    IsRead(k, o, m) /\ ShowsScope(k, o, m) /\ PlanOf(k, c, m) = m => AsConfigured(k, c, o)

Sound(k) == Planning(k) /\ Reading(k) /\ Creating(k) /\ Updating(k) /\ Editing(k) /\ Telling(k)

--------------------------------------------------------------------------------
(* The inductive invariant *)

DistinctIds == \A o, n \in objects : ObjectId(kind, o) = ObjectId(kind, n) => o = n

\* The plan being applied was made from a configuration, which is still the present one
\* unless it was edited; an update's plan, from the present state.
PlanFits ==
  /\ pc \in {"create", "replace", "replacing"} =>
       /\ \E c \in ConfigsOf(kind) : plan = PlanOf(kind, c, Null)
       /\ ~outdated => plan = PlanOf(kind, config, Null)
  /\ pc = "update" =>
       /\ \E c \in ConfigsOf(kind) : plan = PlanOf(kind, c, state)
       /\ ~outdated => plan = PlanOf(kind, config, state)
       /\ ~MustReplace(kind, plan, state)

\* Terraform creates what is not in the state, updates, replaces and deletes what is.
HandlersFit == /\ pc = "create" => state = Null
               /\ pc \in {"update", "replace", "replacing", "delete", "deleting"} => state # Null

\* What the histories have in common.
HistoryFits == (settled => fresh) /\ (outdated => ~Idle)

ScopeFits == state # Null /\ ~rescoped =>
  \A o \in AtOmni(StateId(kind, state)) : ShowsScope(kind, o, state)

IInv == /\ TypeOK /\ DistinctIds /\ PlanFits /\ HandlersFit /\ HistoryFits /\ ScopeFits
        /\ StateIsTrue /\ NoSpuriousDiff

LEMMA InitHolds == Init => IInv
  <1> SUFFICES ASSUME Init PROVE IInv
    OBVIOUS
  <1>1. TypeOK
    <2>1. events \in 0 .. MaxEvents
      BY MaxEventsAssumption DEF Init
    <2>2. QED
      BY <2>1 DEF Init, TypeOK
  <1>2. QED
    BY <1>1 DEF Init, IInv, DistinctIds, PlanFits, HandlersFit, HistoryFits, ScopeFits, StateIsTrue,
       NoSpuriousDiff, Idle

\* One more event is within the bound.
LEMMA EventsInBound == ASSUME IInv, events' = events \/ Happens PROVE events' \in 0 .. MaxEvents
  BY MaxEventsAssumption DEF IInv, TypeOK, Happens

--------------------------------------------------------------------------------
(* Others *)

\* The object of an ID put in the place of one.
LEMMA InPlace ==
  ASSUME IInv, NEW o \in objects, NEW n \in ObjectsOf(kind),
         ObjectId(kind, n) = ObjectId(kind, o), UNCHANGED <<kind, tearing>>,
         objects' = (objects \ {o}) \cup {n}
  PROVE  /\ DistinctIds' /\ objects' \subseteq ObjectsOf(kind)
         /\ \A x \in objects' : ObjectId(kind, x) = ObjectId(kind, o) => x = n
         /\ \A id \in tearing' : \E x \in objects' : ObjectId(kind, x) = id
         /\ tearing' # {} => TearsDown(kind)
  <1>1. DistinctIds' /\ objects' \subseteq ObjectsOf(kind)
    BY DEF IInv, TypeOK, DistinctIds
  <1>2. \A x \in objects' : ObjectId(kind, x) = ObjectId(kind, o) => x = n
    BY DEF IInv, DistinctIds
  <1>3. \A id \in tearing' : \E x \in objects' : ObjectId(kind, x) = id
    BY DEF IInv, TypeOK
  <1>4. tearing' # {} => TearsDown(kind)
    BY DEF IInv, TypeOK
  <1>5. QED
    BY <1>1, <1>2, <1>3, <1>4

LEMMA EditConfigKeeps == ASSUME IInv, EditConfig PROVE IInv'
  <1>1. TypeOK'
    BY EventsInBound DEF IInv, TypeOK, EditConfig, Idle
  <1>2. PlanFits' /\ HandlersFit' /\ HistoryFits' /\ NoSpuriousDiff'
    BY DEF IInv, EditConfig, PlanFits, HandlersFit, HistoryFits, NoSpuriousDiff, Idle
  <1>3. DistinctIds' /\ ScopeFits' /\ StateIsTrue'
    BY DEF IInv, EditConfig, DistinctIds, ScopeFits, StateIsTrue, AtOmni
  <1>4. QED
    BY <1>1, <1>2, <1>3 DEF IInv

\* What others leave shows the scope of the state, or the history tells.
LEMMA OthersEditKeeps == ASSUME Sound(kind), IInv, OthersEdit PROVE IInv'
  <1> DEFINE Torn == /\ \A id \in tearing' : \E o \in objects' : ObjectId(kind, o) = id
                     /\ tearing' # {} => TearsDown(kind)
  <1>1. ASSUME objects' \subseteq ObjectsOf(kind), DistinctIds', Torn PROVE IInv'
    <2>1. rescoped' \in BOOLEAN /\ events' \in 0 .. MaxEvents
      BY EventsInBound DEF IInv, TypeOK, OthersEdit
    <2>2. TypeOK'
      BY <1>1, <2>1 DEF IInv, TypeOK, OthersEdit
    <2>3. ScopeFits'
      BY DEF OthersEdit, ScopeFits, AtOmni
    <2>4. HistoryFits' /\ PlanFits' /\ HandlersFit' /\ StateIsTrue' /\ NoSpuriousDiff'
      BY DEF IInv, OthersEdit, HistoryFits, Idle, PlanFits, HandlersFit, StateIsTrue, NoSpuriousDiff
    <2>5. QED
      BY <1>1, <2>2, <2>3, <2>4 DEF IInv
  <1>2. ASSUME NEW o \in objects, NEW n \in EditsOf(kind, o),
               objects' = (objects \ {o}) \cup {n}, tearing' = tearing
        PROVE  IInv'
    <2>1. o \in ObjectsOf(kind) /\ n \in ObjectsOf(kind) /\ ObjectId(kind, n) = ObjectId(kind, o)
      BY DEF IInv, TypeOK, Sound, Editing
    <2>2. DistinctIds' /\ objects' \subseteq ObjectsOf(kind) /\ Torn
      BY <1>2, <2>1, InPlace DEF OthersEdit
    <2>3. QED
      BY <1>1, <2>2
  <1>3. ASSUME NEW o \in objects, TearsDown(kind),
               tearing' = tearing \cup {ObjectId(kind, o)}, objects' = objects
        PROVE  IInv'
    <2>1. objects' \subseteq ObjectsOf(kind) /\ DistinctIds'
      BY <1>3 DEF IInv, TypeOK, DistinctIds, OthersEdit
    <2>2. Torn
      BY <1>3 DEF IInv, TypeOK
    <2>3. QED
      BY <1>1, <2>1, <2>2
  <1>4. ASSUME NEW o \in objects, objects' = objects \ {o}, tearing' = tearing \ {ObjectId(kind, o)}
        PROVE  IInv'
    <2>1. objects' \subseteq ObjectsOf(kind) /\ DistinctIds'
      BY <1>4 DEF IInv, TypeOK, DistinctIds, OthersEdit
    <2>2. Torn
      BY <1>4 DEF IInv, TypeOK
    <2>3. QED
      BY <1>1, <2>1, <2>2
  <1>5. ASSUME NEW c \in ConfigsOf(kind), Converts(kind, PlanOf(kind, c, Null)), objects = {},
               objects' = {Created(kind, PlanOf(kind, c, Null))}, tearing' = tearing
        PROVE  IInv'
    <2>1. Created(kind, PlanOf(kind, c, Null)) \in ObjectsOf(kind)
      BY <1>5 DEF Sound, Creating
    <2>2. objects' \subseteq ObjectsOf(kind) /\ DistinctIds'
      BY <1>5, <2>1 DEF DistinctIds
    <2>3. Torn
      BY <1>5 DEF IInv, TypeOK
    <2>4. QED
      BY <1>1, <2>2, <2>3
  <1>6. QED
    BY <1>2, <1>3, <1>4, <1>5 DEF OthersEdit

--------------------------------------------------------------------------------
(* Terraform core *)

\* Reading again changes nothing after an apply, nor what is known of the object.
LEMMA RefreshKeeps == ASSUME Sound(kind), IInv, Refresh PROVE IInv'
  <1>1. state \in ModelsOf(kind) /\ Idle /\ pc = "idle"
    BY DEF IInv, TypeOK, Refresh, Idle
  <1>2. CASE state' = Null
    <2>1. TypeOK'
      BY <1>2 DEF IInv, TypeOK, Refresh
    <2>2. QED
      BY <1>1, <1>2, <2>1 DEF IInv, Refresh, DistinctIds, PlanFits, HandlersFit, HistoryFits,
         ScopeFits, StateIsTrue, NoSpuriousDiff, Idle
  <1>3. CASE state' # Null
    <2>1. PICK o \in objects : /\ ObjectId(kind, o) = StateId(kind, state)
                               /\ state' = ReadBack(kind, o, state)
      BY <1>3 DEF Refresh, AtOmni
    <2>2. o \in ObjectsOf(kind) /\ o \in AtOmni(StateId(kind, state))
      BY <2>1 DEF IInv, TypeOK, AtOmni
    <2>3. /\ IsRead(kind, o, state')
          /\ ShowsScope(kind, o, state) => ShowsScope(kind, o, state')
      BY <1>1, <1>3, <2>1, <2>2 DEF Sound, Reading
    <2>4. \A x \in objects : ObjectId(kind, x) = StateId(kind, state') => x = o
      BY <2>3 DEF IInv, DistinctIds, IsRead
    <2>5. TypeOK'
      BY <2>3 DEF IInv, TypeOK, Refresh, IsRead
    <2>6. ScopeFits'
      BY <1>3, <2>2, <2>3, <2>4 DEF IInv, Refresh, ScopeFits, AtOmni
    <2>7. StateIsTrue'
      BY <2>3, <2>4 DEF Refresh, StateIsTrue, AtOmni, IsRead
    <2>8. NoSpuriousDiff'
      <3> SUFFICES ASSUME settled PROVE state' = state
        BY DEF IInv, Refresh, NoSpuriousDiff, NoDiff, PlanNow
      <3>1. QED
        BY <2>1, <2>2 DEF IInv, Refresh, HistoryFits, StateIsTrue
    <2>9. QED
      BY <1>1, <1>3, <2>5, <2>6, <2>7, <2>8 DEF IInv, Refresh, DistinctIds, PlanFits, HandlersFit,
         HistoryFits, Idle
  <1>4. QED
    BY <1>2, <1>3

\* So is what is imported.
LEMMA ImportKeeps == ASSUME Sound(kind), IInv, Import PROVE IInv'
  <1>1. Idle /\ pc = "idle"
    BY DEF Import, Idle
  <1>2. PICK o \in objects : state' = ReadBack(kind, o, Imported(kind, ObjectId(kind, o)))
    BY DEF Import
  <1>3. o \in ObjectsOf(kind)
    BY DEF IInv, TypeOK
  <1>4. state' # Null => IsRead(kind, o, state') /\ ShowsScope(kind, o, state')
    BY <1>2, <1>3 DEF Sound, Reading
  <1>5. state' # Null => \A x \in objects : ObjectId(kind, x) = StateId(kind, state') => x = o
    BY <1>4 DEF IInv, DistinctIds, IsRead
  <1>6. TypeOK'
    BY <1>4 DEF IInv, TypeOK, Import, IsRead
  <1>7. ScopeFits' /\ StateIsTrue'
    BY <1>4, <1>5 DEF Import, ScopeFits, StateIsTrue, AtOmni, IsRead
  <1>8. QED
    BY <1>1, <1>6, <1>7 DEF IInv, Import, DistinctIds, PlanFits, HandlersFit, HistoryFits,
       NoSpuriousDiff, Idle

LEMMA StartApplyKeeps == ASSUME Sound(kind), IInv, StartApply PROVE IInv'
  <1>1. /\ Idle /\ pc = "idle" /\ ~outdated /\ config \in ConfigsOf(kind)
        /\ UNCHANGED <<kind, config, objects, tearing, state, outdated, fresh, settled, rescoped, events>>
        /\ \/ state = Null /\ pc' = "create" /\ plan' = PlanNow
           \/ /\ state # Null /\ pc' = "update" /\ plan' = PlanNow
              /\ ~MustReplace(kind, PlanNow, state)
           \/ state # Null /\ pc' = "replace" /\ plan' = PlanOf(kind, config, Null)
    BY DEF IInv, TypeOK, HistoryFits, StartApply, Start, Idle
  <1>2. plan' \in ModelsOf(kind)
    <2>1. state # Null => state \in ModelsOf(kind)
      BY DEF IInv, TypeOK
    <2>2. QED
      BY <1>1, <2>1 DEF PlanNow, Sound, Planning
  <1>3. TypeOK'
    BY <1>1, <1>2 DEF IInv, TypeOK
  <1>4. PlanFits' /\ HandlersFit' /\ HistoryFits'
    BY <1>1 DEF IInv, PlanNow, PlanFits, HandlersFit, HistoryFits, Idle
  <1>5. DistinctIds' /\ ScopeFits' /\ StateIsTrue' /\ NoSpuriousDiff'
    BY <1>1 DEF IInv, DistinctIds, ScopeFits, StateIsTrue, NoSpuriousDiff, NoDiff, PlanNow, AtOmni
  <1>6. QED
    BY <1>3, <1>4, <1>5 DEF IInv

LEMMA StartDestroyKeeps == ASSUME IInv, StartDestroy PROVE IInv'
  <1>1. TypeOK'
    BY EventsInBound DEF IInv, TypeOK, StartDestroy
  <1>2. PlanFits' /\ HandlersFit' /\ HistoryFits'
    BY DEF IInv, StartDestroy, PlanFits, HandlersFit, HistoryFits, Idle
  <1>3. DistinctIds' /\ ScopeFits' /\ StateIsTrue' /\ NoSpuriousDiff'
    BY DEF IInv, StartDestroy, DistinctIds, ScopeFits, StateIsTrue, NoSpuriousDiff, NoDiff, PlanNow,
       AtOmni
  <1>4. QED
    BY <1>1, <1>2, <1>3 DEF IInv

--------------------------------------------------------------------------------
(* The handlers *)

LEMMA FailKeeps == ASSUME IInv, Fail PROVE IInv'
  <1>1. TypeOK'
    BY EventsInBound DEF IInv, TypeOK, Fail, Return
  <1>2. PlanFits' /\ HandlersFit' /\ HistoryFits'
    BY DEF IInv, Fail, Return, PlanFits, HandlersFit, HistoryFits, Idle
  <1>3. DistinctIds' /\ ScopeFits' /\ StateIsTrue' /\ NoSpuriousDiff'
    BY DEF IInv, Fail, Return, DistinctIds, ScopeFits, StateIsTrue, NoSpuriousDiff, NoDiff, PlanNow,
       AtOmni
  <1>4. QED
    BY <1>1, <1>2, <1>3 DEF IInv

\* An operation that ends without an answer leaves the state, and promises nothing.
LEMMA UnansweredCallKeeps ==
  ASSUME Sound(kind), IInv, Return, Happens, fresh' = FALSE, settled' = FALSE,
         UNCHANGED <<kind, config, state, rescoped>>,
         objects' \subseteq ObjectsOf(kind), DistinctIds', ScopeFits',
         \A id \in tearing' : \E o \in objects' : ObjectId(kind, o) = id,
         tearing' # {} => TearsDown(kind)
  PROVE  IInv'
  <1>1. TypeOK'
    BY EventsInBound DEF IInv, TypeOK, Return
  <1>2. PlanFits' /\ HandlersFit' /\ HistoryFits'
    BY DEF IInv, Return, PlanFits, HandlersFit, HistoryFits, Idle
  <1>3. StateIsTrue' /\ NoSpuriousDiff'
    BY DEF StateIsTrue, NoSpuriousDiff
  <1>4. QED
    BY <1>1, <1>2, <1>3 DEF IInv

\* What a creation stores, under an ID that is free.
LEMMA CreatedIsSound ==
  ASSUME Sound(kind), IInv, pc = "create", Converts(kind, plan)
  PROVE  LET o == Created(kind, plan)
             a == AfterApply(kind, plan, o)
         IN  /\ o \in ObjectsOf(kind) /\ IsRead(kind, o, a) /\ ShowsScope(kind, o, a)
             /\ ~outdated => PlanOf(kind, config, a) = a
  <1>1. PICK c \in ConfigsOf(kind) : plan = PlanOf(kind, c, Null)
    BY DEF IInv, PlanFits
  <1>2. ~outdated => config \in ConfigsOf(kind) /\ plan = PlanOf(kind, config, Null)
    BY DEF IInv, TypeOK, PlanFits
  <1>3. QED
    BY <1>1, <1>2 DEF Sound, Creating

LEMMA CreateKeeps == ASSUME Sound(kind), IInv, Create PROVE IInv'
  <1>1. CASE Fail
    BY <1>1, FailKeeps
  <1>2. CASE ~Fail
    <2> DEFINE o == Created(kind, plan)
               a == AfterApply(kind, plan, o)
    <2>1. /\ pc = "create" /\ Converts(kind, plan) /\ AtOmni(ObjectId(kind, o)) = {}
          /\ objects' = objects \cup {o} /\ state' = a /\ Return
          /\ fresh' = TRUE /\ settled' = ~outdated /\ rescoped' = FALSE
          /\ UNCHANGED <<kind, config, tearing, events>>
      BY <1>2 DEF Create, Written
    <2>2. /\ o \in ObjectsOf(kind) /\ IsRead(kind, o, a) /\ ShowsScope(kind, o, a)
          /\ ~outdated => PlanOf(kind, config, a) = a
      BY <2>1, CreatedIsSound
    <2> HIDE DEF o, a
    <2>3. \A x \in objects' : ObjectId(kind, x) = StateId(kind, a) => x = o
      BY <2>1, <2>2 DEF AtOmni, IsRead
    <2>4. TypeOK'
      BY <2>1, <2>2, EventsInBound DEF IInv, TypeOK, Return, IsRead
    <2>5. DistinctIds'
      BY <2>1 DEF IInv, DistinctIds, AtOmni
    <2>6. PlanFits' /\ HandlersFit' /\ HistoryFits'
      BY <2>1 DEF Return, PlanFits, HandlersFit, HistoryFits, Idle
    <2>7. ScopeFits' /\ StateIsTrue'
      BY <2>1, <2>2, <2>3 DEF ScopeFits, StateIsTrue, AtOmni, IsRead
    <2>8. NoSpuriousDiff'
      BY <2>1, <2>2 DEF NoSpuriousDiff, NoDiff, PlanNow
    <2>9. QED
      BY <2>4, <2>5, <2>6, <2>7, <2>8 DEF IInv
  <1>3. QED
    BY <1>1, <1>2

\* What an update makes of the object of the ID, which is the one in the state.
LEMMA UpdatedIsSound ==
  ASSUME Sound(kind), IInv, pc = "update", Converts(kind, plan),
         NEW o \in AtOmni(StateId(kind, plan))
  PROVE  LET n == Updated(kind, plan, o)
             a == AfterApply(kind, plan, n)
         IN  /\ state \in ModelsOf(kind) /\ o \in objects
             /\ n \in ObjectsOf(kind) /\ ObjectId(kind, n) = ObjectId(kind, o)
             /\ ObjectId(kind, o) = StateId(kind, state)
             /\ a \in ModelsOf(kind) /\ StateId(kind, a) = ObjectId(kind, n)
             /\ ~rescoped => ShowsScope(kind, n, state) /\ ShowsScope(kind, n, a)
             /\ fresh => ReadBack(kind, n, a) = a
             /\ fresh /\ ~outdated => PlanOf(kind, config, a) = a
  <1>1. o \in objects /\ o \in ObjectsOf(kind) /\ ObjectId(kind, o) = StateId(kind, plan)
    BY DEF IInv, TypeOK, AtOmni
  <1>2. state # Null /\ state \in ModelsOf(kind) /\ ~MustReplace(kind, plan, state)
    BY DEF IInv, TypeOK, HandlersFit, PlanFits
  <1>3. PICK c \in ConfigsOf(kind) : plan = PlanOf(kind, c, state)
    BY DEF IInv, PlanFits
  <1>4. StateId(kind, plan) = StateId(kind, state)
    BY <1>2, <1>3 DEF Sound, Planning
  <1>5. ~outdated => config \in ConfigsOf(kind) /\ plan = PlanOf(kind, config, state)
    BY DEF IInv, TypeOK, PlanFits
  <1>6. fresh => ReadBack(kind, o, state) = state
    BY <1>1, <1>2, <1>4 DEF IInv, StateIsTrue, AtOmni
  <1>7. ~rescoped => ShowsScope(kind, o, state)
    BY <1>1, <1>2, <1>4 DEF IInv, ScopeFits, AtOmni
  <1> DEFINE n == Updated(kind, plan, o)
             a == AfterApply(kind, plan, n)
  <1>8. /\ n \in ObjectsOf(kind) /\ ObjectId(kind, n) = ObjectId(kind, o)
        /\ a \in ModelsOf(kind) /\ StateId(kind, a) = ObjectId(kind, n)
        /\ ShowsScope(kind, o, state) => ShowsScope(kind, n, state) /\ ShowsScope(kind, n, a)
        /\ ReadBack(kind, o, state) = state => ReadBack(kind, n, a) = a
    BY <1>1, <1>2, <1>3, <1>4 DEF Sound, Updating
  <1>9. ~outdated /\ ReadBack(kind, o, state) = state => PlanOf(kind, config, a) = a
    BY <1>1, <1>2, <1>4, <1>5 DEF Sound, Updating
  <1>10. QED
    BY <1>1, <1>2, <1>4, <1>6, <1>7, <1>8, <1>9

LEMMA UpdateKeeps == ASSUME Sound(kind), IInv, Update PROVE IInv'
  <1>1. CASE Fail
    BY <1>1, FailKeeps
  <1>2. CASE ~Fail
    <2>1. PICK o \in AtOmni(StateId(kind, plan)) :
            LET n == Updated(kind, plan, o)
            IN  /\ Converts(kind, plan) /\ objects' = (objects \ {o}) \cup {n}
                /\ state' = AfterApply(kind, plan, n) /\ Return
                /\ settled' = (fresh /\ ~outdated)
                /\ UNCHANGED <<kind, config, tearing, fresh, rescoped, events>>
      BY <1>2 DEF Update, Written
    <2>2. pc = "update"
      BY DEF Update
    <2> DEFINE n == Updated(kind, plan, o)
               a == AfterApply(kind, plan, n)
    <2>3. /\ state \in ModelsOf(kind) /\ o \in objects
          /\ n \in ObjectsOf(kind) /\ ObjectId(kind, n) = ObjectId(kind, o)
          /\ a \in ModelsOf(kind) /\ StateId(kind, a) = ObjectId(kind, n)
          /\ ~rescoped => ShowsScope(kind, n, a)
          /\ fresh => ReadBack(kind, n, a) = a
          /\ fresh /\ ~outdated => PlanOf(kind, config, a) = a
      BY <2>1, <2>2, UpdatedIsSound
    <2>4. /\ objects' = (objects \ {o}) \cup {n} /\ state' = a /\ Return
          /\ settled' = (fresh /\ ~outdated)
          /\ UNCHANGED <<kind, config, tearing, fresh, rescoped, events>>
      BY <2>1
    <2> HIDE DEF n, a
    <2>5. /\ DistinctIds' /\ objects' \subseteq ObjectsOf(kind)
          /\ \A x \in objects' : ObjectId(kind, x) = StateId(kind, a) => x = n
          /\ \A id \in tearing' : \E x \in objects' : ObjectId(kind, x) = id
          /\ tearing' # {} => TearsDown(kind)
      BY <2>3, <2>4, InPlace
    <2>6. TypeOK'
      BY <2>3, <2>4, <2>5, EventsInBound DEF IInv, TypeOK, Return
    <2>7. PlanFits' /\ HandlersFit'
      BY <2>4 DEF Return, PlanFits, HandlersFit
    <2>8. ScopeFits' /\ StateIsTrue'
      BY <2>3, <2>4, <2>5 DEF ScopeFits, StateIsTrue, AtOmni
    <2>9. NoSpuriousDiff'
      BY <2>3, <2>4 DEF NoSpuriousDiff, NoDiff, PlanNow
    <2>10. QED
      BY <2>4, <2>5, <2>6, <2>7, <2>8, <2>9 DEF IInv, Return, HistoryFits, Idle
  <1>3. QED
    BY <1>1, <1>2

\* An object that is torn down is as it was otherwise.
LEMMA TornDownIs ==
  ASSUME IInv, Intact, TornDown, UNCHANGED kind
  PROVE  /\ objects' = objects /\ DistinctIds'
         /\ \A id \in tearing' : \E o \in objects' : ObjectId(kind, o) = id
         /\ tearing' # {} => TearsDown(kind)
  BY DEF IInv, TypeOK, DistinctIds, Intact, TornDown, Own, AtOmni

LEMMA DestroyedIs ==
  ASSUME IInv, Destroyed, UNCHANGED kind
  PROVE  /\ objects' \subseteq objects /\ DistinctIds'
         /\ \A id \in tearing' : \E o \in objects' : ObjectId(kind, o) = id
         /\ tearing' # {} => TearsDown(kind)
  <1>1. objects' \subseteq objects /\ DistinctIds' /\ (tearing' # {} => TearsDown(kind))
    BY DEF IInv, TypeOK, DistinctIds, Destroyed
  <1>2. ASSUME NEW id \in tearing' PROVE \E o \in objects' : ObjectId(kind, o) = id
    <2>1. id \in tearing /\ id # StateId(kind, state)
      BY DEF Destroyed
    <2>2. PICK o \in objects : ObjectId(kind, o) = id
      BY <2>1 DEF IInv, TypeOK
    <2>3. QED
      BY <2>1, <2>2 DEF Destroyed, Own, AtOmni
  <1>3. QED
    BY <1>1, <1>2

LEMMA TeardownKeeps == ASSUME IInv, Teardown PROVE IInv'
  <1>1. /\ objects' = objects /\ DistinctIds'
        /\ \A id \in tearing' : \E o \in objects' : ObjectId(kind, o) = id
        /\ tearing' # {} => TearsDown(kind)
    BY TornDownIs DEF Teardown
  <1>2. /\ \/ pc = "replace" /\ pc' = "replacing"
           \/ pc = "delete" /\ pc' = "deleting"
        /\ UNCHANGED <<kind, config, state, plan, outdated, fresh, settled, rescoped, events>>
    BY DEF Teardown, Intact
  <1>3. TypeOK'
    BY <1>1, <1>2, EventsInBound DEF IInv, TypeOK
  <1>4. PlanFits' /\ HandlersFit' /\ HistoryFits'
    BY <1>2 DEF IInv, PlanFits, HandlersFit, HistoryFits, Idle
  <1>5. ScopeFits' /\ StateIsTrue' /\ NoSpuriousDiff'
    BY <1>1, <1>2 DEF IInv, ScopeFits, StateIsTrue, NoSpuriousDiff, NoDiff, PlanNow, AtOmni
  <1>6. QED
    BY <1>1, <1>3, <1>4, <1>5 DEF IInv

LEMMA DestroyKeeps == ASSUME IInv, Destroy PROVE IInv'
  <1>1. /\ objects' \subseteq objects /\ DistinctIds'
        /\ \A id \in tearing' : \E o \in objects' : ObjectId(kind, o) = id
        /\ tearing' # {} => TearsDown(kind)
    BY DestroyedIs DEF Destroy
  <1>2. /\ state' = Null /\ fresh' = FALSE /\ settled' = FALSE
        /\ \/ /\ pc \in {"replace", "replacing"} /\ pc' = "create" /\ UNCHANGED <<plan, outdated>>
           \/ Return
        /\ UNCHANGED <<kind, config, rescoped, events>>
    BY DEF Destroy
  <1>3. TypeOK'
    BY <1>1, <1>2, EventsInBound DEF IInv, TypeOK, Return
  <1>4. PlanFits' /\ HandlersFit' /\ HistoryFits'
    BY <1>2 DEF IInv, Return, PlanFits, HandlersFit, HistoryFits, Idle
  <1>5. ScopeFits' /\ StateIsTrue' /\ NoSpuriousDiff'
    BY <1>2 DEF ScopeFits, StateIsTrue, NoSpuriousDiff
  <1>6. QED
    BY <1>1, <1>3, <1>4, <1>5 DEF IInv

--------------------------------------------------------------------------------
(* Calls that get lost *)

LEMMA UnansweredKeeps == ASSUME Sound(kind), IInv, Unanswered PROVE IInv'
  <1>1. /\ Return /\ Happens /\ fresh' = FALSE /\ settled' = FALSE
        /\ UNCHANGED <<kind, config, state, rescoped>>
    BY DEF Unanswered
  <1>2. CASE /\ pc = "create" /\ Converts(kind, plan)
             /\ AtOmni(ObjectId(kind, Created(kind, plan))) = {}
             /\ objects' = objects \cup {Created(kind, plan)} /\ UNCHANGED tearing
    <2>1. Created(kind, plan) \in ObjectsOf(kind)
      BY <1>2, CreatedIsSound
    <2>2. objects' \subseteq ObjectsOf(kind)
      BY <1>2, <2>1 DEF IInv, TypeOK
    <2>3. DistinctIds'
      BY <1>1, <1>2 DEF IInv, DistinctIds, AtOmni
    <2>4. ScopeFits'
      BY <1>1, <1>2 DEF IInv, HandlersFit, ScopeFits
    <2>5. /\ \A id \in tearing' : \E o \in objects' : ObjectId(kind, o) = id
          /\ tearing' # {} => TearsDown(kind)
      BY <1>2 DEF IInv, TypeOK
    <2>6. QED
      BY <1>1, <2>2, <2>3, <2>4, <2>5, UnansweredCallKeeps
  <1>3. CASE /\ pc = "update" /\ Converts(kind, plan)
             /\ \E o \in AtOmni(StateId(kind, plan)) :
                  objects' = (objects \ {o}) \cup {Updated(kind, plan, o)}
             /\ UNCHANGED tearing
    <2>1. PICK o \in AtOmni(StateId(kind, plan)) :
            objects' = (objects \ {o}) \cup {Updated(kind, plan, o)}
      BY <1>3
    <2> DEFINE n == Updated(kind, plan, o)
    <2>2. /\ o \in objects /\ n \in ObjectsOf(kind) /\ ObjectId(kind, n) = ObjectId(kind, o)
          /\ ObjectId(kind, o) = StateId(kind, state)
          /\ ~rescoped => ShowsScope(kind, n, state)
      BY <1>3, UpdatedIsSound
    <2>3. objects' = (objects \ {o}) \cup {n}
      BY <2>1
    <2> HIDE DEF n
    <2>4. /\ DistinctIds' /\ objects' \subseteq ObjectsOf(kind)
          /\ \A x \in objects' : ObjectId(kind, x) = StateId(kind, state) => x = n
          /\ \A id \in tearing' : \E x \in objects' : ObjectId(kind, x) = id
          /\ tearing' # {} => TearsDown(kind)
      BY <1>1, <1>3, <2>2, <2>3, InPlace
    <2>5. ScopeFits'
      BY <1>1, <2>2, <2>4 DEF ScopeFits, AtOmni
    <2>6. QED
      BY <1>1, <2>4, <2>5, UnansweredCallKeeps
  <1>4. CASE \/ Intact /\ TornDown
             \/ Destroying /\ Destroyed
    <2>1. /\ objects' \subseteq objects /\ DistinctIds'
          /\ \A id \in tearing' : \E o \in objects' : ObjectId(kind, o) = id
          /\ tearing' # {} => TearsDown(kind)
      BY <1>1, <1>4, TornDownIs, DestroyedIs
    <2>2. objects' \subseteq ObjectsOf(kind) /\ ScopeFits'
      BY <1>1, <2>1 DEF IInv, TypeOK, ScopeFits, AtOmni
    <2>3. QED
      BY <1>1, <2>1, <2>2, UnansweredCallKeeps
  <1>5. QED
    BY <1>2, <1>3, <1>4 DEF Unanswered

LEMMA UnreachedKeeps == ASSUME IInv, Unreached PROVE IInv'
  <1>1. TypeOK'
    BY EventsInBound DEF IInv, TypeOK, Unreached, Return
  <1>2. PlanFits' /\ HandlersFit' /\ HistoryFits'
    BY DEF IInv, Unreached, Return, PlanFits, HandlersFit, HistoryFits, Idle
  <1>3. DistinctIds' /\ ScopeFits' /\ StateIsTrue' /\ NoSpuriousDiff'
    BY DEF IInv, Unreached, Return, DistinctIds, ScopeFits, StateIsTrue, NoSpuriousDiff, NoDiff,
       PlanNow, AtOmni
  <1>4. QED
    BY <1>1, <1>2, <1>3 DEF IInv

--------------------------------------------------------------------------------
(* The specification *)

LEMMA NextKeeps == ASSUME Sound(kind), IInv, Next PROVE IInv'
  BY EditConfigKeeps, OthersEditKeeps, RefreshKeeps, ImportKeeps, StartApplyKeeps,
     StartDestroyKeeps, CreateKeeps, UpdateKeeps, TeardownKeeps, DestroyKeeps, UnansweredKeeps,
     UnreachedKeeps
     DEF Next, Handler

LEMMA StutterKeeps == ASSUME IInv, UNCHANGED vars PROVE IInv'
  BY DEF IInv, vars, TypeOK, DistinctIds, PlanFits, HandlersFit, HistoryFits, ScopeFits,
     StateIsTrue, NoSpuriousDiff, NoDiff, PlanNow, Idle, AtOmni

\* A behaviour is about one resource.
LEMMA KindStays == [Next]_vars => kind' = kind
  BY DEF Next, Handler, vars, EditConfig, OthersEdit, Refresh, Import, StartApply, Start,
     StartDestroy, Create, Update, Teardown, Destroy, Fail, Unanswered, Unreached

\* The inductive invariant, of a resource k with sound conversions.
THEOREM Invariance == ASSUME NEW k, Sound(k) PROVE Spec /\ kind = k => [](kind = k /\ IInv)
  <1>1. Init /\ kind = k => kind = k /\ IInv
    BY InitHolds
  <1>2. kind = k /\ IInv /\ [Next]_vars => (kind = k /\ IInv)'
    BY KindStays, NextKeeps, StutterKeeps
  <1>3. QED
    BY <1>1, <1>2, PTL DEF Spec

\* Sound conversions keep the types of configuration, objects, state and plan.
THEOREM Typing == ASSUME NEW k, Sound(k) PROVE Spec /\ kind = k => []TypeOK
  <1>1. IInv => TypeOK
    BY DEF IInv
  <1>2. QED
    BY <1>1, Invariance, PTL

\* What an apply leaves in the state is what Omni holds, and a Read adds nothing to it or to an
\* earlier Read (StateIsTrue), in whatever order others and the provider act.
THEOREM StateTellsTheTruth == ASSUME NEW k, Sound(k) PROVE Spec /\ kind = k => []StateIsTrue
  <1>1. IInv => StateIsTrue
    BY DEF IInv
  <1>2. QED
    BY <1>1, Invariance, PTL

\* Until somebody edits something, there is nothing to plan after an apply (NoSpuriousDiff).
THEOREM AppliesSettle == ASSUME NEW k, Sound(k) PROVE Spec /\ kind = k => []NoSpuriousDiff
  <1>1. IInv => NoSpuriousDiff
    BY DEF IInv
  <1>2. QED
    BY <1>1, Invariance, PTL

\* Nothing to plan after a Read means that the object is as configured (NoHiddenDrift).
THEOREM DriftShows == ASSUME NEW k, Sound(k) PROVE Spec /\ kind = k => []NoHiddenDrift
  <1>1. Sound(kind) /\ IInv => NoHiddenDrift
    <2> SUFFICES ASSUME Sound(kind), IInv, fresh, NoDiff, ~rescoped,
                        NEW o \in AtOmni(StateId(kind, state))
                 PROVE  AsConfigured(kind, config, o)
      BY DEF NoHiddenDrift, Own
    <2>1. o \in ObjectsOf(kind) /\ ObjectId(kind, o) = StateId(kind, state)
      BY DEF IInv, TypeOK, AtOmni
    <2>2. state # Null /\ state \in ModelsOf(kind) /\ config \in ConfigsOf(kind)
      BY DEF IInv, TypeOK, NoDiff
    <2>3. IsRead(kind, o, state) /\ ShowsScope(kind, o, state)
      BY <2>1, <2>2 DEF IInv, StateIsTrue, ScopeFits, IsRead
    <2>4. PlanOf(kind, config, state) = state
      BY DEF NoDiff, PlanNow
    <2>5. QED
      BY <2>1, <2>2, <2>3, <2>4 DEF Sound, Telling
  <1>2. kind = k /\ IInv => NoHiddenDrift
    BY <1>1
  <1>3. QED
    BY <1>2, Invariance, PTL

\* The handlers change, tear down and destroy only the object that the state names
\* (OnlyOwnObjects).
THEOREM OthersObjectsStay == ASSUME NEW k, Sound(k) PROVE Spec /\ kind = k => OnlyOwnObjects
  <1> DEFINE Stay == pc' # pc =>
               /\ \A o \in objects \ objects' :
                    state # Null /\ ObjectId(kind, o) = StateId(kind, state)
               /\ \A id \in tearing' \ tearing : state # Null /\ id = StateId(kind, state)
  <1>1. Sound(kind) /\ IInv /\ [Next]_vars => Stay
    <2> SUFFICES ASSUME Sound(kind), IInv, Next, pc' # pc PROVE Stay
      BY DEF vars
    <2>1. \/ Create \/ Update \/ Teardown \/ Destroy \/ Unanswered
          \/ objects' = objects /\ tearing' = tearing
      BY DEF Next, Handler, EditConfig, OthersEdit, Refresh, Import, StartApply, Start, StartDestroy,
         Unreached
    <2>2. ASSUME NEW o \in objects, o \notin objects'
          PROVE  state # Null /\ ObjectId(kind, o) = StateId(kind, state)
      <3>1. \/ pc = "update" /\ Converts(kind, plan) /\ o \in AtOmni(StateId(kind, plan))
            \/ Destroying /\ o \in AtOmni(StateId(kind, state))
        BY <2>1, <2>2 DEF Create, Update, Teardown, Destroy, TornDown, Destroyed, Unanswered, Fail, Own
      <3>2. state # Null
        BY <3>1 DEF IInv, HandlersFit, Destroying
      <3>3. CASE pc = "update" /\ Converts(kind, plan) /\ o \in AtOmni(StateId(kind, plan))
        BY <3>2, <3>3, UpdatedIsSound
      <3>4. QED
        BY <3>1, <3>2, <3>3 DEF AtOmni
    <2>3. ASSUME NEW id \in tearing', id \notin tearing
          PROVE  state # Null /\ id = StateId(kind, state)
      <3>1. Intact /\ TornDown
        BY <2>1, <2>3 DEF Create, Update, Teardown, Destroy, Destroyed, Unanswered, Fail
      <3>2. QED
        BY <2>3, <3>1 DEF IInv, HandlersFit, Intact, TornDown
    <2>4. QED
      BY <2>2, <2>3
  <1>2. kind = k /\ IInv /\ [Next]_vars => Stay
    BY <1>1
  <1>3. QED
    BY <1>2, Invariance, PTL DEF Spec, OnlyOwnObjects

\* A resource of one kind, with sound conversions, keeps all that it promises.
THEOREM SoundResourceWorks ==
  ASSUME NEW k, Sound(k), Kinds = {k}
  PROVE  Spec => []StateIsTrue /\ []NoSpuriousDiff /\ []NoHiddenDrift /\ OnlyOwnObjects
  <1>1. Spec => Spec /\ kind = k
    BY DEF Spec, Init
  <1>2. Spec => []StateIsTrue
    BY <1>1, StateTellsTheTruth
  <1>3. Spec => []NoSpuriousDiff
    BY <1>1, AppliesSettle
  <1>4. Spec => []NoHiddenDrift
    BY <1>1, DriftShows
  <1>5. Spec => OnlyOwnObjects
    BY <1>1, OthersObjectsStay
  <1>6. QED
    BY <1>2, <1>3, <1>4, <1>5

================================================================================
