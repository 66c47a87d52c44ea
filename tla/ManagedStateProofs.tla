--------------------------- MODULE ManagedStateProofs ---------------------------
(***************************************************************************)
(* For every set of clients, plans and controllers and every bound: the    *)
(* types, the safety properties of ManagedState and the fact that each     *)
(* change a call makes is one step (it implements AtomicState).            *)
(***************************************************************************)
EXTENDS ManagedState, TLAPS

\* The copy a client is about to write is the object with the plan applied and the mark
\* set, as long as the version still is the one it read.
CopyFollowsObject ==
  \A c \in Clients : pc[c] = "put" =>
    /\ req[c].op = "update" /\ Converts(req[c].plan)
    /\ local[c].ver < nextVer
    /\ local[c].plan = req[c].plan /\ local[c].mark
    /\ local[c].phase # "absent"
    /\ ~Gone /\ ~Stale(c) => local[c] = Applied(obj, req[c].plan)

VersionsGrow == obj.ver < nextVer

\* Which call a client is in, for the steps of the abstract specification.
CallMatchesStep ==
  \A c \in Clients :
    /\ status[c] = "busy" <=> pc[c] # "idle"
    /\ pc[c] = "create" => req[c].op = "create" /\ Converts(req[c].plan)
    /\ pc[c] = "get" => req[c].op = "update"
    /\ pc[c] \in {"teardown", "await", "destroy"} => req[c].op = "delete"

\* Diagnostics are reset when a call begins and counted once, when it ends.
DiagsMatchStatus ==
  \A c \in Clients : status[c] = "failed" <=> diags[c] = 1

\* What the clients remember of their own calls.
ClientInv ==
  /\ pc \in [Clients -> {"idle", "create", "get", "put", "teardown", "await", "destroy"}]
  /\ req \in [Clients -> [op : {"create", "update", "delete"}, plan : Plans]]
  /\ local \in [Clients -> Object]
  /\ status \in [Clients -> {"idle", "busy", "ok", "failed"}]
  /\ diags \in [Clients -> 0 .. 1]
  /\ calls \in Nat
  /\ DiagsMatchStatus /\ CallMatchesStep

\* What holds of the object by itself.
ObjectInv ==
  /\ obj \in Object /\ nextVer \in Nat \ {0} /\ foreign \in Nat /\ lastOther \in Nat
  /\ VersionsGrow /\ NoLostForeignWrite /\ WrittenIsMarked /\ OnlyValidPlansStored

IInv == ClientInv /\ ObjectInv /\ CopyFollowsObject

LEMMA IInvImplies == IInv => TypeOK /\ OneCausePerFailure
  BY DEF IInv, ClientInv, ObjectInv, TypeOK, OneCausePerFailure, DiagsMatchStatus

--------------------------------------------------------------------------------
(* What the shared pieces of the actions do *)

LEMMA AbsentIsObject == Absent \in Object
  BY DEF Absent, Object, Phases

\* Everything about the other clients stays as it is.
Alone(c) == \A d \in Clients \ {c} :
  pc'[d] = pc[d] /\ local'[d] = local[d] /\ status'[d] = status[d] /\ diags'[d] = diags[d]

\* The call of client c is over, with at most one diagnostic.
Returned(c) == \E answer \in {"ok", "failed"}, errors \in 0 .. 1 :
                 /\ Finish(c, answer, errors)
                 /\ answer = "failed" <=> errors = 1

LEMMA SuccessReturns == ASSUME NEW c \in Clients, Finish(c, "ok", 0) PROVE Returned(c)
  BY DEF Returned

LEMMA FailureReturns == ASSUME NEW c \in Clients, Finish(c, "failed", 1) PROVE Returned(c)
  BY DEF Returned

LEMMA LandedReturns == ASSUME NEW c \in Clients, Landed(c) PROVE Returned(c)
  <1>1. Reported("unavailable") = 1
    BY DEF Reported
  <1>2. QED
    BY <1>1, SuccessReturns, FailureReturns DEF Landed

LEMMA ReturnedEffect ==
  ASSUME ClientInv, NEW c \in Clients, Returned(c), pc[c] # "idle", UNCHANGED <<req, calls>>
  PROVE  ClientInv' /\ Alone(c) /\ pc'[c] = "idle"
  <1>1. PICK answer \in {"ok", "failed"}, errors \in 0 .. 1 :
          Finish(c, answer, errors) /\ (answer = "failed" <=> errors = 1)
    BY DEF Returned
  <1>2. diags[c] = 0
    BY DEF ClientInv, DiagsMatchStatus, CallMatchesStep
  <1>3. /\ pc' \in [Clients -> {"idle", "create", "get", "put", "teardown", "await", "destroy"}]
        /\ local' \in [Clients -> Object]
        /\ status' \in [Clients -> {"idle", "busy", "ok", "failed"}]
        /\ diags' \in [Clients -> 0 .. 1]
    BY <1>1, <1>2, AbsentIsObject DEF Finish, ClientInv
  <1>4. Alone(c) /\ pc'[c] = "idle" /\ status'[c] = answer /\ diags'[c] = errors
    BY <1>1, <1>2 DEF Finish, ClientInv, Alone
  <1>5. DiagsMatchStatus' /\ CallMatchesStep'
    BY <1>1, <1>3, <1>4, SMTT(30) DEF DiagsMatchStatus, CallMatchesStep, Alone, ClientInv
  <1>6. QED
    BY <1>3, <1>4, <1>5 DEF ClientInv

LEMMA GotoEffect ==
  ASSUME ClientInv, NEW c \in Clients, pc[c] # "idle", UNCHANGED <<req, calls>>,
         NEW where \in {"get", "put", "await", "destroy"}, Goto(c, where),
         where \in {"await", "destroy"} => req[c].op = "delete",
         where \in {"get", "put"} => req[c].op = "update",
         local' \in [Clients -> Object], \A d \in Clients \ {c} : local'[d] = local[d]
  PROVE  ClientInv' /\ Alone(c) /\ pc'[c] = where
  <1>1. pc' \in [Clients -> {"idle", "create", "get", "put", "teardown", "await", "destroy"}]
    BY DEF Goto, ClientInv
  <1>2. Alone(c) /\ pc'[c] = where /\ status' = status /\ diags' = diags
    BY DEF Goto, ClientInv, Alone
  <1>3. DiagsMatchStatus' /\ CallMatchesStep'
    BY <1>1, <1>2 DEF DiagsMatchStatus, CallMatchesStep, Alone, ClientInv
  <1>4. QED
    BY <1>1, <1>2, <1>3 DEF ClientInv

\* The object takes the value o with a version nobody has seen.
LEMMA StoreEffect ==
  ASSUME ObjectInv, NEW o \in Object, Store(o)
  PROVE  /\ obj' \in Object /\ nextVer' \in Nat \ {0} /\ nextVer' = nextVer + 1
         /\ obj'.ver = nextVer /\ VersionsGrow'
         /\ obj'.phase = o.phase /\ obj'.fins = o.fins /\ obj'.plan = o.plan
         /\ obj'.other = o.other /\ obj'.mark = o.mark
  BY DEF Store, Object, ObjectInv, VersionsGrow

\* A copy in flight keeps its relation to the object when nothing happens to the object,
\* when it goes away, and when it gets a new version.
LEMMA CopyFrame ==
  ASSUME IInv, NEW c \in Clients, Alone(c), pc'[c] # "put", UNCHANGED req, nextVer' \in Nat,
         \/ obj' = obj /\ nextVer' = nextVer
         \/ obj' = Absent /\ nextVer' = nextVer
         \/ obj'.ver = nextVer /\ nextVer' = nextVer + 1
  PROVE  CopyFollowsObject'
  <1> SUFFICES ASSUME NEW d \in Clients, pc'[d] = "put"
               PROVE  /\ (req[d].op = "update" /\ Converts(req[d].plan))'
                      /\ local'[d].ver < nextVer'
                      /\ local'[d].plan = req'[d].plan /\ local'[d].mark
                      /\ local'[d].phase # "absent"
                      /\ ~Gone' /\ obj'.ver = local'[d].ver => local'[d] = Applied(obj', req'[d].plan)
    BY DEF CopyFollowsObject, Stale
  <1>1. d # c /\ pc[d] = "put" /\ local'[d] = local[d] /\ req' = req
    BY DEF Alone
  <1>2. /\ req[d].op = "update" /\ Converts(req[d].plan) /\ local[d].ver < nextVer
        /\ local[d].plan = req[d].plan /\ local[d].mark /\ local[d].phase # "absent"
        /\ ~Gone /\ obj.ver = local[d].ver => local[d] = Applied(obj, req[d].plan)
    BY <1>1 DEF IInv, CopyFollowsObject, Stale
  <1>3. local[d].ver \in Nat /\ nextVer \in Nat
    BY DEF IInv, ClientInv, ObjectInv, Object
  <1>4. Absent.phase = "absent"
    BY DEF Absent
  <1>5. QED
    BY <1>1, <1>2, <1>3, <1>4 DEF Gone

\* An action that ends a call without a write.
LEMMA ReturnIInv ==
  ASSUME IInv, NEW c \in Clients, pc[c] # "idle", Returned(c),
         UNCHANGED <<obj, nextVer, req, calls, foreign, lastOther>>
  PROVE  IInv'
  <1>1. ClientInv' /\ Alone(c) /\ pc'[c] # "put"
    BY ReturnedEffect DEF IInv
  <1>2. CopyFollowsObject'
    BY <1>1, CopyFrame DEF IInv, ObjectInv
  <1>3. ObjectInv'
    BY DEF IInv, ObjectInv, VersionsGrow, NoLostForeignWrite, WrittenIsMarked,
           OnlyValidPlansStored, Gone
  <1>4. QED
    BY <1>1, <1>2, <1>3 DEF IInv

--------------------------------------------------------------------------------
(* One lemma per action *)

LEMMA InitIInv == ASSUME Init PROVE IInv
  <1> USE DEF Init
  <1>1. ClientInv
    BY AbsentIsObject DEF ClientInv, DiagsMatchStatus, CallMatchesStep
  <1>2. CopyFollowsObject
    BY DEF CopyFollowsObject
  <1>3. ObjectInv
    BY AbsentIsObject DEF ObjectInv, VersionsGrow, NoLostForeignWrite, WrittenIsMarked,
                          OnlyValidPlansStored, Gone, Absent
  <1>4. QED
    BY <1>1, <1>2, <1>3 DEF IInv

LEMMA BeginIInv == ASSUME IInv, NEW c \in Clients, Begin(c) PROVE IInv'
  <1>1. PICK op \in {"create", "update", "delete"}, p \in Plans :
          /\ op = "create" => Converts(p)
          /\ req' = [req EXCEPT ![c] = [op |-> op, plan |-> p]]
          /\ pc' = [pc EXCEPT ![c] = FirstStep(op)]
    BY DEF Begin
  <1>2. ClientInv'
    BY <1>1 DEF Begin, IInv, ClientInv, DiagsMatchStatus, CallMatchesStep, FirstStep
  <1>3. \A d \in Clients : pc'[d] = "put" => pc[d] = "put" /\ req'[d] = req[d]
    BY <1>1 DEF IInv, ClientInv, FirstStep
  <1>4. CopyFollowsObject'
    BY <1>3 DEF Begin, IInv, CopyFollowsObject, Gone, Stale
  <1>5. ObjectInv'
    BY DEF Begin, IInv, ObjectInv, VersionsGrow, NoLostForeignWrite, WrittenIsMarked,
           OnlyValidPlansStored, Gone
  <1>6. QED
    BY <1>2, <1>4, <1>5 DEF IInv

LEMMA CreateIInv == ASSUME IInv, NEW c \in Clients, Create(c) PROVE IInv'
  <1>1. CASE ~Gone
    <2>1. Finish(c, "failed", 1)
      BY <1>1 DEF Create, Reported
    <2>2. QED
      BY <1>1, <2>1, FailureReturns, ReturnIInv DEF Create
  <1>2. CASE Gone
    <2> DEFINE new == Marked(Fresh(req[c].plan, 0))
    <2>1. /\ pc[c] = "create" /\ Store(new) /\ lastOther' = 0 /\ Landed(c)
          /\ UNCHANGED <<req, calls, foreign>>
      BY <1>2 DEF Create
    <2>2. req[c] \in [op : {"create", "update", "delete"}, plan : Plans] /\ Converts(req[c].plan)
      BY <2>1 DEF IInv, ClientInv, CallMatchesStep
    <2>3. /\ new \in Object /\ new.plan = req[c].plan /\ new.mark /\ new.other = 0
      BY <2>2 DEF Object, Fresh, Marked, Phases
    <2>4. ClientInv' /\ Alone(c) /\ pc'[c] # "put"
      BY <2>1, LandedReturns, ReturnedEffect DEF IInv
    <2>5. ObjectInv'
      <3> HIDE DEF new
      <3>1. QED
        BY <2>1, <2>2, <2>3, StoreEffect
           DEF IInv, ObjectInv, NoLostForeignWrite, WrittenIsMarked, OnlyValidPlansStored, Converts
    <2>6. obj'.ver = nextVer /\ nextVer' = nextVer + 1 /\ nextVer' \in Nat
      <3> HIDE DEF new
      <3>1. QED
        BY <2>1, <2>3, StoreEffect DEF IInv
    <2>7. CopyFollowsObject'
      BY <2>1, <2>4, <2>6, CopyFrame
    <2>8. QED
      BY <2>4, <2>5, <2>7 DEF IInv
  <1>3. QED
    BY <1>1, <1>2

LEMMA ApplyIInv == ASSUME IInv, NEW c \in Clients, Apply(c) PROVE IInv'
  <1>1. pc[c] = "get" /\ UNCHANGED <<obj, nextVer, req, calls, foreign, lastOther>>
    BY DEF Apply
  <1>2. CASE Finish(c, "failed", 1) \/ Finish(c, "ok", 0)
    BY <1>1, <1>2, FailureReturns, SuccessReturns, ReturnIInv
  <1>3. CASE /\ ~Gone /\ Converts(req[c].plan)
             /\ local' = [local EXCEPT ![c] = Applied(obj, req[c].plan)] /\ Goto(c, "put")
    <2>1. /\ Applied(obj, req[c].plan) \in Object
          /\ Applied(obj, req[c].plan).ver = obj.ver
          /\ Applied(obj, req[c].plan).plan = req[c].plan
          /\ Applied(obj, req[c].plan).mark
          /\ Applied(obj, req[c].plan).phase = obj.phase
      BY DEF IInv, ClientInv, ObjectInv, Object, Applied, Marked
    <2>2. local'[c] = Applied(obj, req[c].plan) /\ req[c].op = "update"
      BY <1>1, <1>3 DEF IInv, ClientInv, CallMatchesStep
    <2>3. ClientInv' /\ Alone(c)
      <3>1. local' \in [Clients -> Object] /\ \A d \in Clients \ {c} : local'[d] = local[d]
        BY <1>3, <2>1 DEF IInv, ClientInv
      <3>2. QED
        BY <1>1, <1>3, <2>2, <3>1, GotoEffect DEF IInv
    <2>4. ObjectInv'
      BY <1>1 DEF IInv, ObjectInv, VersionsGrow, NoLostForeignWrite, WrittenIsMarked,
                  OnlyValidPlansStored, Gone
    <2>5. CopyFollowsObject'
      <3> SUFFICES ASSUME NEW d \in Clients, pc'[d] = "put"
                   PROVE  /\ req'[d].op = "update" /\ Converts(req'[d].plan)
                          /\ local'[d].ver < nextVer'
                          /\ local'[d].plan = req'[d].plan /\ local'[d].mark
                          /\ local'[d].phase # "absent"
                          /\ ~Gone' /\ ~Stale(d)' => local'[d] = Applied(obj', req'[d].plan)
        BY DEF CopyFollowsObject
      <3>1. CASE d = c
        BY <1>1, <1>3, <2>1, <2>2, <3>1 DEF Gone, IInv, ObjectInv, VersionsGrow
      <3>2. CASE d # c
        BY <1>1, <2>3, <3>2 DEF IInv, CopyFollowsObject, Alone, Gone, Stale
      <3>3. QED
        BY <3>1, <3>2
    <2>6. QED
      BY <2>3, <2>4, <2>5 DEF IInv
  <1>4. QED
    BY <1>2, <1>3 DEF Apply, Reported

LEMMA PutIInv == ASSUME IInv, NEW c \in Clients, Put(c) PROVE IInv'
  <1>1. pc[c] = "put" /\ UNCHANGED <<req, calls, foreign, lastOther>>
    BY DEF Put
  <1>2. CASE Finish(c, "failed", 1) /\ UNCHANGED <<obj, nextVer>>
    BY <1>1, <1>2, FailureReturns, ReturnIInv
  <1>3. CASE Goto(c, "get") /\ UNCHANGED <<obj, nextVer, local>>
    <2>1. req[c].op = "update"
      BY <1>1 DEF IInv, CopyFollowsObject
    <2>2. ClientInv' /\ Alone(c) /\ pc'[c] # "put"
      <3>1. local' \in [Clients -> Object] /\ \A d \in Clients \ {c} : local'[d] = local[d]
        BY <1>3 DEF IInv, ClientInv
      <3>2. QED
        BY <1>1, <1>3, <2>1, <3>1, GotoEffect DEF IInv
    <2>3. CopyFollowsObject'
      BY <1>1, <1>3, <2>2, CopyFrame DEF IInv, ObjectInv
    <2>4. ObjectInv'
      BY <1>1, <1>3 DEF IInv, ObjectInv, VersionsGrow, NoLostForeignWrite, WrittenIsMarked,
                        OnlyValidPlansStored, Gone
    <2>5. QED
      BY <2>2, <2>3, <2>4 DEF IInv
  <1>4. CASE ~Gone /\ ~Stale(c) /\ ~BeingTornDown /\ Store(local[c]) /\ Landed(c)
    <2>1. /\ local[c] \in Object /\ local[c] = Applied(obj, req[c].plan)
          /\ local[c].plan = req[c].plan /\ local[c].mark /\ Converts(req[c].plan)
      BY <1>1, <1>4 DEF IInv, ClientInv, CopyFollowsObject
    <2>2. local[c].other = obj.other
      BY <2>1 DEF Applied, Marked, IInv, ObjectInv, Object
    <2>3. ClientInv' /\ Alone(c) /\ pc'[c] # "put"
      BY <1>1, <1>4, LandedReturns, ReturnedEffect DEF IInv
    <2>4. ObjectInv'
      BY <1>1, <1>4, <2>1, <2>2, StoreEffect
         DEF IInv, ObjectInv, NoLostForeignWrite, WrittenIsMarked, OnlyValidPlansStored,
             Converts, Gone
    <2>5. obj'.ver = nextVer /\ nextVer' = nextVer + 1 /\ nextVer' \in Nat
      BY <1>4, <2>1, StoreEffect DEF IInv
    <2>6. CopyFollowsObject'
      BY <1>1, <2>3, <2>5, CopyFrame
    <2>7. QED
      BY <2>3, <2>4, <2>6 DEF IInv
  <1>5. QED
    BY <1>2, <1>3, <1>4 DEF Put, Reported

LEMMA TeardownIInv == ASSUME IInv, NEW c \in Clients, Teardown(c) PROVE IInv'
  <1>1. pc[c] = "teardown" /\ UNCHANGED <<req, calls, foreign, lastOther>> /\ req[c].op = "delete"
    BY DEF Teardown, IInv, ClientInv, CallMatchesStep
  <1>2. CASE Finish(c, "ok", 0) /\ UNCHANGED <<obj, nextVer>>
    BY <1>1, <1>2, SuccessReturns, ReturnIInv
  <1>3. ASSUME Goto(c, "await"), UNCHANGED local
        PROVE  ClientInv' /\ Alone(c) /\ pc'[c] # "put"
    <2>1. local' \in [Clients -> Object] /\ \A d \in Clients \ {c} : local'[d] = local[d]
      BY <1>3 DEF IInv, ClientInv
    <2>2. QED
      BY <1>1, <1>3, <2>1, GotoEffect DEF IInv
  <1>4. CASE Goto(c, "await") /\ UNCHANGED <<obj, nextVer, local>>
    <2>1. CopyFollowsObject'
      BY <1>1, <1>3, <1>4, CopyFrame DEF IInv, ObjectInv
    <2>2. ObjectInv'
      BY <1>1, <1>4 DEF IInv, ObjectInv, VersionsGrow, NoLostForeignWrite, WrittenIsMarked,
                        OnlyValidPlansStored, Gone
    <2>3. QED
      BY <1>3, <1>4, <2>1, <2>2 DEF IInv
  <1>5. CASE /\ obj.phase = "running" /\ Store([obj EXCEPT !.phase = "tearing"])
             /\ Goto(c, "await") /\ UNCHANGED local
    <2> DEFINE torn == [obj EXCEPT !.phase = "tearing"]
    <2>1. /\ torn \in Object /\ torn.plan = obj.plan /\ torn.mark = obj.mark
          /\ torn.other = obj.other
      BY DEF IInv, ObjectInv, Object, Phases
    <2>2. ObjectInv' /\ obj'.ver = nextVer /\ nextVer' = nextVer + 1 /\ nextVer' \in Nat
      <3> HIDE DEF torn
      <3>1. Store(torn)
        BY <1>5 DEF torn
      <3>2. QED
        BY <1>1, <1>5, <2>1, <3>1, StoreEffect
           DEF IInv, ObjectInv, NoLostForeignWrite, WrittenIsMarked, OnlyValidPlansStored, Gone
    <2>3. CopyFollowsObject'
      BY <1>1, <1>3, <1>5, <2>2, CopyFrame
    <2>4. QED
      BY <1>3, <1>5, <2>2, <2>3 DEF IInv
  <1>6. QED
    BY <1>2, <1>4, <1>5 DEF Teardown

LEMMA AwaitIInv == ASSUME IInv, NEW c \in Clients, Await(c) PROVE IInv'
  <1>1. /\ pc[c] = "await" /\ req[c].op = "delete" /\ Goto(c, "destroy")
        /\ UNCHANGED <<obj, nextVer, req, local, calls, foreign, lastOther>>
    BY DEF Await, IInv, ClientInv, CallMatchesStep
  <1>2. ClientInv' /\ Alone(c) /\ pc'[c] # "put"
    <2>1. local' \in [Clients -> Object] /\ \A d \in Clients \ {c} : local'[d] = local[d]
      BY <1>1 DEF IInv, ClientInv
    <2>2. QED
      BY <1>1, <2>1, GotoEffect DEF IInv
  <1>3. CopyFollowsObject'
    BY <1>1, <1>2, CopyFrame DEF IInv, ObjectInv
  <1>4. ObjectInv'
    BY <1>1 DEF IInv, ObjectInv, VersionsGrow, NoLostForeignWrite, WrittenIsMarked,
                OnlyValidPlansStored, Gone
  <1>5. QED
    BY <1>2, <1>3, <1>4 DEF IInv

LEMMA DestroyIInv == ASSUME IInv, NEW c \in Clients, Destroy(c) PROVE IInv'
  <1>1. pc[c] = "destroy" /\ UNCHANGED <<nextVer, req, calls, foreign, lastOther>>
    BY DEF Destroy
  <1>2. CASE (Finish(c, "ok", 0) \/ Finish(c, "failed", 1)) /\ UNCHANGED obj
    BY <1>1, <1>2, SuccessReturns, FailureReturns, ReturnIInv
  <1>3. CASE obj' = Absent /\ Landed(c)
    <2>1. ClientInv' /\ Alone(c) /\ pc'[c] # "put"
      BY <1>1, <1>3, LandedReturns, ReturnedEffect DEF IInv
    <2>2. CopyFollowsObject'
      BY <1>1, <1>3, <2>1, CopyFrame DEF IInv, ObjectInv
    <2>3. ObjectInv'
      BY <1>1, <1>3, AbsentIsObject
         DEF IInv, ObjectInv, VersionsGrow, NoLostForeignWrite, WrittenIsMarked,
             OnlyValidPlansStored, Gone, Absent
    <2>4. QED
      BY <2>1, <2>2, <2>3 DEF IInv
  <1>4. QED
    BY <1>2, <1>3 DEF Destroy, Reported

LEMMA AbortIInv == ASSUME IInv, NEW c \in Clients, Abort(c) PROVE IInv'
  <1>1. Finish(c, "failed", 1)
    BY DEF Abort, Reported
  <1>2. QED
    BY <1>1, FailureReturns, ReturnIInv DEF Abort

\* A write of somebody else: the clients notice nothing, and no copy in flight has the new version.
LEMMA OthersFrame ==
  ASSUME IInv, UNCHANGED <<pc, req, local, status, diags, calls>>, nextVer' \in Nat,
         \/ obj' = Absent /\ nextVer' = nextVer
         \/ obj'.ver = nextVer /\ nextVer' = nextVer + 1
  PROVE  ClientInv' /\ CopyFollowsObject'
  <1>1. ClientInv'
    BY DEF IInv, ClientInv, DiagsMatchStatus, CallMatchesStep
  <1>2. CopyFollowsObject'
    <2>1. \A d \in Clients : local[d].ver \in Nat /\ nextVer \in Nat
      BY DEF IInv, ClientInv, ObjectInv, Object
    <2>2. Absent.phase = "absent"
      BY DEF Absent
    <2>3. QED
      BY <2>1, <2>2 DEF IInv, CopyFollowsObject, Gone, Stale
  <1>3. QED
    BY <1>1, <1>2

\* What a write of the other parties makes of the object.
LEMMA OthersEffect ==
  ASSUME ObjectInv, Others
  PROVE  /\ UNCHANGED <<pc, req, local, status, diags, calls>>
         /\ foreign' \in Nat
         /\ \/ OthersDestroy
            \/ \E o \in Object :
                 /\ Store(o) /\ o.phase # "absent"
                 /\ \/ o.plan = NoPlan /\ o.mark = FALSE /\ o.other = lastOther' /\ lastOther' \in Nat
                       /\ Gone
                    \/ o.plan = obj.plan /\ o.mark = obj.mark /\ o.other = lastOther'
                       /\ lastOther' \in Nat /\ ~Gone
                       /\ (obj.phase = "tearing" => o.phase = "tearing" /\ o.fins \subseteq obj.fins)
  <1> DEFINE Adopted(o) ==
        /\ o.plan = obj.plan /\ o.mark = obj.mark /\ o.other = lastOther'
        /\ lastOther' \in Nat /\ ~Gone /\ o.phase # "absent"
        /\ (obj.phase = "tearing" => o.phase = "tearing" /\ o.fins \subseteq obj.fins)
  <1> USE DEF ObjectInv
  <1>1. CASE OthersCreate
    <2> DEFINE o == Fresh(NoPlan, foreign + 1)
    <2>1. /\ o \in Object /\ o.plan = NoPlan /\ o.mark = FALSE /\ o.phase # "absent"
          /\ o.other = foreign + 1
      BY DEF Fresh, Object, Phases
    <2> HIDE DEF o
    <2>2. Store(o) /\ lastOther' = foreign + 1 /\ foreign' = foreign + 1 /\ Gone
      BY <1>1 DEF OthersCreate, ForeignWrite, o
    <2>3. QED
      BY <1>1, <2>1, <2>2 DEF OthersCreate, ForeignWrite
  <1>2. CASE OthersUpdate
    <2> DEFINE o == [obj EXCEPT !.other = foreign + 1]
    <2>1. /\ o \in Object /\ o.plan = obj.plan /\ o.mark = obj.mark /\ o.phase = obj.phase
          /\ o.other = foreign + 1 /\ o.fins = obj.fins
      BY DEF Object
    <2> HIDE DEF o
    <2>2. Store(o) /\ lastOther' = foreign + 1 /\ foreign' = foreign + 1 /\ ~Gone
      BY <1>2 DEF OthersUpdate, ForeignWrite, o
    <2>3. QED
      BY <1>2, <2>1, <2>2 DEF OthersUpdate, ForeignWrite, Gone
  <1>3. ASSUME NEW h \in Holders, AddFinalizer(h)
        PROVE  foreign' \in Nat /\ \E o \in Object : Store(o) /\ Adopted(o)
    <2> DEFINE o == [obj EXCEPT !.fins = @ \cup {h}]
    <2>1. /\ o \in Object /\ o.plan = obj.plan /\ o.mark = obj.mark /\ o.phase = obj.phase
          /\ o.other = obj.other
      BY DEF Object
    <2> HIDE DEF o
    <2>2. Store(o) /\ lastOther' = lastOther /\ foreign' = foreign + 1 /\ obj.phase = "running"
      BY <1>3 DEF AddFinalizer, ForeignWrite, o
    <2>3. QED
      BY <2>1, <2>2 DEF Gone, NoLostForeignWrite
  <1>4. CASE OthersTeardown
    <2> DEFINE o == [obj EXCEPT !.phase = "tearing"]
    <2>1. /\ o \in Object /\ o.plan = obj.plan /\ o.mark = obj.mark /\ o.phase = "tearing"
          /\ o.other = obj.other
      BY DEF Object, Phases
    <2> HIDE DEF o
    <2>2. Store(o) /\ lastOther' = lastOther /\ foreign' = foreign + 1 /\ obj.phase = "running"
      BY <1>4 DEF OthersTeardown, ForeignWrite, o
    <2>3. QED
      BY <1>4, <2>1, <2>2 DEF Gone, NoLostForeignWrite, OthersTeardown, ForeignWrite
  <1>5. ASSUME NEW h \in Holders, RemoveFinalizer(h)
        PROVE  foreign' \in Nat /\ \E o \in Object : Store(o) /\ Adopted(o)
    <2> DEFINE o == [obj EXCEPT !.fins = @ \ {h}]
    <2>1. /\ o \in Object /\ o.plan = obj.plan /\ o.mark = obj.mark /\ o.phase = obj.phase
          /\ o.other = obj.other /\ o.fins \subseteq obj.fins
      BY DEF Object
    <2> HIDE DEF o
    <2>2. Store(o) /\ lastOther' = lastOther /\ foreign' = foreign /\ obj.phase = "tearing"
      BY <1>5 DEF RemoveFinalizer, o
    <2>3. QED
      BY <2>1, <2>2 DEF Gone, NoLostForeignWrite
  <1>6. CASE OthersDestroy
    BY <1>6 DEF OthersDestroy
  <1>7. ASSUME NEW h \in Holders, AddFinalizer(h) \/ RemoveFinalizer(h)
        PROVE  UNCHANGED <<pc, req, local, status, diags, calls>>
    BY <1>7 DEF AddFinalizer, RemoveFinalizer, ForeignWrite
  <1>8. QED
    BY <1>1, <1>2, <1>3, <1>4, <1>5, <1>6, <1>7 DEF Others

LEMMA OthersIInv == ASSUME IInv, Others PROVE IInv'
  <1>1. UNCHANGED <<pc, req, local, status, diags, calls>> /\ foreign' \in Nat
    BY OthersEffect DEF IInv
  <1>2. CASE OthersDestroy
    <2>1. ObjectInv'
      BY <1>2, AbsentIsObject
         DEF OthersDestroy, IInv, ObjectInv, VersionsGrow, NoLostForeignWrite, WrittenIsMarked,
             OnlyValidPlansStored, Gone, Absent
    <2>2. obj' = Absent /\ nextVer' = nextVer /\ nextVer' \in Nat
      BY <1>2 DEF OthersDestroy, IInv, ObjectInv
    <2>3. QED
      BY <1>1, <2>1, <2>2, OthersFrame DEF IInv
  <1>3. CASE ~OthersDestroy
    <2>1. PICK o \in Object :
            /\ Store(o)
            /\ \/ o.plan = NoPlan /\ o.mark = FALSE
               \/ o.plan = obj.plan /\ o.mark = obj.mark
            /\ o.other = lastOther' /\ lastOther' \in Nat
      BY <1>3, OthersEffect DEF IInv
    <2>2. ObjectInv' /\ obj'.ver = nextVer /\ nextVer' = nextVer + 1 /\ nextVer' \in Nat
      BY <1>1, <2>1, StoreEffect
         DEF IInv, ObjectInv, NoLostForeignWrite, WrittenIsMarked, OnlyValidPlansStored
    <2>3. QED
      BY <1>1, <2>2, OthersFrame DEF IInv
  <1>4. QED
    BY <1>2, <1>3

LEMMA NextIInv == ASSUME IInv, [Next]_vars PROVE IInv'
  <1>1. CASE UNCHANGED vars
    BY <1>1 DEF vars, IInv, ClientInv, ObjectInv, DiagsMatchStatus, CallMatchesStep,
                CopyFollowsObject, VersionsGrow, NoLostForeignWrite, WrittenIsMarked,
                OnlyValidPlansStored, Gone, Stale
  <1>2. CASE Others
    BY <1>2, OthersIInv
  <1>3. CASE \E c \in Clients : Begin(c) \/ Step(c) \/ Abort(c)
    BY <1>3, BeginIInv, CreateIInv, ApplyIInv, PutIInv, TeardownIInv, AwaitIInv, DestroyIInv,
       AbortIInv DEF Step
  <1>4. QED
    BY <1>1, <1>2, <1>3 DEF Next

--------------------------------------------------------------------------------
(* The theorems *)

LEMMA Invariance == Spec => []IInv
  <1>1. Init => IInv
    BY InitIInv
  <1>2. IInv /\ [Next]_vars => IInv'
    BY NextIInv
  <1>3. QED
    BY <1>1, <1>2, PTL DEF Spec

\* The state of every call and of the object has its type (TypeOK, ManagedState.tla).
THEOREM Typing == Spec => []TypeOK
  BY Invariance, IInvImplies, PTL

\* No update of the provider overwrites what another party wrote after it was read
\* (NoLostForeignWrite): any number of clients, writers and retries.
THEOREM ForeignWritesSurvive == Spec => []NoLostForeignWrite
  <1>1. IInv => NoLostForeignWrite
    BY DEF IInv, ObjectInv
  <1>2. QED
    BY <1>1, Invariance, PTL

\* Whatever the provider wrote is marked as managed by Terraform (WrittenIsMarked).
THEOREM WritesAreMarked == Spec => []WrittenIsMarked
  <1>1. IInv => WrittenIsMarked
    BY DEF IInv, ObjectInv
  <1>2. QED
    BY <1>1, Invariance, PTL

\* What is at Omni is a plan whose conversion succeeded, or what others have put there
\* (OnlyValidPlansStored): a conversion that fails ends the call before the compare-and-set.
THEOREM WritesAreValid == Spec => []OnlyValidPlansStored
  <1>1. IInv => OnlyValidPlansStored
    BY DEF IInv, ObjectInv
  <1>2. QED
    BY <1>1, Invariance, PTL

\* A failed call has exactly one error diagnostic, a successful one none (OneCausePerFailure).
THEOREM FailuresHaveOneCause == Spec => []OneCausePerFailure
  BY Invariance, IInvImplies, PTL

--------------------------------------------------------------------------------
(* What a step may never do *)

\* A step of a client leaves an object that is being torn down alone, or destroys it.
LEMMA ClientStepAndTeardown ==
  ASSUME IInv, NEW c \in Clients, Begin(c) \/ Step(c) \/ Abort(c)
  PROVE  obj.phase = "tearing" => obj' = obj \/ obj' = Absent
  <1>1. CASE Begin(c) \/ Apply(c) \/ Await(c) \/ Abort(c)
    BY <1>1 DEF Begin, Apply, Await, Abort, Gone
  <1>2. CASE Create(c)
    <2>1. CASE Gone
      BY <2>1 DEF Gone
    <2>2. CASE ~Gone
      BY <1>2, <2>2 DEF Create, Gone
    <2>3. QED
      BY <2>1, <2>2
  <1>3. CASE Put(c)
    <2>1. CASE UNCHANGED obj
      BY <2>1 DEF Gone
    <2>2. CASE /\ pc[c] = "put" /\ ~BeingTornDown /\ Store(local[c])
      <3>1. local[c] \in Object /\ local[c].phase # "absent"
        BY <2>2 DEF IInv, ClientInv, CopyFollowsObject
      <3>2. obj'.phase = local[c].phase
        BY <2>2, <3>1, StoreEffect DEF IInv
      <3>3. QED
        BY <2>2, <3>1, <3>2 DEF Gone, BeingTornDown
    <2>3. QED
      BY <1>3, <2>1, <2>2 DEF Put
  <1>4. CASE Teardown(c)
    <2> DEFINE torn == [obj EXCEPT !.phase = "tearing"]
    <2>1. CASE UNCHANGED obj
      BY <2>1 DEF Gone
    <2>2. CASE obj.phase = "running" /\ Store(torn)
      <3>1. torn \in Object /\ torn.phase = "tearing"
        BY DEF IInv, ObjectInv, Object, Phases
      <3> HIDE DEF torn
      <3>2. obj'.phase = "tearing"
        BY <2>2, <3>1, StoreEffect DEF IInv
      <3>3. QED
        BY <2>2, <3>2 DEF Gone
    <2>3. QED
      BY <1>4, <2>1, <2>2 DEF Teardown
  <1>5. CASE Destroy(c)
    BY <1>5 DEF Destroy, Held, Gone
  <1>6. QED
    BY <1>1, <1>2, <1>3, <1>4, <1>5 DEF Step

LEMMA OthersAndTeardown ==
  ASSUME IInv, Others
  PROVE  obj.phase = "tearing" =>
           \/ obj' = Absent
           \/ obj'.phase = "tearing" /\ obj'.plan = obj.plan /\ obj'.fins \subseteq obj.fins
  <1>1. CASE OthersDestroy
    BY <1>1 DEF OthersDestroy
  <1>2. CASE ~OthersDestroy
    <2>1. PICK o \in Object :
            /\ Store(o) /\ o.phase # "absent"
            /\ \/ Gone
               \/ /\ o.plan = obj.plan
                  /\ obj.phase = "tearing" => o.phase = "tearing" /\ o.fins \subseteq obj.fins
      BY <1>2, OthersEffect DEF IInv
    <2>2. obj'.phase = o.phase /\ obj'.plan = o.plan /\ obj'.fins = o.fins
      BY <2>1, StoreEffect DEF IInv
    <2>3. QED
      BY <2>1, <2>2 DEF Gone
  <1>3. QED
    BY <1>1, <1>2

\* An object being torn down is never written again by the provider, nor revived by anybody
\* (TeardownIsFinal).
THEOREM TeardownNeverUndone == Spec => TeardownIsFinal
  <1>1. IInv /\ [Next]_vars =>
          [obj.phase = "tearing" =>
             \/ obj'.phase = "absent"
             \/ obj'.phase = "tearing" /\ obj'.plan = obj.plan /\ obj'.fins \subseteq obj.fins]_vars
    <2> SUFFICES ASSUME IInv, Next, obj.phase = "tearing"
                 PROVE  \/ obj'.phase = "absent"
                        \/ obj'.phase = "tearing" /\ obj'.plan = obj.plan /\ obj'.fins \subseteq obj.fins
      OBVIOUS
    <2>1. Absent.phase = "absent"
      BY DEF Absent
    <2>2. CASE Others
      BY <2>1, <2>2, OthersAndTeardown
    <2>3. CASE \E c \in Clients : Begin(c) \/ Step(c) \/ Abort(c)
      BY <2>1, <2>3, ClientStepAndTeardown
    <2>4. QED
      BY <2>2, <2>3 DEF Next
  <1>2. QED
    BY <1>1, Invariance, PTL DEF Spec, TeardownIsFinal

--------------------------------------------------------------------------------
(* Every change is atomic: ManagedState implements AtomicState *)

LEMMA ThingType ==
  ASSUME NEW o \in Object
  PROVE  /\ WithoutVersion(o) \in Atomic!Thing
         /\ WithoutVersion(o).phase = o.phase /\ WithoutVersion(o).fins = o.fins
         /\ WithoutVersion(o).plan = o.plan /\ WithoutVersion(o).other = o.other
         /\ WithoutVersion(o).mark = o.mark
  BY DEF Object, WithoutVersion, Atomic!Thing, Atomic!Phases, Phases

LEMMA InitRefines == Init => Atomic!Init
  <1> SUFFICES ASSUME Init PROVE Atomic!Init
    OBVIOUS
  <1>1. WithoutVersion(obj) \in Atomic!Thing /\ WithoutVersion(obj).phase = "absent"
    BY ThingType, AbsentIsObject DEF Init, Absent
  <1>2. req \in [Clients -> Atomic!Requests]
    BY DEF Init, Atomic!Requests
  <1>3. QED
    BY <1>1, <1>2 DEF Init, Atomic!Init, Atomic!Gone

LEMMA FailRefines ==
  ASSUME IInv, NEW c \in Clients, pc[c] # "idle", Finish(c, "failed", 1), UNCHANGED <<obj, req>>
  PROVE  Atomic!Fail(c)
  BY DEF IInv, ClientInv, CallMatchesStep, Finish, Atomic!Fail, Atomic!Answer, WithoutVersion

LEMMA LandedAnswers ==
  ASSUME NEW c \in Clients, Landed(c)
  PROVE  \E answer \in {"ok", "failed"} : Atomic!Answer(c, answer)
  BY DEF Landed, Finish, Atomic!Answer

LEMMA BeginRefines == ASSUME IInv, NEW c \in Clients, Begin(c) PROVE Atomic!Begin(c)
  <1>1. status[c] # "busy"
    BY DEF Begin, IInv, ClientInv, CallMatchesStep
  <1>2. \E r \in Atomic!Requests : req' = [req EXCEPT ![c] = r]
    BY DEF Begin, Atomic!Requests
  <1>3. QED
    BY <1>1, <1>2 DEF Begin, Atomic!Begin, Atomic!Answer, WithoutVersion

LEMMA CreateRefines ==
  ASSUME IInv, NEW c \in Clients, Create(c)
  PROVE  Atomic!Create(c) \/ Atomic!Fail(c)
  <1>1. CASE ~Gone
    <2>1. Finish(c, "failed", 1)
      BY <1>1 DEF Create, Reported
    <2>2. QED
      BY <1>1, <2>1, FailRefines DEF Create
  <1>2. CASE Gone
    <2> DEFINE new == Marked(Fresh(req[c].plan, 0))
    <2>1. pc[c] = "create" /\ Store(new) /\ Landed(c) /\ UNCHANGED req
      BY <1>2 DEF Create
    <2>2. status[c] = "busy" /\ req[c].op = "create" /\ req[c].plan \in Plans
      BY <2>1 DEF IInv, ClientInv, CallMatchesStep
    <2>3. /\ new \in Object /\ new.plan = req[c].plan /\ new.mark /\ new.phase = "running"
          /\ new.fins = {}
      BY <2>2 DEF Object, Fresh, Marked, Phases
    <2> HIDE DEF new
    <2>4. /\ obj' \in Object /\ obj'.plan = req[c].plan /\ obj'.mark
          /\ obj'.phase = "running" /\ obj'.fins = {}
      BY <2>1, <2>3, StoreEffect DEF IInv
    <2>5. /\ WithoutVersion(obj') \in Atomic!Thing /\ WithoutVersion(obj').phase = "running"
          /\ WithoutVersion(obj').plan = req[c].plan /\ WithoutVersion(obj').mark
          /\ WithoutVersion(obj').fins = {}
      BY <2>4, ThingType
    <2>6. WithoutVersion(obj).phase = "absent"
      BY <1>2, ThingType DEF IInv, ObjectInv, Gone
    <2>7. QED
      BY <2>1, <2>2, <2>5, <2>6, LandedAnswers DEF Atomic!Create, Atomic!Gone
  <1>3. QED
    BY <1>1, <1>2

LEMMA ApplyRefines ==
  ASSUME IInv, NEW c \in Clients, Apply(c)
  PROVE  Atomic!Unchanged(c) \/ Atomic!Fail(c) \/ UNCHANGED Atomic!vars
  <1>1. /\ pc[c] = "get" /\ UNCHANGED <<obj, req>> /\ status[c] = "busy"
        /\ req[c].op = "update" /\ obj \in Object /\ req[c].plan \in Plans
    BY DEF Apply, IInv, ClientInv, ObjectInv, CallMatchesStep
  <1>2. CASE Finish(c, "failed", 1)
    BY <1>1, <1>2, FailRefines
  <1>3. CASE /\ ~Gone /\ Converts(req[c].plan) /\ Applied(obj, req[c].plan) = obj
             /\ Finish(c, "ok", 0)
    <2>1. obj.plan = req[c].plan /\ obj.mark
      <3>1. Applied(obj, req[c].plan).plan = req[c].plan /\ Applied(obj, req[c].plan).mark
        BY <1>1 DEF Applied, Marked, Object
      <3>2. QED
        BY <1>3, <3>1
    <2>2. /\ WithoutVersion(obj).phase # "absent" /\ WithoutVersion(obj).plan = req[c].plan
          /\ WithoutVersion(obj).mark
      BY <1>1, <1>3, <2>1, ThingType DEF Gone
    <2>3. Atomic!Answer(c, "ok") /\ WithoutVersion(obj)' = WithoutVersion(obj)
      BY <1>1, <1>3 DEF Finish, Atomic!Answer, WithoutVersion
    <2>4. QED
      BY <1>1, <1>3, <2>2, <2>3 DEF Atomic!Unchanged, Atomic!Gone, Converts
  <1>4. CASE Goto(c, "put")
    BY <1>1, <1>4 DEF Goto, Atomic!vars, WithoutVersion
  <1>5. QED
    BY <1>2, <1>3, <1>4 DEF Apply, Reported

LEMMA PutRefines ==
  ASSUME IInv, NEW c \in Clients, Put(c)
  PROVE  Atomic!Update(c) \/ Atomic!Fail(c) \/ UNCHANGED Atomic!vars
  <1>1. /\ pc[c] = "put" /\ UNCHANGED req /\ status[c] = "busy" /\ req[c].op = "update"
        /\ Converts(req[c].plan) /\ req[c].plan \in Plans /\ obj \in Object
    BY DEF Put, IInv, ClientInv, ObjectInv, CallMatchesStep, CopyFollowsObject
  <1>2. CASE Finish(c, "failed", 1) /\ UNCHANGED obj
    BY <1>1, <1>2, FailRefines
  <1>3. CASE Goto(c, "get") /\ UNCHANGED obj
    BY <1>1, <1>3 DEF Goto, Atomic!vars, WithoutVersion
  <1>4. CASE ~Gone /\ ~Stale(c) /\ ~BeingTornDown /\ Store(local[c]) /\ Landed(c)
    <2>1. local[c] \in Object /\ local[c] = Applied(obj, req[c].plan)
      BY <1>1, <1>4 DEF IInv, ClientInv, CopyFollowsObject
    <2>2. /\ local[c].phase = obj.phase /\ local[c].fins = obj.fins
          /\ local[c].plan = req[c].plan /\ local[c].other = obj.other /\ local[c].mark = TRUE
      BY <1>1, <2>1 DEF Applied, Marked, Object
    <2>3. /\ obj'.phase = obj.phase /\ obj'.fins = obj.fins /\ obj'.plan = req[c].plan
          /\ obj'.other = obj.other /\ obj'.mark = TRUE
      BY <1>4, <2>1, <2>2, StoreEffect DEF IInv
    <2>4. WithoutVersion(obj)' =
            [phase |-> WithoutVersion(obj).phase, fins |-> WithoutVersion(obj).fins,
             other |-> WithoutVersion(obj).other, plan |-> req[c].plan, mark |-> TRUE]
      BY <1>1, <2>3, ThingType DEF WithoutVersion
    <2>5. WithoutVersion(obj).phase = "running"
      BY <1>1, <1>4, ThingType DEF Gone, BeingTornDown, Object, Phases
    <2>6. QED
      BY <1>1, <1>4, <2>4, <2>5, LandedAnswers DEF Atomic!Update, Converts
  <1>5. QED
    BY <1>2, <1>3, <1>4 DEF Put, Reported

LEMMA GoneRefines ==
  ASSUME IInv, NEW c \in Clients, pc[c] \in {"teardown", "destroy"}, UNCHANGED req,
         \/ Gone /\ UNCHANGED obj /\ Finish(c, "ok", 0)
         \/ obj.fins = {} /\ obj' = Absent /\ Landed(c)
  PROVE  Atomic!Destroy(c)
  <1>1. status[c] = "busy" /\ req[c].op = "delete" /\ obj \in Object
    BY DEF IInv, ClientInv, ObjectInv, CallMatchesStep
  <1>2. obj' \in Object /\ obj'.phase = "absent"
    <2>1. CASE Gone /\ UNCHANGED obj
      BY <1>1, <2>1 DEF Gone
    <2>2. CASE obj' = Absent
      BY <2>2, AbsentIsObject DEF Absent
    <2>3. QED
      BY <2>1, <2>2
  <1>3. WithoutVersion(obj') \in Atomic!Thing /\ WithoutVersion(obj').phase = "absent"
    BY <1>2, ThingType
  <1>4. WithoutVersion(obj).phase = "absent" \/ WithoutVersion(obj).fins = {}
    BY <1>1, ThingType DEF Gone
  <1>5. \E answer \in {"ok", "failed"} : Atomic!Answer(c, answer)
    BY LandedAnswers DEF Finish, Atomic!Answer
  <1>6. QED
    BY <1>1, <1>3, <1>4, <1>5 DEF Atomic!Destroy, Atomic!Gone

LEMMA TeardownRefines ==
  ASSUME IInv, NEW c \in Clients, Teardown(c)
  PROVE  Atomic!Teardown(c) \/ Atomic!Destroy(c) \/ UNCHANGED Atomic!vars
  <1>1. /\ pc[c] = "teardown" /\ UNCHANGED req /\ status[c] = "busy" /\ req[c].op = "delete"
        /\ obj \in Object
    BY DEF Teardown, IInv, ClientInv, ObjectInv, CallMatchesStep
  <1>2. CASE Gone /\ UNCHANGED obj /\ Finish(c, "ok", 0)
    BY <1>1, <1>2, GoneRefines
  <1>3. CASE Goto(c, "await") /\ UNCHANGED obj
    BY <1>1, <1>3 DEF Goto, Atomic!vars, WithoutVersion
  <1>4. CASE obj.phase = "running" /\ Store([obj EXCEPT !.phase = "tearing"]) /\ Goto(c, "await")
    <2> DEFINE torn == [obj EXCEPT !.phase = "tearing"]
    <2>1. /\ torn \in Object /\ torn.phase = "tearing" /\ torn.fins = obj.fins
          /\ torn.plan = obj.plan /\ torn.other = obj.other /\ torn.mark = obj.mark
      BY <1>1 DEF Object, Phases
    <2>2. Store(torn)
      BY <1>4
    <2> HIDE DEF torn
    <2>3. /\ obj'.phase = "tearing" /\ obj'.fins = obj.fins /\ obj'.plan = obj.plan
          /\ obj'.other = obj.other /\ obj'.mark = obj.mark
      BY <2>1, <2>2, StoreEffect DEF IInv
    <2>4. WithoutVersion(obj)' = [WithoutVersion(obj) EXCEPT !.phase = "tearing"]
      BY <2>3 DEF WithoutVersion
    <2>5. WithoutVersion(obj).phase # "absent"
      BY <1>1, <1>4, ThingType
    <2>6. status' = status
      BY <1>4 DEF Goto
    <2>7. QED
      BY <1>1, <2>4, <2>5, <2>6 DEF Atomic!Teardown, Atomic!Gone
  <1>5. QED
    BY <1>2, <1>3, <1>4 DEF Teardown

LEMMA DestroyRefines ==
  ASSUME IInv, NEW c \in Clients, Destroy(c)
  PROVE  Atomic!Destroy(c) \/ Atomic!Fail(c)
  <1>1. CASE Finish(c, "failed", 1) /\ UNCHANGED obj
    BY <1>1, FailRefines DEF Destroy
  <1>2. CASE ~(Finish(c, "failed", 1) /\ UNCHANGED obj)
    BY <1>2, GoneRefines DEF Destroy, Reported, Held
  <1>3. QED
    BY <1>1, <1>2

LEMMA OthersRefine == ASSUME IInv, Others PROVE Atomic!Others
  <1>1. obj \in Object /\ UNCHANGED <<req, status>>
    BY OthersEffect DEF IInv, ObjectInv
  <1>2. CASE OthersDestroy
    <2>1. obj' \in Object /\ obj'.phase = "absent" /\ obj.fins = {}
      BY <1>2, AbsentIsObject DEF OthersDestroy, Absent
    <2>2. QED
      BY <1>1, <2>1, ThingType DEF Atomic!Others, Atomic!Gone
  <1>3. CASE ~OthersDestroy
    <2>1. PICK o \in Object :
            /\ Store(o)
            /\ \/ o.plan = NoPlan /\ o.mark = FALSE /\ Gone
               \/ o.plan = obj.plan /\ o.mark = obj.mark /\ ~Gone
      BY <1>3, OthersEffect DEF IInv
    <2>2. obj' \in Object /\ obj'.plan = o.plan /\ obj'.mark = o.mark
      BY <2>1, StoreEffect DEF IInv
    <2>3. /\ WithoutVersion(obj)' \in Atomic!Thing /\ WithoutVersion(obj)'.plan = o.plan
          /\ WithoutVersion(obj)'.mark = o.mark
      BY <2>2, ThingType
    <2>4. /\ WithoutVersion(obj).phase = obj.phase /\ WithoutVersion(obj).plan = obj.plan
          /\ WithoutVersion(obj).mark = obj.mark
      BY <1>1, ThingType
    <2>5. QED
      BY <1>1, <2>1, <2>3, <2>4 DEF Atomic!Others, Atomic!Gone, Gone
  <1>4. QED
    BY <1>2, <1>3

\* Whatever runs beside it: an update's reads, conflicts and retries come to one change of the
\* object as it is then, or to a failure that changes nothing, and so does a creation; the answer
\* to a change may be lost.  A deletion comes to two changes, and may fail after the first, the
\* object being torn down (StepsAreAtomic): so much the models of the resources take for granted.
THEOREM StepsLookAtomic == Spec => StepsAreAtomic
  <1>1. Init => Atomic!Init
    BY InitRefines
  <1>2. IInv /\ [Next]_vars => [Atomic!Next]_Atomic!vars
    <2> SUFFICES ASSUME IInv, [Next]_vars PROVE Atomic!Next \/ UNCHANGED Atomic!vars
      OBVIOUS
    <2>1. CASE UNCHANGED vars
      BY <2>1 DEF vars, Atomic!vars, WithoutVersion
    <2>2. CASE Others
      BY <2>2, OthersRefine DEF Atomic!Next
    <2>3. ASSUME NEW c \in Clients, Begin(c) \/ Step(c) \/ Abort(c)
          PROVE  Atomic!Next \/ UNCHANGED Atomic!vars
      <3>1. CASE Await(c)
        BY <3>1 DEF Await, Goto, Atomic!vars, WithoutVersion
      <3>2. CASE Abort(c)
        BY <3>2, FailRefines DEF Abort, Reported, Atomic!Next
      <3>3. CASE Begin(c) \/ Create(c) \/ Apply(c) \/ Put(c) \/ Teardown(c) \/ Destroy(c)
        BY <3>3, BeginRefines, CreateRefines, ApplyRefines, PutRefines, TeardownRefines,
           DestroyRefines DEF Atomic!Next
      <3>4. QED
        BY <2>3, <3>1, <3>2, <3>3 DEF Step
    <2>4. QED
      BY <2>1, <2>2, <2>3 DEF Next
  <1>3. QED
    BY <1>1, <1>2, Invariance, PTL DEF Spec, StepsAreAtomic, Atomic!Spec

================================================================================
