------------------------------ MODULE ManagedState ------------------------------
(***************************************************************************)
(* src/pkg/omni/state.go and updateWithDiags of src/pkg/omni/util.go: the  *)
(* one door through which the resource handlers change objects of Omni.    *)
(*                                                                         *)
(* managedState wraps the COSI state of the Omni client and tags whatever  *)
(* it creates or updates.  The COSI state itself is a library (external):  *)
(* it is modelled by what src/ relies on, optimistic concurrency with      *)
(* versions, phases and finalizers.  One object, several concurrent calls  *)
(* of the provider on it (parallel or timed-out and repeated terraform     *)
(* runs), and the other parties that write it: Omni's controllers, the UI. *)
(***************************************************************************)
EXTENDS Naturals, FiniteSets

CONSTANTS Clients,     \* concurrent calls of the provider
          Plans,       \* values a plan can give the fields the provider owns
          ValidPlans,  \* those the apply callback can convert
          NoPlan,      \* the provider never wrote the object
          Holders,     \* controllers that may put a finalizer on the object
          MaxCalls,    \* bound: calls the provider makes
          MaxForeign   \* bound: writes of the other parties

ASSUME PlansAssumption == ValidPlans \subseteq Plans /\ NoPlan \notin Plans
ASSUME BoundAssumption == MaxCalls \in Nat /\ MaxForeign \in Nat

VARIABLES
  obj,      \* the object in the store; its phase says whether there is one
  nextVer,  \* version the next write gets; never used twice, even by a re-created object
  pc,       \* pc[c]: where the call of client c stands
  req,      \* req[c]: the call, with the plan it carries
  local,    \* local[c]: the copy UpdateWithConflicts works on
  status,   \* status[c]: idle, busy, or how the last call ended
  diags,    \* diags[c]: number of error diagnostics the call left
  calls,    \* calls begun
  foreign,  \* writes of other parties so far
  lastOther \* history: what other parties last wrote into the live object

vars == <<obj, nextVer, pc, req, local, status, diags, calls, foreign, lastOther>>

Phases == {"absent", "running", "tearing"}

Object == [phase : Phases, ver : Nat, fins : SUBSET Holders,
           plan : Plans \cup {NoPlan}, other : Nat, mark : BOOLEAN]

Absent == [phase |-> "absent", ver |-> 0, fins |-> {}, plan |-> NoPlan,
           other |-> 0, mark |-> FALSE]

\* An object just created by the provider (with a plan) or by somebody else.
Fresh(plan, other) == [phase |-> "running", ver |-> 0, fins |-> {}, plan |-> plan,
                       other |-> other, mark |-> FALSE]

Gone == obj.phase = "absent"

(* Operators called Never..., No..., Always..., ...Forgotten, ...Rebased, ...Spinning are not
   the code: each is a plausible bug in the definition that follows it, put in its place to
   see that the properties notice. *)

NeverStale(c) == FALSE

\* Another writer came in between: the copy of c is older than the object.
Stale(c) == obj.ver # local[c].ver

NoPhaseCheck == FALSE

\* StateUpdateWithConflicts expects the object in its running phase.
BeingTornDown == obj.phase = "tearing"

\* A controller still has work to do before the object may go.
Held == obj.fins # {}

AlwaysConverts(p) == TRUE

\* The apply callback writes no error diagnostic.
Converts(p) == p \in ValidPlans

MarkForgotten(o) == o

\* markManagedByTerraform: the annotation omni.ResourceManagedByGitopsTools = Terraform.
Marked(o) == [o EXCEPT !.mark = TRUE]

\* What UpdateWithConflicts makes of a copy: the apply callback first, the mark after it.
Applied(o, p) == Marked([o EXCEPT !.plan = p])

\* The call returns; its private copy is gone.
Finish(c, answer, errors) ==
  /\ pc' = [pc EXCEPT ![c] = "idle"]
  /\ local' = [local EXCEPT ![c] = Absent]
  /\ status' = [status EXCEPT ![c] = answer]
  /\ diags' = [diags EXCEPT ![c] = @ + errors]

AlwaysReported(err) == 1

\* Diagnostics the handler adds for the error the state returned: errPlanInvalid only
\* carries the news that the callback has written its own.
Reported(err) == IF err = "plan invalid" THEN 0 ELSE 1

Goto(c, where) == /\ pc' = [pc EXCEPT ![c] = where]
                  /\ UNCHANGED <<status, diags>>

\* A write that the store accepted: its answer reaches the provider or gets lost on the way.
Landed(c) == Finish(c, "ok", 0) \/ Finish(c, "failed", Reported("unavailable"))

Store(o) == /\ obj' = [o EXCEPT !.ver = nextVer]
            /\ nextVer' = nextVer + 1

Init == /\ obj = Absent
        /\ nextVer = 1
        /\ pc = [c \in Clients |-> "idle"]
        /\ \E p \in Plans : req = [c \in Clients |-> [op |-> "update", plan |-> p]]
        /\ local = [c \in Clients |-> Absent]
        /\ status = [c \in Clients |-> "idle"]
        /\ diags = [c \in Clients |-> 0]
        /\ calls = 0 /\ foreign = 0 /\ lastOther = 0

--------------------------------------------------------------------------------
(* The calls of the provider *)

FirstStep(op) == CASE op = "create" -> "create" [] op = "update" -> "get"
                   [] op = "delete" -> "teardown"

\* A handler of a resource calls Create, UpdateWithConflicts or TeardownAndDestroy.
Begin(c) ==
  /\ pc[c] = "idle" /\ calls < MaxCalls
  /\ \E op \in {"create", "update", "delete"}, p \in Plans :
       /\ op = "create" => Converts(p)  \* Create handlers return before the call otherwise
       /\ req' = [req EXCEPT ![c] = [op |-> op, plan |-> p]]
       /\ pc' = [pc EXCEPT ![c] = FirstStep(op)]
  /\ status' = [status EXCEPT ![c] = "busy"]
  /\ diags' = [diags EXCEPT ![c] = 0]
  /\ calls' = calls + 1
  /\ UNCHANGED <<obj, nextVer, local, foreign, lastOther>>

\* managedState.Create: mark, then create; an object that exists already is an error.
Create(c) ==
  /\ pc[c] = "create"
  /\ \/ /\ Gone
        /\ Store(Marked(Fresh(req[c].plan, 0)))
        /\ lastOther' = 0
        /\ Landed(c)
     \/ /\ ~Gone
        /\ Finish(c, "failed", Reported("exists"))
        /\ UNCHANGED <<obj, nextVer, lastOther>>
  /\ UNCHANGED <<req, calls, foreign>>

\* UpdateWithConflicts reads the object and runs the callback on the copy.  A plan the
\* callback cannot convert ends the call with the callback's own diagnostic
\* (errPlanInvalid is not reported again), and the copy is dropped, so that what the callback
\* had written into it by then is not modelled; a copy the callback left alone is not written.
Apply(c) ==
  /\ pc[c] = "get"
  /\ \/ /\ Gone
        /\ Finish(c, "failed", Reported("not found"))
     \/ /\ ~Gone /\ ~Converts(req[c].plan)
        /\ Finish(c, "failed", 1 + Reported("plan invalid"))
     \/ /\ ~Gone /\ Converts(req[c].plan)
        /\ IF Applied(obj, req[c].plan) = obj
             THEN Finish(c, "ok", 0)
             ELSE /\ local' = [local EXCEPT ![c] = Applied(obj, req[c].plan)]
                  /\ Goto(c, "put")
  /\ UNCHANGED <<obj, nextVer, req, calls, foreign, lastOther>>

\* A conflict that takes the new version but keeps the old copy, and one that tries the
\* old copy again.
PutRebased(c) ==
  /\ pc[c] = "put" /\ ~Gone /\ ~BeingTornDown
  /\ Store([local[c] EXCEPT !.ver = obj.ver])
  /\ Landed(c)
  /\ UNCHANGED <<req, calls, foreign, lastOther>>

PutSpinning(c) ==
  /\ pc[c] = "put" /\ ~Stale(c) /\ ~Gone
  /\ Store(local[c])
  /\ Landed(c)
  /\ UNCHANGED <<req, calls, foreign, lastOther>>

\* The compare-and-set: another version means read and apply again, an object being
\* torn down refuses the write.
Put(c) ==
  /\ pc[c] = "put"
  /\ \/ /\ Gone
        /\ Finish(c, "failed", Reported("not found"))
        /\ UNCHANGED <<obj, nextVer>>
     \/ /\ ~Gone /\ Stale(c)
        /\ Goto(c, "get")
        /\ UNCHANGED <<obj, nextVer, local>>
     \/ /\ ~Gone /\ ~Stale(c) /\ BeingTornDown
        /\ Finish(c, "failed", Reported("phase conflict"))
        /\ UNCHANGED <<obj, nextVer>>
     \/ /\ ~Gone /\ ~Stale(c) /\ ~BeingTornDown
        /\ Store(local[c])
        /\ Landed(c)
  /\ UNCHANGED <<req, calls, foreign, lastOther>>

\* TeardownAndDestroy, first half.  Every Delete handler takes "not found" as success.
Teardown(c) ==
  /\ pc[c] = "teardown"
  /\ \/ /\ Gone
        /\ Finish(c, "ok", 0)
        /\ UNCHANGED <<obj, nextVer>>
     \/ /\ obj.phase = "tearing"
        /\ Goto(c, "await")
        /\ UNCHANGED <<obj, nextVer, local>>
     \/ /\ obj.phase = "running"
        /\ Store([obj EXCEPT !.phase = "tearing"])
        /\ Goto(c, "await")
        /\ UNCHANGED local
  /\ UNCHANGED <<req, calls, foreign, lastOther>>

\* The watch reports the moment the object has no finalizer left, or is gone; by now there
\* may be another object in its place.
Await(c) ==
  /\ pc[c] = "await"
  /\ obj.fins = {} \/ obj.phase # "tearing"
  /\ Goto(c, "destroy")
  /\ UNCHANGED <<obj, nextVer, req, local, calls, foreign, lastOther>>

\* Second half of TeardownAndDestroy: the store refuses to destroy an object that is held.
Destroy(c) ==
  /\ pc[c] = "destroy"
  /\ \/ /\ Gone
        /\ Finish(c, "ok", 0)
        /\ UNCHANGED obj
     \/ /\ ~Gone /\ Held
        /\ Finish(c, "failed", Reported("pending finalizers"))
        /\ UNCHANGED obj
     \/ /\ ~Gone /\ ~Held
        /\ obj' = Absent
        /\ Landed(c)
  /\ UNCHANGED <<nextVer, req, calls, foreign, lastOther>>

\* The context of a call ends (interrupt, deadline), or the server cannot be reached.
Abort(c) ==
  /\ pc[c] # "idle"
  /\ Finish(c, "failed", Reported("unavailable"))
  /\ UNCHANGED <<obj, nextVer, req, calls, foreign, lastOther>>

--------------------------------------------------------------------------------
(* The other parties: Omni's controllers, the UI, omnictl *)

ForeignWrite(o) == /\ foreign < MaxForeign
                   /\ foreign' = foreign + 1
                   /\ Store(o)
                   /\ UNCHANGED <<pc, req, local, status, diags, calls>>

OthersCreate == /\ Gone
                /\ ForeignWrite(Fresh(NoPlan, foreign + 1))
                /\ lastOther' = foreign + 1

OthersUpdate == /\ ~Gone
                /\ ForeignWrite([obj EXCEPT !.other = foreign + 1])
                /\ lastOther' = foreign + 1

AddFinalizer(h) == /\ obj.phase = "running" /\ h \notin obj.fins
                   /\ ForeignWrite([obj EXCEPT !.fins = @ \cup {h}])
                   /\ UNCHANGED lastOther

OthersTeardown == /\ obj.phase = "running"
                  /\ ForeignWrite([obj EXCEPT !.phase = "tearing"])
                  /\ UNCHANGED lastOther

\* A controller cleans up after an object that is being torn down, then lets it go.
RemoveFinalizer(h) == /\ obj.phase = "tearing" /\ h \in obj.fins
                      /\ Store([obj EXCEPT !.fins = @ \ {h}])
                      /\ UNCHANGED <<pc, req, local, status, diags, calls, foreign, lastOther>>

OthersDestroy == /\ obj.phase = "tearing" /\ obj.fins = {}
                 /\ obj' = Absent
                 /\ UNCHANGED <<nextVer, pc, req, local, status, diags, calls, foreign, lastOther>>

--------------------------------------------------------------------------------
Step(c) == Create(c) \/ Apply(c) \/ Put(c) \/ Teardown(c) \/ Await(c) \/ Destroy(c)

Others == \/ OthersCreate \/ OthersUpdate \/ OthersTeardown \/ OthersDestroy
          \/ \E h \in Holders : AddFinalizer(h) \/ RemoveFinalizer(h)

Next == \/ \E c \in Clients : Begin(c) \/ Step(c) \/ Abort(c)
        \/ Others

\* A call that can go on does; a controller lets go of an object being torn down.
Fairness == /\ \A c \in Clients : WF_vars(Step(c))
            /\ \A h \in Holders : WF_vars(RemoveFinalizer(h))

Spec == Init /\ [][Next]_vars

FairSpec == Spec /\ Fairness

--------------------------------------------------------------------------------
(* Properties *)

TypeOK ==
  /\ obj \in Object
  /\ nextVer \in Nat \ {0}
  /\ pc \in [Clients -> {"idle", "create", "get", "put", "teardown", "await", "destroy"}]
  /\ req \in [Clients -> [op : {"create", "update", "delete"}, plan : Plans]]
  /\ local \in [Clients -> Object]
  /\ status \in [Clients -> {"idle", "busy", "ok", "failed"}]
  /\ diags \in [Clients -> 0 .. 1]
  /\ calls \in Nat /\ foreign \in Nat /\ lastOther \in Nat

\* What another party wrote into an object that Terraform also updates stays there: an
\* update computed on an older copy is never stored over it (the reason every Update
\* handler goes through StateUpdateWithConflicts, util.go:30).
NoLostForeignWrite == ~Gone => obj.other = lastOther

\* Every object the provider wrote, created or adopted carries the annotation that tells
\* Omni it is managed by Terraform (state.go:33).
WrittenIsMarked == obj.plan # NoPlan => obj.mark

\* A plan that the apply callback rejected is never in the store: the call ends before the
\* compare-and-set (util.go:33).
OnlyValidPlansStored == obj.plan \in ValidPlans \cup {NoPlan}

\* Once an object is being torn down, no call of the provider brings it back or changes
\* it: it only loses finalizers, is touched by others, or disappears.
TeardownIsFinal ==
  [][obj.phase = "tearing" =>
       \/ obj'.phase = "absent"
       \/ obj'.phase = "tearing" /\ obj'.plan = obj.plan /\ obj'.fins \subseteq obj.fins]_vars

\* A failed call leaves exactly one error diagnostic and a successful one leaves none:
\* a conversion error is not reported a second time as "invalid plan" (util.go:39).
OneCausePerFailure ==
  \A c \in Clients : /\ status[c] = "failed" => diags[c] = 1
                     /\ status[c] \in {"ok", "busy"} => diags[c] = 0

\* Every call returns: conflicts make an update read again, not spin on an old copy, and
\* a delete ends when the controllers let go.
EveryCallReturns == \A c \in Clients : pc[c] # "idle" ~> pc[c] = "idle"

--------------------------------------------------------------------------------
(* What the handlers may take a call for *)

WithoutVersion(o) == [phase |-> o.phase, fins |-> o.fins, plan |-> o.plan,
                      other |-> o.other, mark |-> o.mark]

Atomic == INSTANCE AtomicState WITH OtherValues <- Nat, thing <- WithoutVersion(obj)

\* Whatever the interleaving of reads, conflicts, retries and other writers: a creation or an
\* update changes the object in one step, as it is at that moment, although its answer may be a
\* failure all the same, or fails and changes nothing.  A deletion is two such steps, a teardown
\* and a destruction; others step in between, and it may fail after the first, leaving the
\* object torn down.
StepsAreAtomic == Atomic!Spec
================================================================================
