------------------------------ MODULE AtomicState ------------------------------
(***************************************************************************)
(* What the resource handlers of the provider rely on when they call the   *)
(* COSI state of Omni: every change that a call makes is made to the       *)
(* object as it is at ONE moment.  Nothing of the read - modify -          *)
(* compare-and-set protocol behind it is visible here: no version, no      *)
(* private copy, no retry.                                                 *)
(*                                                                         *)
(* A creation or an update makes one change, in one step; its answer may   *)
(* be "failed" although the change was made.  A deletion makes two: it     *)
(* tears the object down and later destroys it; in between others step in, *)
(* and it may fail, which leaves the object torn down.                     *)
(*                                                                         *)
(* ManagedState.tla implements this specification.  The modules of the     *)
(* resources (Resource, MachineSetNode, InfraProvider) take a creation or  *)
(* an update for one step and a deletion for two.                          *)
(***************************************************************************)
CONSTANTS Clients,     \* concurrent calls of the provider on one object
          Plans,       \* values a plan can give the fields the provider owns
          ValidPlans,  \* those an apply callback accepts
          NoPlan,      \* the provider never wrote the object
          Holders,     \* controllers that may put a finalizer on the object
          OtherValues  \* values of the fields other parties own

VARIABLES thing,   \* the object, without its version
          req,     \* req[c]: the call that client c makes
          status   \* status[c]: idle, busy, ok or failed

vars == <<thing, req, status>>

Phases == {"absent", "running", "tearing"}

Thing == [phase : Phases, fins : SUBSET Holders, plan : Plans \cup {NoPlan},
          other : OtherValues, mark : BOOLEAN]

Requests == [op : {"create", "update", "delete"}, plan : Plans]

Gone(t) == t.phase = "absent"

Answer(c, answer) == status' = [status EXCEPT ![c] = answer]

Init == /\ thing \in Thing /\ Gone(thing)
        /\ req \in [Clients -> Requests]
        /\ status = [c \in Clients |-> "idle"]

Begin(c) == /\ status[c] # "busy"
            /\ \E r \in Requests : req' = [req EXCEPT ![c] = r]
            /\ Answer(c, "busy")
            /\ UNCHANGED thing

\* The object is created with the plan, tagged as managed.  "failed" is the answer that got lost.
Create(c) == /\ status[c] = "busy" /\ req[c].op = "create"
             /\ Gone(thing)
             /\ thing' \in Thing
             /\ thing'.phase = "running" /\ thing'.plan = req[c].plan /\ thing'.mark
             /\ thing'.fins = {}
             /\ \E answer \in {"ok", "failed"} : Answer(c, answer)
             /\ UNCHANGED req

\* The plan is written over the object and everything it does not mention is kept.
Update(c) == /\ status[c] = "busy" /\ req[c].op = "update"
             /\ thing.phase = "running" /\ req[c].plan \in ValidPlans
             /\ thing' = [phase |-> thing.phase, fins |-> thing.fins, other |-> thing.other,
                          plan |-> req[c].plan, mark |-> TRUE]
             /\ \E answer \in {"ok", "failed"} : Answer(c, answer)
             /\ UNCHANGED req

\* The object already is what the plan asks for: nothing is written, whatever its phase.
Unchanged(c) == /\ status[c] = "busy" /\ req[c].op = "update"
                /\ ~Gone(thing) /\ req[c].plan \in ValidPlans
                /\ thing.plan = req[c].plan /\ thing.mark
                /\ Answer(c, "ok")
                /\ UNCHANGED <<thing, req>>

\* A deletion, first: done again, it does nothing.
Teardown(c) == /\ status[c] = "busy" /\ req[c].op = "delete"
               /\ ~Gone(thing)
               /\ thing' = [thing EXCEPT !.phase = "tearing"]
               /\ UNCHANGED <<req, status>>

\* And then, once no controller holds the object.  One that is gone is success.
Destroy(c) == /\ status[c] = "busy" /\ req[c].op = "delete"
              /\ Gone(thing) \/ thing.fins = {}
              /\ thing' \in Thing /\ Gone(thing')
              /\ \E answer \in {"ok", "failed"} : Answer(c, answer)
              /\ UNCHANGED req

\* A call fails and changes nothing more; a deletion may have torn the object down by then.
Fail(c) == /\ status[c] = "busy"
           /\ Answer(c, "failed")
           /\ UNCHANGED <<thing, req>>

\* Everybody else: never touches what the provider wrote, except by removing the object.
Others == /\ thing' \in Thing
          /\ \/ /\ ~Gone(thing)
                /\ thing'.plan = thing.plan /\ thing'.mark = thing.mark
             \/ /\ Gone(thing)
                /\ thing'.plan = NoPlan /\ ~thing'.mark
             \/ Gone(thing') /\ thing.fins = {}
          /\ UNCHANGED <<req, status>>

Next == \/ \E c \in Clients : \/ Begin(c) \/ Create(c) \/ Update(c) \/ Unchanged(c)
                              \/ Teardown(c) \/ Destroy(c) \/ Fail(c)
        \/ Others

Spec == Init /\ [][Next]_vars
================================================================================
