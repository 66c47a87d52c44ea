----------------------------- MODULE MachineSetNode -----------------------------
(***************************************************************************)
(* The omni_machine_set_node resource (omni_machine_set_node_resource.go)  *)
(* in a workspace beside the machine set it refers to: a node puts a       *)
(* machine into a machine set; its creation reads the set, whose labels it *)
(* copies, and then stores the node.  Terraform destroys a node before the *)
(* set it refers to and creates it after.  Others edit sets and nodes.     *)
(*                                                                         *)
(* As AtomicState says, a deletion is two calls, the teardown and the      *)
(* destruction: one that is interrupted leaves set or node torn down.      *)
(***************************************************************************)
EXTENDS Naturals, FiniteSets

CONSTANTS Null,
          Clusters,
          SetIds,      \* IDs of machine sets: [cluster |-> , suffix |-> ]
          Managed,     \* those of the workspace's own set; the others are referred to by their ID
          MaxEvents    \* bound: edits, operations of others, failures

ASSUME NodeAssumption == /\ SetIds \subseteq [cluster : Clusters, suffix : STRING]
                         /\ Managed \subseteq SetIds /\ MaxEvents \in Nat

VARIABLES
  config,    \* [set |-> , node |-> whether there is a node, cluster |-> the one it is to be in]
  sets,      \* machine sets at Omni
  tearingSets, \* IDs of those that are being torn down
  node,      \* the machine's node at Omni, Null when it is in no set
  tearingNode, \* whether it is being torn down
  setState,  \* the workspace's set in the terraform state
  state,     \* the node in the terraform state
  todo,      \* steps of the running apply that are left
  applying,
  plan,      \* what it is to make: [set |-> , node |-> ]
  owner,     \* the machine set that the node's Create has read
  settled,   \* history: nobody touched the node since the state was read from its labels or
             \* applied
  replaced,  \* history: others touched a set since the owner was read
  excused,   \* history: others touched a set or the node since then, or the node's creation was
             \* not answered
  events

omni == <<sets, tearingSets, node, tearingNode>>
states == <<setState, state>>
apply == <<todo, applying, plan, owner>>
history == <<settled, replaced, excused>>
vars == <<config, omni, states, apply, history, events>>

Configs == [set : SetIds, node : BOOLEAN, cluster : Clusters]

Roles == {"controlplane", "workers"}

\* Set and cluster are labels and may be missing.
SetRecords == [id : SetIds, cluster : Clusters \cup {Null}, role : Roles]
NodeRecords == [set : SetIds \cup {Null}, cluster : Clusters \cup {Null}, role : Roles]
Models == [set : SetIds \cup {Null}, cluster : Clusters \cup {Null}]

ASSUME NullAssumption == Null \notin NodeRecords \cup SetIds \cup Clusters

SetsWith(id) == {s \in sets : s.id = id}

\* What is wanted: of the set, when it is the workspace's own, and of the node.
WantedSet == IF config.set \in Managed THEN config.set ELSE Null
WantedNode == IF config.node THEN [set |-> config.set, cluster |-> config.cluster] ELSE Null

Happens == events < MaxEvents /\ events' = events + 1

Init == /\ config \in Configs /\ sets = {} /\ node = Null
        /\ tearingSets = {} /\ tearingNode = FALSE
        /\ setState = Null /\ state = Null
        /\ todo = {} /\ applying = FALSE /\ plan = Null /\ owner = Null
        /\ settled = FALSE /\ replaced = FALSE /\ excused = FALSE
        /\ events = 0

--------------------------------------------------------------------------------
(* Others *)

EditConfig == /\ Happens
              /\ \E c \in Configs \ {config} : config' = c
              /\ UNCHANGED <<omni, states, apply, history>>

\* A set is torn down, destroyed, created, or made anew with other labels.
OthersSet == /\ Happens
             /\ \E id \in SetIds :
                  \/ /\ SetsWith(id) # {} /\ id \notin tearingSets
                     /\ tearingSets' = tearingSets \cup {id} /\ UNCHANGED sets
                  \/ /\ SetsWith(id) # {} /\ sets' = sets \ SetsWith(id)
                     /\ tearingSets' = tearingSets \ {id}
                  \/ /\ \E c \in Clusters \cup {Null}, r \in Roles :
                          sets' = (sets \ SetsWith(id))
                                    \cup {[id |-> id, cluster |-> c, role |-> r]}
                     /\ tearingSets' = tearingSets \ {id}
             /\ replaced' = TRUE /\ excused' = TRUE
             /\ UNCHANGED <<config, node, tearingNode, states, apply, settled>>

\* The machine is taken out of its set, at once or not, or put into another; or its node loses
\* a label.
OthersNode == /\ Happens
              /\ \/ node # Null /\ node' = Null /\ tearingNode' = FALSE
                 \/ node # Null /\ ~tearingNode /\ tearingNode' = TRUE /\ UNCHANGED node
                 \/ /\ node # Null
                    /\ node' \in {[node EXCEPT !.set = Null], [node EXCEPT !.cluster = Null]}
                    /\ UNCHANGED tearingNode
                 \/ /\ \E s \in {r \in sets : r.cluster # Null} :
                         node' = [set |-> s.id, cluster |-> s.cluster, role |-> s.role]
                    /\ tearingNode' = FALSE
              /\ settled' = FALSE /\ excused' = TRUE
              /\ UNCHANGED <<config, sets, tearingSets, states, apply, replaced>>

--------------------------------------------------------------------------------
(* Reading *)

\* Read of the machine set, as far as nodes have to do with it: one that is being torn down
\* is read as any other.
RefreshSet == /\ ~applying /\ setState # Null
              /\ setState' = IF SetsWith(setState) = {} THEN Null ELSE setState
              /\ UNCHANGED <<config, omni, state, apply, history, events>>

Blank == [set |-> Null, cluster |-> Null]

\* A label that is missing leaves the attribute as it is in the state.
ToModel(n, m) == [set |-> IF n.set # Null THEN n.set ELSE m.set,
                  cluster |-> IF n.cluster # Null THEN n.cluster ELSE m.cluster]

\* The node's set and cluster, as the labels tell.
Labels(n) == [set |-> n.set, cluster |-> n.cluster]
Labelled(n) == n.set # Null /\ n.cluster # Null

\* A Read that takes a node being torn down for one that is gone.
RefreshDrops == /\ ~applying /\ state # Null
                /\ state' = IF node = Null \/ tearingNode THEN Null ELSE ToModel(node, state)
                /\ settled' = (node # Null => Labelled(node))
                /\ UNCHANGED <<config, omni, setState, apply, replaced, excused, events>>

\* Read: a node that is gone is taken out of the state; one that is being torn down is not.
RefreshNode == /\ ~applying /\ state # Null
               /\ state' = IF node = Null THEN Null ELSE ToModel(node, state)
               /\ settled' = (node # Null => Labelled(node))
               /\ UNCHANGED <<config, omni, setState, apply, replaced, excused, events>>

\* ImportState, by the machine's ID, and the Read after it.
ImportNode == /\ ~applying /\ state = Null /\ node # Null
              /\ state' = ToModel(node, Blank)
              /\ settled' = Labelled(node)
              /\ UNCHANGED <<config, omni, setState, apply, replaced, excused, events>>

--------------------------------------------------------------------------------
(* Applying *)

\* The set's cluster alone forces a replacement.
ClusterReplaces(p, m) == p.cluster # m.cluster

\* Every attribute forces a replacement.
Replaces(p, m) == p.set # m.set \/ p.cluster # m.cluster

SetSteps == IF setState = WantedSet THEN {}
            ELSE {s \in {"deleteSet", "createSet"} :
                    IF s = "deleteSet" THEN setState # Null ELSE WantedSet # Null}

\* The ID of a set that is to be created is not known: it is another one than the state's.
NodeSteps ==
  IF state = Null THEN {s \in {"createNode"} : WantedNode # Null}
  ELSE IF WantedNode = Null THEN {"deleteNode"}
  ELSE IF Replaces(WantedNode, state) \/ "createSet" \in SetSteps THEN {"deleteNode", "createNode"}
  ELSE IF WantedNode # state THEN {"updateNode"} ELSE {}

StartApply == /\ ~applying /\ SetSteps \cup NodeSteps # {}
              /\ applying' = TRUE /\ todo' = SetSteps \cup NodeSteps
              /\ plan' = [set |-> WantedSet, node |-> WantedNode]
              /\ UNCHANGED <<config, omni, states, owner, history, events>>

NodeDeletion == {"deleteNode", "destroyNode"}
SetDeletion == {"deleteSet", "destroySet"}

\* Terraform's graph: a node goes before its set and comes after it.
Ready(step) == /\ applying /\ step \in todo
               /\ step \in SetDeletion => todo \cap NodeDeletion = {}
               /\ step = "createSet" => todo \cap (NodeDeletion \cup SetDeletion) = {}
               /\ step = "createNode" => todo \cap (NodeDeletion \cup {"createSet"}) = {}

\* A step that fails ends the apply.
Abort == /\ applying' = FALSE /\ todo' = {} /\ plan' = Null /\ owner' = Null

Fails == Abort /\ UNCHANGED <<config, omni, states, history, events>>

Does(step) == todo' = todo \ {step} /\ UNCHANGED <<config, applying, plan, events>>

\* Of a deletion, the destruction is left.
Torn(step, next) == /\ todo' = (todo \ {step}) \cup {next}
                    /\ UNCHANGED <<config, applying, plan, events, states, owner, history>>

TearsNode == node # Null /\ tearingNode' = TRUE /\ UNCHANGED <<sets, tearingSets, node>>
DestroysNode == node' = Null /\ tearingNode' = FALSE /\ UNCHANGED <<sets, tearingSets>>

TearsSet == /\ SetsWith(setState) # {} /\ tearingSets' = tearingSets \cup {setState}
            /\ UNCHANGED <<sets, node, tearingNode>>
DestroysSet == /\ sets' = sets \ SetsWith(setState) /\ tearingSets' = tearingSets \ {setState}
               /\ UNCHANGED <<node, tearingNode>>

\* A teardown that fails when the node is being torn down already.
TeardownNodeOnce == \/ Ready("deleteNode") /\ node # Null /\ tearingNode /\ Fails
                    \/ /\ Ready("deleteNode") /\ ~tearingNode /\ TearsNode
                       /\ Torn("deleteNode", "destroyNode")

\* By the machine's ID.  A teardown that others or an interrupted deletion began is taken up.
TeardownNode == /\ Ready("deleteNode") /\ TearsNode
                /\ Torn("deleteNode", "destroyNode")

\* Once nothing holds the node.  One that is gone is success.
DestroyNode == /\ \/ Ready("deleteNode") /\ node = Null /\ Does("deleteNode")
                  \/ Ready("destroyNode") /\ Does("destroyNode")
               /\ DestroysNode
               /\ state' = Null /\ settled' = FALSE
               /\ UNCHANGED <<setState, owner, replaced, excused>>

\* TeardownAndDestroy of the set, likewise.
TeardownSet == /\ Ready("deleteSet") /\ TearsSet
               /\ Torn("deleteSet", "destroySet")

DestroySet == /\ \/ Ready("deleteSet") /\ SetsWith(setState) = {} /\ Does("deleteSet")
                 \/ Ready("destroySet") /\ Does("destroySet")
              /\ DestroysSet /\ setState' = Null
              /\ UNCHANGED <<state, owner, history>>

\* The set that the provider makes for an ID: the ID tells cluster and role.
NewSet(id) == [id |-> id, cluster |-> id.cluster,
               role |-> IF id.suffix = "control-planes" THEN "controlplane" ELSE "workers"]

CreateSetAgain == /\ Ready("createSet") /\ Does("createSet")
                  /\ sets' = sets \cup {NewSet(plan.set)} /\ setState' = plan.set
                  /\ UNCHANGED <<tearingSets, node, tearingNode, state, owner, history>>

\* Refused when there is a set of the ID, be it one that is being torn down.
CreateSet == /\ Ready("createSet")
             /\ \/ SetsWith(plan.set) # {} /\ Fails
                \/ /\ SetsWith(plan.set) = {} /\ Does("createSet")
                   /\ sets' = sets \cup {NewSet(plan.set)} /\ setState' = plan.set
                   /\ UNCHANGED <<tearingSets, node, tearingNode, state, owner, history>>

\* Create, first half: the machine set is read; it must be there, in a cluster, and that must
\* be the one that is configured.  Whether it is being torn down is not looked at.
ReadOwner ==
  /\ Ready("createNode") /\ owner = Null
  /\ \/ /\ \A s \in SetsWith(plan.node.set) : s.cluster # plan.node.cluster
        /\ Fails
     \/ \E s \in SetsWith(plan.node.set) :
          /\ s.cluster = plan.node.cluster
          /\ owner' = s /\ replaced' = FALSE
          /\ UNCHANGED <<config, omni, states, todo, applying, plan, settled, excused, events>>

\* Stored with what the set is to be like.
Stored(n) == /\ node = Null /\ node' = n
             /\ Does("createNode") /\ owner' = Null
             /\ state' = plan.node /\ settled' = TRUE /\ excused' = replaced
             /\ UNCHANGED <<sets, tearingSets, tearingNode, setState, replaced>>

\* Create, second half: the node is stored with the labels of the set that was read, whatever
\* became of it; refused when the machine has a node, be it one that is being torn down.
CreateNode ==
  /\ Ready("createNode") /\ owner # Null
  /\ \/ node # Null /\ Fails
     \/ Stored([set |-> owner.id, cluster |-> owner.cluster, role |-> owner.role])

\* Update has nothing to change at Omni: it persists the plan.
Finish == /\ applying /\ todo \subseteq {"updateNode"}
          /\ state' = IF "updateNode" \in todo THEN plan.node ELSE state
          /\ Abort
          /\ UNCHANGED <<config, omni, setState, history, events>>

\* A call takes effect and its answer is lost: the state stays as it was.  A node that was
\* created so is not known to terraform.
Unanswered ==
  /\ Happens
  /\ \/ Ready("deleteNode") /\ TearsNode /\ UNCHANGED excused
     \/ Ready("destroyNode") /\ DestroysNode /\ UNCHANGED excused
     \/ Ready("deleteSet") /\ TearsSet /\ UNCHANGED excused
     \/ Ready("destroySet") /\ DestroysSet /\ UNCHANGED excused
     \/ /\ Ready("createSet") /\ SetsWith(plan.set) = {}
        /\ sets' = sets \cup {NewSet(plan.set)}
        /\ UNCHANGED <<tearingSets, node, tearingNode, excused>>
     \/ /\ Ready("createNode") /\ owner # Null /\ node = Null
        /\ node' = [set |-> owner.id, cluster |-> owner.cluster, role |-> owner.role]
        /\ excused' = TRUE
        /\ UNCHANGED <<sets, tearingSets, tearingNode>>
  /\ Abort
  /\ settled' = FALSE
  /\ UNCHANGED <<config, states, replaced>>

\* A call does not reach Omni, or the process dies before it: a deletion may have torn down
\* its object by then.
Unreached == /\ Happens /\ applying
             /\ Abort
             /\ UNCHANGED <<config, omni, states, history>>

--------------------------------------------------------------------------------
Step == \/ TeardownNode \/ DestroyNode \/ TeardownSet \/ DestroySet
        \/ CreateSet \/ ReadOwner \/ CreateNode \/ Finish

Next == \/ EditConfig \/ OthersSet \/ OthersNode
        \/ RefreshSet \/ RefreshNode \/ ImportNode \/ StartApply
        \/ Step \/ Unanswered \/ Unreached

\* As in Resource: terraform refreshes again and again, applies and goes on, and Omni's
\* controllers let go of what is torn down.
Spec == /\ Init /\ [][Next]_vars
        /\ SF_vars(RefreshSet) /\ SF_vars(RefreshNode) /\ WF_vars(StartApply) /\ WF_vars(Step)

--------------------------------------------------------------------------------
(* Properties *)

TypeOK == /\ config \in Configs /\ sets \subseteq SetRecords
          /\ \A s, r \in sets : s.id = r.id => s = r
          /\ \A id \in tearingSets : SetsWith(id) # {}
          /\ node \in NodeRecords \cup {Null} /\ setState \in Managed \cup {Null}
          /\ tearingNode \in BOOLEAN /\ (tearingNode => node # Null)
          /\ state \in Models \cup {Null}
          /\ todo \subseteq {"createSet", "createNode", "updateNode"} \cup NodeDeletion
                              \cup SetDeletion
          /\ applying \in BOOLEAN /\ owner \in SetRecords \cup {Null}
          /\ plan \in [set : Managed \cup {Null}, node : Models \cup {Null}] \cup {Null}
          /\ settled \in BOOLEAN /\ replaced \in BOOLEAN /\ excused \in BOOLEAN
          /\ events \in 0 .. MaxEvents

\* The machine is where the state says: in the set and in the cluster that were planned,
\* although Create takes them from a set that others edit, and Update changes nothing; unless
\* others took the node's labels, for the state then keeps what they told.
NodeStateIsTrue == settled /\ state # Null => node # Null /\ Labels(node) = state

\* A node that terraform knows to have made is of a set that exists, with its cluster and role:
\* no apply, be it interrupted in a deletion or unanswered, destroys a set and leaves the
\* machine behind in it.  A creation of the node that was not answered is another matter: the
\* node is not in the state, so that a later apply may destroy the set under it.
NoStrayNode == node # Null /\ ~excused =>
  \E s \in SetsWith(node.set) : s.cluster = node.cluster /\ s.role = node.role

\* If applies are repeated, then in the end set and node are as configured, and not being torn
\* down, unless
\*   - the set that the node refers to is missing or of another cluster,
\*   - a set or a node that others made, or whose creation was not answered, has to be imported,
\*   - a set or a node was torn down, by others or by a deletion that was interrupted, and is
\*     wanted as it is: Read shows no difference, so that it stays so until it is gone,
\*   - others took the node's labels.
Done == /\ setState = WantedSet /\ state = WantedNode
        /\ WantedSet # Null => SetsWith(WantedSet) # {} /\ WantedSet \notin tearingSets
        /\ WantedNode # Null => node # Null /\ Labels(node) = WantedNode /\ ~tearingNode

Unfit == WantedNode # Null /\
  IF WantedSet # Null THEN \E s \in SetsWith(WantedSet) : s.cluster # config.cluster
  ELSE \A s \in SetsWith(config.set) : s.cluster # config.cluster

ToImport == \/ WantedSet # Null /\ setState # WantedSet /\ SetsWith(WantedSet) # {}
            \/ WantedNode # Null /\ state = Null /\ node # Null

HalfGone == \/ WantedSet # Null /\ setState = WantedSet /\ WantedSet \in tearingSets
            \/ WantedNode # Null /\ state = WantedNode /\ tearingNode

Unlabelled == state # Null /\ node # Null /\ ~Labelled(node)

Converges == <>[](Done \/ Unfit \/ ToImport \/ HalfGone \/ Unlabelled)

================================================================================
