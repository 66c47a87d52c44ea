-------------------------- MODULE MachineSetNodeProofs --------------------------
(***************************************************************************)
(* For every set of clusters and machine sets and every bound: the types   *)
(* and the safety properties of MachineSetNode.                            *)
(***************************************************************************)
EXTENDS MachineSetNode, TLAPS

\* What an apply has yet to do is what its plan says.
PlanFits ==
  /\ applying => plan \in [set : Managed \cup {Null}, node : Models \cup {Null}]
  /\ ~applying => todo = {} /\ owner = Null
  /\ "updateNode" \notin todo
  /\ "createSet" \in todo => plan.set \in Managed
  /\ todo \cap SetDeletion # {} => setState \in Managed
  /\ ~("deleteSet" \in todo /\ "destroySet" \in todo)
  /\ "createNode" \in todo => plan.node \in Models /\ plan.node # Null

\* A machine set that was read is the planned one, and is there unless others touched a set.
OwnerStands ==
  owner # Null => /\ "createNode" \in todo
                  /\ owner.id = plan.node.set /\ owner.cluster = plan.node.cluster
                  /\ ~replaced => owner \in sets

\* The set that is to be destroyed is not the planned one, and the node is not in it, or is
\* destroyed before.
DoomedSetIsLeft ==
  todo \cap SetDeletion # {} =>
    /\ "createNode" \in todo => plan.node.set # setState
    /\ node # Null /\ ~excused => todo \cap NodeDeletion # {} \/ node.set # setState

\* A node that the provider made, and knows to have made, is in the state as it is.
OwnNodeIsKnown == node # Null /\ ~excused => state # Null /\ state = Labels(node)

IInv == /\ TypeOK /\ PlanFits /\ OwnerStands /\ DoomedSetIsLeft /\ OwnNodeIsKnown
        /\ NodeStateIsTrue /\ NoStrayNode

LEMMA InitHolds == Init => IInv
  <1> SUFFICES ASSUME Init PROVE IInv
    OBVIOUS
  <1>1. TypeOK
    <2>1. /\ config \in Configs /\ sets \subseteq SetRecords
          /\ \A s, r \in sets : s.id = r.id => s = r
          /\ \A id \in tearingSets : SetsWith(id) # {}
      BY DEF Init
    <2>2. /\ todo \subseteq {"createSet", "createNode", "updateNode"} \cup NodeDeletion
                             \cup SetDeletion
          /\ tearingNode \in BOOLEAN /\ (tearingNode => node # Null)
      BY DEF Init
    <2>3. applying \in BOOLEAN /\ settled \in BOOLEAN /\ replaced \in BOOLEAN /\ excused \in BOOLEAN
      BY DEF Init
    <2>4. events \in 0 .. MaxEvents
      BY NodeAssumption DEF Init
    <2>5. QED
      BY <2>1, <2>2, <2>3, <2>4 DEF Init, TypeOK
  <1>2. PlanFits /\ OwnerStands /\ DoomedSetIsLeft
    BY DEF Init, PlanFits, OwnerStands, DoomedSetIsLeft
  <1>3. OwnNodeIsKnown /\ NodeStateIsTrue /\ NoStrayNode
    BY DEF Init, OwnNodeIsKnown, NodeStateIsTrue, NoStrayNode
  <1>4. QED
    BY <1>1, <1>2, <1>3 DEF IInv

\* A set made for an ID is of the type of sets.
LEMMA NewSetType == ASSUME NEW id \in SetIds PROVE NewSet(id) \in SetRecords /\ NewSet(id).id = id
  BY NodeAssumption DEF NewSet, SetRecords, Roles

\* What a step leaves alone keeps its type.
LEMMA Unchanging ==
  ASSUME TypeOK
  PROVE  /\ UNCHANGED sets => sets' \subseteq SetRecords /\ \A s, r \in sets' : s.id = r.id => s = r
         /\ UNCHANGED node /\ UNCHANGED tearingNode =>
              /\ node' \in NodeRecords \cup {Null}
              /\ tearingNode' \in BOOLEAN /\ (tearingNode' => node' # Null)
         /\ UNCHANGED tearingNode => tearingNode' \in BOOLEAN
         /\ UNCHANGED excused => excused' \in BOOLEAN
  <1>1. ASSUME tearingNode' = tearingNode PROVE tearingNode' \in BOOLEAN
    <2>1. tearingNode \in BOOLEAN
      BY DEF TypeOK
    <2>2. QED
      BY <1>1, <2>1, Zenon
  <1>2. ASSUME node' = node, tearingNode' = tearingNode PROVE tearingNode' => node' # Null
    <2>1. tearingNode => node # Null
      BY DEF TypeOK
    <2>2. QED
      BY <1>2, <2>1, Zenon
  <1>3. UNCHANGED excused => excused' \in BOOLEAN
    <2>1. excused \in BOOLEAN
      BY DEF TypeOK
    <2>2. QED
      BY <2>1
  <1>4. UNCHANGED sets => sets' \subseteq SetRecords /\ \A s, r \in sets' : s.id = r.id => s = r
    BY DEF TypeOK
  <1>5. UNCHANGED node => node' \in NodeRecords \cup {Null}
    BY DEF TypeOK
  <1>6. QED
    BY <1>1, <1>2, <1>3, <1>4, <1>5

\* The attributes of a node are a model of it, whatever the state had.
LEMMA ToModelType ==
  ASSUME NEW n \in NodeRecords, NEW m \in Models PROVE ToModel(n, m) \in Models
  BY DEF ToModel, NodeRecords, Models

LEMMA BlankType == Blank \in Models
  BY DEF Blank, Models

\* Of a node that has its labels the state tells what they do.
LEMMA ToModelOfLabelled ==
  ASSUME NEW n, NEW m, Labelled(n) PROVE ToModel(n, m) = Labels(n)
  BY DEF ToModel, Labelled, Labels

LEMMA ToModelOfKnown == ASSUME NEW n PROVE ToModel(n, Labels(n)) = Labels(n)
  BY DEF ToModel, Labels

--------------------------------------------------------------------------------
(* Others *)

LEMMA EditKeeps == ASSUME IInv, EditConfig PROVE IInv'
  <1>1. config' \in Configs /\ events' \in 0 .. MaxEvents
    BY NodeAssumption DEF IInv, TypeOK, EditConfig, Happens
  <1>2. UNCHANGED <<omni, states, apply, history>>
    BY DEF EditConfig
  <1>3. TypeOK'
    BY <1>1, <1>2 DEF IInv, TypeOK, omni, states, apply, history, SetsWith
  <1>4. QED
    BY <1>2, <1>3 DEF IInv, omni, states, apply, history, PlanFits, OwnerStands,
       DoomedSetIsLeft, OwnNodeIsKnown, NodeStateIsTrue, NoStrayNode, SetsWith

LEMMA OthersSetKeeps == ASSUME IInv, OthersSet PROVE IInv'
  <1>1. PICK id \in SetIds :
          \/ /\ SetsWith(id) # {} /\ tearingSets' = tearingSets \cup {id} /\ sets' = sets
          \/ /\ sets' = sets \ SetsWith(id) /\ tearingSets' = tearingSets \ {id}
          \/ /\ \E c \in Clusters \cup {Null}, r \in Roles :
                   sets' = (sets \ SetsWith(id)) \cup {[id |-> id, cluster |-> c, role |-> r]}
             /\ tearingSets' = tearingSets \ {id}
    BY DEF OthersSet
  <1>2. sets' \subseteq SetRecords /\ \A s, r \in sets' : s.id = r.id => s = r
    BY <1>1 DEF IInv, TypeOK, SetsWith, SetRecords
  <1>3. \A i \in tearingSets' : SetsWith(i)' # {}
    <2>1. \A i \in tearingSets : SetsWith(i) # {}
      BY DEF IInv, TypeOK
    <2>2. CASE tearingSets' = tearingSets \cup {id} /\ sets' = sets /\ SetsWith(id) # {}
      BY <2>1, <2>2 DEF SetsWith
    <2>3. CASE tearingSets' = tearingSets \ {id} /\ sets \ SetsWith(id) \subseteq sets'
      BY <2>1, <2>3 DEF SetsWith
    <2>4. QED
      BY <1>1, <2>2, <2>3
  <1>4. events' \in 0 .. MaxEvents
    BY NodeAssumption DEF IInv, TypeOK, OthersSet, Happens
  <1>5. TypeOK'
    BY <1>2, <1>3, <1>4 DEF IInv, TypeOK, OthersSet, states, apply
  <1>6. QED
    BY <1>5 DEF IInv, OthersSet, states, apply, PlanFits, OwnerStands, DoomedSetIsLeft,
       OwnNodeIsKnown, NodeStateIsTrue, NoStrayNode

LEMMA OthersNodeKeeps == ASSUME IInv, OthersNode PROVE IInv'
  <1>1. /\ node' \in NodeRecords \cup {Null}
        /\ tearingNode' \in BOOLEAN /\ (tearingNode' => node' # Null)
    <2>1. CASE node' = Null /\ tearingNode' = FALSE
      BY <2>1
    <2>2. CASE node # Null /\ tearingNode' = TRUE /\ UNCHANGED node
      BY <2>2 DEF IInv, TypeOK
    <2>3. CASE /\ node # Null
               /\ node' \in {[node EXCEPT !.set = Null], [node EXCEPT !.cluster = Null]}
               /\ UNCHANGED tearingNode
      <3>1. node \in NodeRecords /\ node' \in NodeRecords
        BY <2>3 DEF IInv, TypeOK, NodeRecords
      <3>2. node' # Null
        BY <3>1, NullAssumption
      <3>3. tearingNode' \in BOOLEAN
        BY <2>3, Unchanging DEF IInv
      <3>4. QED
        BY <3>1, <3>2, <3>3
    <2>4. CASE /\ \E s \in {r \in sets : r.cluster # Null} :
                    node' = [set |-> s.id, cluster |-> s.cluster, role |-> s.role]
               /\ tearingNode' = FALSE
      <3>1. node' \in NodeRecords
        BY <2>4 DEF IInv, TypeOK, SetRecords, NodeRecords
      <3>2. QED
        BY <2>4, <3>1, NullAssumption
    <2>5. QED
      BY <2>1, <2>2, <2>3, <2>4 DEF OthersNode
  <1>2. events' \in 0 .. MaxEvents
    BY NodeAssumption DEF IInv, TypeOK, OthersNode, Happens
  <1>3. TypeOK'
    BY <1>1, <1>2 DEF IInv, TypeOK, OthersNode, states, apply, SetsWith
  <1>4. QED
    BY <1>3 DEF IInv, OthersNode, states, apply, PlanFits, OwnerStands, DoomedSetIsLeft,
       OwnNodeIsKnown, NodeStateIsTrue, NoStrayNode

--------------------------------------------------------------------------------
(* Reading *)

LEMMA RefreshSetKeeps == ASSUME IInv, RefreshSet PROVE IInv'
  <1>1. TypeOK'
    BY DEF IInv, TypeOK, RefreshSet, omni, apply, history, SetsWith
  <1>2. todo = {}
    BY DEF IInv, RefreshSet, PlanFits
  <1>3. QED
    BY <1>1, <1>2 DEF IInv, RefreshSet, omni, apply, history, PlanFits, OwnerStands, DoomedSetIsLeft,
       OwnNodeIsKnown, NodeStateIsTrue, NoStrayNode, SetsWith

\* A node that is known is read as it was: a label that is missing was missing before.
LEMMA RefreshNodeKeeps == ASSUME IInv, RefreshNode PROVE IInv'
  <1>1. TypeOK'
    <2>1. state \in Models /\ node \in NodeRecords \cup {Null}
      BY DEF IInv, TypeOK, RefreshNode
    <2>2. state' \in Models \cup {Null} /\ settled' \in BOOLEAN
      BY <2>1, ToModelType DEF RefreshNode
    <2>3. QED
      BY <2>2 DEF IInv, TypeOK, RefreshNode, omni, apply, SetsWith
  <1>2. PlanFits' /\ OwnerStands' /\ DoomedSetIsLeft'
    BY DEF IInv, RefreshNode, omni, apply, PlanFits, OwnerStands, DoomedSetIsLeft
  <1>3. NodeStateIsTrue' /\ NoStrayNode'
    BY ToModelOfLabelled DEF IInv, RefreshNode, omni, NodeStateIsTrue, NoStrayNode, SetsWith, Labels
  <1>4. OwnNodeIsKnown'
    <2> SUFFICES ASSUME node # Null, ~excused PROVE state' # Null /\ state' = Labels(node)
      BY DEF OwnNodeIsKnown, RefreshNode, omni, Labels
    <2>1. state = Labels(node)
      BY DEF IInv, OwnNodeIsKnown
    <2>2. state' = state
      BY <2>1, ToModelOfKnown DEF RefreshNode
    <2>3. QED
      BY <2>1, <2>2 DEF RefreshNode
  <1>5. QED
    BY <1>1, <1>2, <1>3, <1>4 DEF IInv

\* There is nothing to import but a node that others have made or touched, or whose creation was
\* not answered.
LEMMA ImportNodeKeeps == ASSUME IInv, ImportNode PROVE IInv'
  <1>1. state' \in Models /\ settled' \in BOOLEAN
    BY ToModelType, BlankType DEF IInv, TypeOK, ImportNode, Labelled
  <1>2. TypeOK'
    BY <1>1 DEF IInv, TypeOK, ImportNode, omni, apply, SetsWith
  <1>3. PlanFits' /\ OwnerStands' /\ DoomedSetIsLeft'
    BY DEF IInv, ImportNode, omni, apply, PlanFits, OwnerStands, DoomedSetIsLeft
  <1>4. excused
    BY DEF IInv, ImportNode, OwnNodeIsKnown
  <1>5. OwnNodeIsKnown' /\ NodeStateIsTrue' /\ NoStrayNode'
    BY <1>4, ToModelOfLabelled
       DEF IInv, ImportNode, omni, OwnNodeIsKnown, NodeStateIsTrue, NoStrayNode, Labels
  <1>6. QED
    BY <1>2, <1>3, <1>5 DEF IInv

--------------------------------------------------------------------------------
(* Applying *)

\* A node in a set that the plan destroys is destroyed, too: the set it is to be in is another.
LEMMA StartApplyKeeps == ASSUME IInv, StartApply PROVE IInv'
  <1> USE DEF SetSteps, WantedSet, WantedNode
  <1>1. /\ UNCHANGED <<config, omni, states, owner, history, events>>
        /\ applying' /\ todo' = SetSteps \cup NodeSteps
        /\ plan' = [set |-> WantedSet, node |-> WantedNode] /\ owner = Null
    BY DEF StartApply, IInv, PlanFits
  <1>2. /\ todo' \cap SetDeletion # {} => setState \in Managed /\ setState # WantedSet
        /\ "createSet" \in todo' => WantedSet # Null
        /\ "createNode" \in todo' => WantedNode # Null
        /\ todo' \subseteq {"deleteNode", "deleteSet", "createSet", "createNode", "updateNode"}
    BY <1>1 DEF NodeSteps, SetDeletion, IInv, TypeOK
  <1>3. config.set \in SetIds /\ config.cluster \in Clusters
    BY DEF IInv, TypeOK, Configs
  <1>4. WantedNode # Null => WantedNode \in Models /\ WantedNode.set = config.set
    BY <1>3 DEF Models
  <1>5. WantedSet # Null => WantedSet \in Managed /\ WantedSet = config.set
    OBVIOUS
  <1>6. todo' \cap SetDeletion # {} => config.set # setState
    BY <1>2
  <1>7. "updateNode" \notin todo'
    <2>1. ASSUME state # Null, WantedNode # Null, ~Replaces(WantedNode, state) PROVE WantedNode = state
      BY <2>1, <1>4 DEF Replaces, IInv, TypeOK, Models
    <2>2. QED
      BY <1>1, <2>1 DEF NodeSteps
  <1>8. TypeOK'
    <2>1. todo' \subseteq {"createSet", "createNode", "updateNode"} \cup NodeDeletion \cup SetDeletion
      BY <1>2 DEF NodeDeletion, SetDeletion
    <2>2. QED
      BY <1>1, <1>4, <1>5, <2>1 DEF IInv, TypeOK, omni, states, history, SetsWith
  <1>9. PlanFits' /\ OwnerStands'
    BY <1>1, <1>2, <1>4, <1>5, <1>7 DEF PlanFits, OwnerStands, states
  <1>10. DoomedSetIsLeft'
    <2> SUFFICES ASSUME todo' \cap SetDeletion # {}
                 PROVE  /\ "createNode" \in todo' => plan'.node.set # setState
                        /\ node # Null /\ ~excused =>
                             todo' \cap NodeDeletion # {} \/ node.set # setState
      BY <1>1 DEF DoomedSetIsLeft, omni, states, history
    <2>1. "createNode" \in todo' => plan'.node.set # setState
      BY <1>1, <1>2, <1>4, <1>6
    <2>2. ASSUME node # Null, ~excused, node.set = setState PROVE todo' \cap NodeDeletion # {}
      <3>1. state # Null /\ state.set = setState
        BY <2>2 DEF IInv, OwnNodeIsKnown, Labels
      <3>2. WantedNode # Null => Replaces(WantedNode, state)
        BY <3>1, <1>4, <1>6 DEF Replaces
      <3>3. "deleteNode" \in NodeSteps
        BY <3>1, <3>2 DEF NodeSteps
      <3>4. QED
        BY <3>3, <1>1 DEF NodeDeletion
    <2>3. QED
      BY <2>1, <2>2
  <1>11. OwnNodeIsKnown' /\ NodeStateIsTrue' /\ NoStrayNode'
    BY <1>1 DEF IInv, omni, states, history, OwnNodeIsKnown, NodeStateIsTrue, NoStrayNode, SetsWith,
       Labels
  <1>12. QED
    BY <1>8, <1>9, <1>10, <1>11 DEF IInv

\* Wherever an apply ends, what is left of it is nothing.
LEMMA AbortKeeps ==
  ASSUME IInv, Abort, UNCHANGED <<config, omni, states, history>>, events' \in 0 .. MaxEvents
  PROVE  IInv'
  <1>1. TypeOK'
    BY DEF IInv, TypeOK, Abort, omni, states, history, SetsWith
  <1>2. PlanFits' /\ OwnerStands' /\ DoomedSetIsLeft'
    BY DEF Abort, PlanFits, OwnerStands, DoomedSetIsLeft
  <1>3. OwnNodeIsKnown' /\ NodeStateIsTrue' /\ NoStrayNode'
    BY DEF IInv, omni, states, history, OwnNodeIsKnown, NodeStateIsTrue, NoStrayNode, SetsWith, Labels
  <1>4. QED
    BY <1>1, <1>2, <1>3 DEF IInv

LEMMA FailsKeeps == ASSUME IInv, Fails PROVE IInv'
  BY AbortKeeps DEF Fails, IInv, TypeOK

LEMMA UnreachedKeeps == ASSUME IInv, Unreached PROVE IInv'
  <1>1. events' \in 0 .. MaxEvents
    BY NodeAssumption DEF IInv, TypeOK, Unreached, Happens
  <1>2. QED
    BY <1>1, AbortKeeps DEF Unreached

\* No step is an update, so that Finish leaves the state as it is.
LEMMA FinishKeeps == ASSUME IInv, Finish PROVE IInv'
  <1>1. state' = state
    BY DEF Finish, IInv, PlanFits
  <1>2. QED
    BY <1>1, AbortKeeps DEF Finish, states, IInv, TypeOK

\* A teardown leaves everything where it is, and the destruction to do.
LEMMA TeardownNodeKeeps == ASSUME IInv, TeardownNode PROVE IInv'
  <1>1. /\ todo' = (todo \ {"deleteNode"}) \cup {"destroyNode"} /\ "deleteNode" \in todo
        /\ node # Null /\ tearingNode' = TRUE
        /\ UNCHANGED <<config, applying, plan, events, states, owner, history, sets, tearingSets, node>>
    BY DEF TeardownNode, Torn, TearsNode, Ready
  <1>2. TypeOK'
    <2>1. todo' \subseteq {"createSet", "createNode", "updateNode"} \cup NodeDeletion \cup SetDeletion
      BY <1>1 DEF IInv, TypeOK, NodeDeletion
    <2>2. QED
      BY <1>1, <2>1 DEF IInv, TypeOK, states, history, SetsWith
  <1>3. PlanFits'
    BY <1>1 DEF IInv, PlanFits, SetDeletion, states, TeardownNode, Ready
  <1>4. OwnerStands'
    BY <1>1 DEF IInv, OwnerStands, history
  <1>5. DoomedSetIsLeft'
    <2>1. /\ todo' \cap SetDeletion = todo \cap SetDeletion
          /\ ("createNode" \in todo' <=> "createNode" \in todo)
          /\ todo' \cap NodeDeletion # {}
      BY <1>1 DEF SetDeletion, NodeDeletion
    <2>2. QED
      BY <1>1, <2>1 DEF IInv, DoomedSetIsLeft, states, history
  <1>6. OwnNodeIsKnown' /\ NodeStateIsTrue' /\ NoStrayNode'
    BY <1>1 DEF IInv, states, history, OwnNodeIsKnown, NodeStateIsTrue, NoStrayNode, SetsWith, Labels
  <1>7. QED
    BY <1>2, <1>3, <1>4, <1>5, <1>6 DEF IInv

LEMMA DestroyNodeKeeps == ASSUME IInv, DestroyNode PROVE IInv'
  <1>1. PICK step \in NodeDeletion : step \in todo /\ todo' = todo \ {step}
    BY DEF DestroyNode, Does, NodeDeletion, Ready
  <1>2. /\ node' = Null /\ tearingNode' = FALSE /\ state' = Null /\ settled' = FALSE
        /\ UNCHANGED <<config, applying, plan, events, sets, tearingSets, setState, owner, replaced,
                       excused>>
    BY DEF DestroyNode, DestroysNode, Does
  <1>3. TypeOK'
    BY <1>1, <1>2 DEF IInv, TypeOK, SetsWith
  <1>4. todo' \cap SetDeletion = todo \cap SetDeletion /\ todo' \subseteq todo
        /\ ("createNode" \in todo => "createNode" \in todo')
    BY <1>1 DEF SetDeletion, NodeDeletion
  <1>5. PlanFits'
    BY <1>1, <1>2, <1>4 DEF IInv, PlanFits
  <1>6. OwnerStands' /\ DoomedSetIsLeft'
    BY <1>2, <1>4 DEF IInv, OwnerStands, DoomedSetIsLeft
  <1>7. OwnNodeIsKnown' /\ NodeStateIsTrue' /\ NoStrayNode'
    BY <1>2 DEF OwnNodeIsKnown, NodeStateIsTrue, NoStrayNode
  <1>8. QED
    BY <1>3, <1>5, <1>6, <1>7 DEF IInv

LEMMA TeardownSetKeeps == ASSUME IInv, TeardownSet PROVE IInv'
  <1>1. /\ todo' = (todo \ {"deleteSet"}) \cup {"destroySet"} /\ "deleteSet" \in todo
        /\ todo \cap NodeDeletion = {} /\ SetsWith(setState) # {}
        /\ tearingSets' = tearingSets \cup {setState} /\ UNCHANGED <<sets, node, tearingNode>>
        /\ UNCHANGED <<config, applying, plan, events, states, owner, history>>
    BY DEF TeardownSet, Torn, TearsSet, Ready, SetDeletion
  <1>2. TypeOK'
    <2>1. todo' \subseteq {"createSet", "createNode", "updateNode"} \cup NodeDeletion \cup SetDeletion
      BY <1>1 DEF IInv, TypeOK, SetDeletion
    <2>2. \A id \in tearingSets' : SetsWith(id)' # {}
      BY <1>1 DEF IInv, TypeOK, SetsWith
    <2>3. QED
      BY <1>1, <2>1, <2>2 DEF IInv, TypeOK, states, history
  <1>3. todo \cap SetDeletion # {} /\ todo' \cap NodeDeletion = {}
        /\ ("createNode" \in todo' <=> "createNode" \in todo)
    BY <1>1 DEF SetDeletion, NodeDeletion
  <1>4. PlanFits'
    BY <1>1, <1>3 DEF IInv, PlanFits, states, TeardownSet, Ready
  <1>5. OwnerStands' /\ DoomedSetIsLeft'
    BY <1>1, <1>3 DEF IInv, OwnerStands, DoomedSetIsLeft, states, history
  <1>6. OwnNodeIsKnown' /\ NodeStateIsTrue' /\ NoStrayNode'
    BY <1>1 DEF IInv, states, history, OwnNodeIsKnown, NodeStateIsTrue, NoStrayNode, SetsWith, Labels
  <1>7. QED
    BY <1>2, <1>4, <1>5, <1>6 DEF IInv

\* A set may go: nothing that the provider knows to have made is left in it, and nothing that is
\* yet to be made is of it.
LEMMA DoomedSetMayGo ==
  ASSUME IInv, DestroysSet, todo \cap SetDeletion # {}, todo \cap NodeDeletion = {},
         UNCHANGED <<excused, replaced>>
  PROVE  /\ NoStrayNode'
         /\ owner # Null /\ ~replaced => owner \in sets'
         /\ sets' \subseteq SetRecords /\ \A s, r \in sets' : s.id = r.id => s = r
         /\ \A id \in tearingSets' : SetsWith(id)' # {}
  <1>1. NoStrayNode'
    <2>1. node # Null /\ ~excused => node.set # setState
      BY DEF IInv, DoomedSetIsLeft
    <2>2. QED
      BY <2>1 DEF IInv, DestroysSet, NoStrayNode, SetsWith
  <1>2. owner # Null /\ ~replaced => owner \in sets'
    BY DEF IInv, DestroysSet, OwnerStands, DoomedSetIsLeft, SetsWith
  <1>3. sets' \subseteq SetRecords /\ \A s, r \in sets' : s.id = r.id => s = r
    BY DEF IInv, DestroysSet, TypeOK
  <1>4. \A id \in tearingSets' : SetsWith(id)' # {}
    <2> SUFFICES ASSUME NEW id \in tearingSets' PROVE SetsWith(id)' # {}
      OBVIOUS
    <2>1. id \in tearingSets /\ id # setState
      BY DEF DestroysSet
    <2>2. PICK s \in sets : s.id = id
      BY <2>1 DEF IInv, TypeOK, SetsWith
    <2>3. QED
      BY <2>1, <2>2 DEF DestroysSet, SetsWith
  <1>5. QED
    BY <1>1, <1>2, <1>3, <1>4

LEMMA DestroySetKeeps == ASSUME IInv, DestroySet PROVE IInv'
  <1>1. /\ todo \cap SetDeletion # {} /\ todo \cap NodeDeletion = {} /\ DestroysSet
        /\ (\E step \in SetDeletion : todo' = todo \ {step})
    BY DEF DestroySet, Ready, SetDeletion, Does
  <1>2. /\ setState' = Null
        /\ UNCHANGED <<config, applying, plan, events, state, owner, settled, replaced, excused, node,
                       tearingNode>>
    BY DEF DestroySet, DestroysSet, Does, history
  <1>3. /\ NoStrayNode' /\ (owner # Null /\ ~replaced => owner \in sets')
        /\ sets' \subseteq SetRecords /\ \A s, r \in sets' : s.id = r.id => s = r
        /\ \A id \in tearingSets' : SetsWith(id)' # {}
    BY <1>1, <1>2, DoomedSetMayGo
  <1>4. TypeOK'
    BY <1>1, <1>2, <1>3 DEF IInv, TypeOK
  <1>5. todo' \cap SetDeletion = {} /\ todo' \subseteq todo
        /\ ("createNode" \in todo => "createNode" \in todo')
    <2>1. ~("deleteSet" \in todo /\ "destroySet" \in todo)
      BY DEF IInv, PlanFits
    <2>2. QED
      BY <1>1, <2>1 DEF DestroySet, Does, SetDeletion, Ready
  <1>6. PlanFits'
    BY <1>2, <1>5 DEF IInv, PlanFits
  <1>7. OwnerStands' /\ DoomedSetIsLeft'
    BY <1>2, <1>3, <1>5 DEF IInv, OwnerStands, DoomedSetIsLeft
  <1>8. OwnNodeIsKnown' /\ NodeStateIsTrue'
    BY <1>2 DEF IInv, OwnNodeIsKnown, NodeStateIsTrue, Labels
  <1>9. QED
    BY <1>3, <1>4, <1>6, <1>7, <1>8 DEF IInv

LEMMA CreateSetKeeps == ASSUME IInv, CreateSet PROVE IInv'
  <1>1. CASE Fails
    BY <1>1, FailsKeeps
  <1>2. CASE ~Fails
    <2> USE DEF Does, history
    <2>1. /\ "createSet" \in todo /\ todo \cap SetDeletion = {} /\ todo' = todo \ {"createSet"}
          /\ SetsWith(plan.set) = {} /\ sets' = sets \cup {NewSet(plan.set)} /\ setState' = plan.set
          /\ UNCHANGED <<config, applying, plan, events, tearingSets, node, tearingNode, state, owner,
                         history>>
      BY <1>2 DEF CreateSet, Ready
    <2>2. plan.set \in Managed
      BY <2>1 DEF IInv, PlanFits
    <2>3. NewSet(plan.set) \in SetRecords /\ NewSet(plan.set).id = plan.set
      BY <2>2, NewSetType, NodeAssumption
    <2>4. \A s, r \in sets' : s.id = r.id => s = r
      BY <2>1, <2>3 DEF IInv, TypeOK, SetsWith
    <2>5. TypeOK'
      <3>1. \A id \in tearingSets' : SetsWith(id)' # {}
        BY <2>1 DEF IInv, TypeOK, SetsWith
      <3>2. QED
        BY <2>1, <2>2, <2>3, <2>4, <3>1 DEF IInv, TypeOK
    <2>6. PlanFits' /\ OwnerStands' /\ DoomedSetIsLeft'
      BY <2>1 DEF IInv, PlanFits, OwnerStands, DoomedSetIsLeft
    <2>7. OwnNodeIsKnown' /\ NodeStateIsTrue' /\ NoStrayNode'
      BY <2>1 DEF IInv, OwnNodeIsKnown, NodeStateIsTrue, NoStrayNode, SetsWith, Labels
    <2>8. QED
      BY <2>5, <2>6, <2>7 DEF IInv
  <1>3. QED
    BY <1>1, <1>2

LEMMA ReadOwnerKeeps == ASSUME IInv, ReadOwner PROVE IInv'
  <1>1. CASE Fails
    BY <1>1, FailsKeeps
  <1>2. CASE ~Fails
    <2>1. PICK s \in SetsWith(plan.node.set) :
            /\ s.cluster = plan.node.cluster
            /\ owner' = s /\ replaced' = FALSE
            /\ UNCHANGED <<config, omni, states, todo, applying, plan, settled, excused, events>>
      BY <1>2 DEF ReadOwner
    <2>2. "createNode" \in todo /\ applying /\ s \in sets /\ s.id = plan.node.set
      BY <2>1 DEF ReadOwner, Ready, SetsWith
    <2>3. TypeOK'
      BY <2>1, <2>2 DEF IInv, TypeOK, omni, states, SetsWith
    <2>4. PlanFits' /\ OwnerStands' /\ DoomedSetIsLeft'
      BY <2>1, <2>2 DEF IInv, omni, states, PlanFits, OwnerStands, DoomedSetIsLeft
    <2>5. OwnNodeIsKnown' /\ NodeStateIsTrue' /\ NoStrayNode'
      BY <2>1 DEF IInv, omni, states, OwnNodeIsKnown, NodeStateIsTrue, NoStrayNode, SetsWith, Labels
    <2>6. QED
      BY <2>3, <2>4, <2>5 DEF IInv
  <1>3. QED
    BY <1>1, <1>2

\* The node that the set that was read makes: of the planned set and cluster.
LEMMA MadeNode ==
  ASSUME IInv, Ready("createNode"), owner # Null
  PROVE  /\ [set |-> owner.id, cluster |-> owner.cluster, role |-> owner.role] \in NodeRecords
         /\ Labels([set |-> owner.id, cluster |-> owner.cluster, role |-> owner.role]) = plan.node
         /\ plan.node \in Models /\ plan.node # Null
  <1>1. owner \in SetRecords /\ owner.id = plan.node.set /\ owner.cluster = plan.node.cluster
    BY DEF IInv, TypeOK, OwnerStands
  <1>2. plan.node \in Models /\ plan.node # Null
    BY DEF IInv, PlanFits, Ready
  <1>3. QED
    BY <1>1, <1>2 DEF SetRecords, NodeRecords, Models, Labels

LEMMA CreateNodeKeeps == ASSUME IInv, CreateNode PROVE IInv'
  <1>1. CASE Fails
    BY <1>1, FailsKeeps
  <1>2. CASE ~Fails
    <2> DEFINE made == [set |-> owner.id, cluster |-> owner.cluster, role |-> owner.role]
    <2>1. /\ "createNode" \in todo /\ todo \cap NodeDeletion = {}
          /\ todo' = todo \ {"createNode"} /\ owner # Null /\ Ready("createNode")
          /\ node' = made /\ owner' = Null /\ state' = plan.node /\ settled' = TRUE
          /\ excused' = replaced
          /\ UNCHANGED <<config, applying, plan, events, sets, tearingSets, tearingNode, setState, replaced>>
      BY <1>2 DEF CreateNode, Stored, Does, Ready
    <2>2. made \in NodeRecords /\ Labels(made) = plan.node /\ plan.node \in Models /\ plan.node # Null
      BY <2>1, MadeNode
    <2>3. made # Null
      BY <2>2, NullAssumption
    <2>4. made.set = owner.id /\ made.set = plan.node.set /\ (~replaced => owner \in sets)
      BY <2>1 DEF IInv, OwnerStands
    <2>5. TypeOK'
      BY <2>1, <2>2, <2>3 DEF IInv, TypeOK, SetsWith
    <2>6. PlanFits' /\ OwnerStands'
      BY <2>1 DEF IInv, PlanFits, OwnerStands
    <2>7. DoomedSetIsLeft'
      BY <2>1, <2>4 DEF IInv, DoomedSetIsLeft
    <2>8. OwnNodeIsKnown' /\ NodeStateIsTrue'
      BY <2>1, <2>2, <2>3 DEF OwnNodeIsKnown, NodeStateIsTrue
    <2>9. NoStrayNode'
      BY <2>1, <2>4 DEF NoStrayNode, SetsWith
    <2>10. QED
      BY <2>5, <2>6, <2>7, <2>8, <2>9 DEF IInv
  <1>3. QED
    BY <1>1, <1>2

\* A call that is not answered keeps the types: each does what its step would.
LEMMA UnansweredTypes == ASSUME IInv, Unanswered PROVE TypeOK'
  <1>1. events' \in 0 .. MaxEvents
    BY NodeAssumption DEF IInv, TypeOK, Unanswered, Happens
  <1>2. /\ node' \in NodeRecords \cup {Null} /\ sets' \subseteq SetRecords
        /\ \A s, r \in sets' : s.id = r.id => s = r
        /\ \A id \in tearingSets' : SetsWith(id)' # {}
        /\ tearingNode' \in BOOLEAN /\ (tearingNode' => node' # Null)
        /\ excused' \in BOOLEAN
    <2>1. CASE TearsNode /\ UNCHANGED excused
      BY <2>1 DEF IInv, TypeOK, TearsNode, SetsWith
    <2>2. CASE DestroysNode /\ UNCHANGED excused
      BY <2>2 DEF IInv, TypeOK, DestroysNode, SetsWith
    <2>3. CASE TearsSet /\ UNCHANGED excused
      <3>1. \A id \in tearingSets' : SetsWith(id)' # {}
        BY <2>3 DEF IInv, TypeOK, TearsSet, SetsWith
      <3>2. QED
        BY <2>3, <3>1, Unchanging DEF IInv, TearsSet
    <2>4. CASE Ready("destroySet") /\ DestroysSet /\ UNCHANGED excused
      <3>1. /\ UNCHANGED <<node, tearingNode>>
            /\ sets' \subseteq SetRecords /\ \A s, r \in sets' : s.id = r.id => s = r
            /\ \A id \in tearingSets' : SetsWith(id)' # {}
        BY <2>4, DoomedSetMayGo DEF Unanswered, Ready, SetDeletion, DestroysSet
      <3>2. QED
        BY <2>4, <3>1, Unchanging DEF IInv
    <2>5. CASE /\ Ready("createSet") /\ SetsWith(plan.set) = {}
               /\ sets' = sets \cup {NewSet(plan.set)}
               /\ UNCHANGED <<tearingSets, node, tearingNode, excused>>
      <3>1. plan.set \in Managed
        BY <2>5 DEF IInv, PlanFits, Ready
      <3>2. NewSet(plan.set) \in SetRecords /\ NewSet(plan.set).id = plan.set
        BY <3>1, NewSetType, NodeAssumption
      <3>3. /\ sets' \subseteq SetRecords /\ \A s, r \in sets' : s.id = r.id => s = r
            /\ \A id \in tearingSets' : SetsWith(id)' # {}
        BY <2>5, <3>2 DEF IInv, TypeOK, SetsWith
      <3>4. QED
        BY <2>5, <3>3, Unchanging DEF IInv
    <2>6. CASE /\ Ready("createNode") /\ owner # Null /\ node = Null
               /\ node' = [set |-> owner.id, cluster |-> owner.cluster, role |-> owner.role]
               /\ excused' = TRUE /\ UNCHANGED <<sets, tearingSets, tearingNode>>
      <3>1. node' \in NodeRecords /\ node' # Null
        BY <2>6, MadeNode, NullAssumption
      <3>2. tearingNode' \in BOOLEAN
        BY <2>6, Unchanging DEF IInv
      <3>3. QED
        BY <2>6, <3>1, <3>2 DEF IInv, TypeOK, SetsWith
    <2>7. QED
      BY <2>1, <2>2, <2>3, <2>4, <2>5, <2>6 DEF Unanswered
  <1>3. QED
    BY <1>1, <1>2 DEF IInv, TypeOK, Unanswered, Abort, states

\* Only a node's creation makes a node that is not known; a set is destroyed once the node is.
LEMMA UnansweredKeeps == ASSUME IInv, Unanswered PROVE IInv'
  <1>1. TypeOK'
    BY UnansweredTypes
  <1>2. PlanFits' /\ OwnerStands' /\ DoomedSetIsLeft'
    BY DEF Unanswered, Abort, PlanFits, OwnerStands, DoomedSetIsLeft
  <1>3. NodeStateIsTrue'
    BY DEF Unanswered, NodeStateIsTrue
  <1>4. OwnNodeIsKnown' /\ NoStrayNode'
    <2>1. CASE UNCHANGED <<node, excused>> /\ sets \subseteq sets'
      BY <2>1 DEF IInv, Unanswered, states, OwnNodeIsKnown, NoStrayNode, SetsWith, Labels
    <2>2. CASE node' = Null \/ excused'
      BY <2>2 DEF OwnNodeIsKnown, NoStrayNode
    <2>3. CASE Ready("destroySet") /\ DestroysSet /\ UNCHANGED excused
      <3>1. NoStrayNode'
        BY <2>3, DoomedSetMayGo DEF Unanswered, Ready, SetDeletion
      <3>2. OwnNodeIsKnown'
        BY <2>3 DEF IInv, Unanswered, states, DestroysSet, OwnNodeIsKnown, Labels
      <3>3. QED
        BY <3>1, <3>2
    <2>4. QED
      BY <2>1, <2>2, <2>3 DEF Unanswered, TearsNode, DestroysNode, TearsSet
  <1>5. QED
    BY <1>1, <1>2, <1>3, <1>4 DEF IInv

--------------------------------------------------------------------------------
(* Theorems *)

LEMMA NextKeeps == ASSUME IInv, Next PROVE IInv'
  BY EditKeeps, OthersSetKeeps, OthersNodeKeeps, RefreshSetKeeps, RefreshNodeKeeps, ImportNodeKeeps,
     StartApplyKeeps, TeardownNodeKeeps, DestroyNodeKeeps, TeardownSetKeeps, DestroySetKeeps,
     CreateSetKeeps, ReadOwnerKeeps,
     CreateNodeKeeps, FinishKeeps, UnansweredKeeps, UnreachedKeeps DEF Next, Step

LEMMA StutterKeeps == ASSUME IInv, UNCHANGED vars PROVE IInv'
  <1>1. TypeOK'
    BY DEF IInv, TypeOK, vars, omni, states, apply, history, SetsWith
  <1>2. PlanFits' /\ OwnerStands' /\ DoomedSetIsLeft'
    BY DEF IInv, vars, omni, states, apply, history, PlanFits, OwnerStands, DoomedSetIsLeft
  <1>3. OwnNodeIsKnown' /\ NodeStateIsTrue' /\ NoStrayNode'
    BY DEF IInv, vars, omni, states, history, OwnNodeIsKnown, NodeStateIsTrue, NoStrayNode, SetsWith,
       Labels
  <1>4. QED
    BY <1>1, <1>2, <1>3 DEF IInv

\* The inductive invariant: applies of terraform's order keep to their plan, and what the
\* provider knows to have made is in the state and has its set.
THEOREM Invariance == Spec => []IInv
  <1>1. IInv /\ [Next]_vars => IInv'
    BY NextKeeps, StutterKeeps
  <1>2. QED
    BY InitHolds, <1>1, PTL DEF Spec

\* Every variable keeps its type, and no two machine sets have one ID (TypeOK).
THEOREM Typing == Spec => []TypeOK
  <1>1. IInv => TypeOK
    BY DEF IInv
  <1>2. QED
    BY <1>1, Invariance, PTL

\* The machine is in the set and the cluster that the state says, while nobody else touched its
\* node and its creation was answered (NodeStateIsTrue).
THEOREM StateTellsTheTruth == Spec => []NodeStateIsTrue
  <1>1. IInv => NodeStateIsTrue
    BY DEF IInv
  <1>2. QED
    BY <1>1, Invariance, PTL

\* A node that terraform knows to have made is not left in a set that is gone or of another
\* cluster or role, by no apply, though a deletion be interrupted or not answered.  Nothing is
\* said of a node whose creation was not answered: a later apply may destroy its set
\* (NoStrayNode).
THEOREM NoMachineStrays == Spec => []NoStrayNode
  <1>1. IInv => NoStrayNode
    BY DEF IInv
  <1>2. QED
    BY <1>1, Invariance, PTL

================================================================================
