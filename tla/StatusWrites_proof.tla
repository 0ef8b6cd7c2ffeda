------------------------- MODULE StatusWrites_proof -------------------------
(***************************************************************************)
(* What StatusWrites.tla promises, proved for any set of nodes, any number *)
(* of tries and any bounds.                                                *)
(*                                                                         *)
(* A write sends a whole object that was merged into a cached copy.  That  *)
(* it cannot undo another node's row rests on Fresh: an object whose       *)
(* cached version is the server's is the server's object.  The API server  *)
(* takes only such a write, so what is merged into is what is there.       *)
(***************************************************************************)
EXTENDS StatusWrites, TLAPS

\* A cached object that is not behind is the server's.
Fresh ==
  \A a \in Nodes : /\ "class" \notin behind[a] => cache[a].class = class
                   /\ "pm" \notin behind[a] => cache[a].pm = pm

\* The inductive invariant.
Inv == TypeOK /\ Fresh

-----------------------------------------------------------------------------
(* The helpers.                                                            *)

\* What is written has its type.
LEMMA MergeTypes ==
  /\ \A have, want \in PortMapStatus : MergePortMap(have, want) \in PortMapStatus
  /\ \A have \in Rows, a \in Nodes, row \in Row : MergeClass(have, a, row) \in Rows
  /\ Idle \in Pass
  /\ \A a \in Nodes : view \in [Nodes -> World] => Desired(a) \in PortMapStatus
<1>1. \A have, want \in PortMapStatus : MergePortMap(have, want) \in PortMapStatus
  BY DEF MergePortMap, PortMapStatus, Condition
<1>2. \A have \in Rows, a \in Nodes, row \in Row : MergeClass(have, a, row) \in Rows
  BY DEF MergeClass, Rows
<1>3. Idle \in Pass
  BY StatusAssumption DEF Idle, Pass, PortMapStatus, Condition, Row
<1>4. \A a \in Nodes : Desired(a) \in PortMapStatus
  BY DEF Desired, PortMapStatus, Condition, Cond
<1> QED
  BY <1>1, <1>2, <1>3, <1>4

\* What is left of a pass is a pass.
LEMMA AfterType ==
  ASSUME NEW p \in Pass, p.todo # <<>>
  PROVE  /\ After(p) \in Pass
         /\ Retried(p) \in Pass
         /\ Head(p.todo) \in Objects
<1>1. p.todo \in {<<"pm">>, <<"class">>, <<"pm", "class">>}
  BY DEF Pass
<1>2. Head(p.todo) \in Objects
  BY <1>1 DEF Objects
<1>3. Again(p) => [p EXCEPT !.tries = @ + 1] \in Pass
  BY StatusAssumption DEF Again, Pass
<1>4. CASE Len(p.todo) = 1
  <2>1. After(p) = Idle
    BY <1>4 DEF After
  <2> QED
    BY <1>2, <1>3, <2>1, MergeTypes DEF Retried
<1>5. CASE Len(p.todo) # 1
  <2>1. p.todo = <<"pm", "class">>
    BY <1>1, <1>5
  <2>2. Tail(p.todo) = <<"class">>
    BY <2>1
  <2>3. After(p) = [p EXCEPT !.todo = <<"class">>, !.tries = 0]
    BY <1>5, <2>2 DEF After
  <2>4. [p EXCEPT !.todo = <<"class">>, !.tries = 0] \in Pass
    <3>1. 0 \in 0 .. MaxTries - 1
      BY StatusAssumption
    <3> QED
      BY <3>1 DEF Pass
  <2> QED
    BY <1>2, <1>3, <2>3, <2>4 DEF Retried
<1> QED
  BY <1>2, <1>3, <1>4, <1>5

-----------------------------------------------------------------------------
(* The invariant.                                                          *)

LEMMA InvInit == Init => Inv
<1> SUFFICES ASSUME Init PROVE Inv
  OBVIOUS
<1>1. NoRows \in Rows /\ NoStatus \in PortMapStatus
  BY DEF NoRows, Rows, Row, NoStatus, PortMapStatus, Condition
<1>2. TypeOK
  <2>1. 0 \in 0 .. MaxChanges /\ 0 \in 0 .. MaxFaults
    BY StatusAssumption
  <2>2. /\ resolves \in [Nodes -> BOOLEAN] /\ pass \in [Nodes -> Pass]
        /\ view \in [Nodes -> World] /\ behind \in [Nodes -> SUBSET Objects]
    BY MergeTypes DEF Init
  <2>3. cache \in [Nodes -> [class : Rows, pm : PortMapStatus]]
    BY <1>1 DEF Init
  <2> QED
    BY <1>1, <2>1, <2>2, <2>3 DEF Init, TypeOK
<1>3. Fresh
  BY DEF Init, Fresh
<1> QED
  BY <1>2, <1>3 DEF Inv

\* The world, the hosts, and the watches.
LEMMA EnvironmentKeeps ==
  ASSUME Inv,
         \/ \E w \in World : WorldChanges(w)
         \/ \E a \in Nodes : HostChanges(a) \/ SeeWorld(a) \/ Restart(a)
         \/ \E a \in Nodes, o \in Objects : SeeObject(a, o)
  PROVE  Inv'
<1> USE DEF Inv, server, seen
<1>1. Change => changes' \in 0 .. MaxChanges /\ faults' \in 0 .. MaxFaults
  BY StatusAssumption DEF Change, TypeOK
<1>2. Fault => changes' \in 0 .. MaxChanges /\ faults' \in 0 .. MaxFaults
  BY StatusAssumption DEF Fault, TypeOK
<1>3. ASSUME NEW w \in World, WorldChanges(w)
      PROVE  Inv'
  BY <1>1, <1>3 DEF WorldChanges, TypeOK, Fresh
<1>4. ASSUME NEW a \in Nodes, HostChanges(a)
      PROVE  Inv'
  <2>1. resolves' \in [Nodes -> BOOLEAN]
    BY <1>4 DEF HostChanges, TypeOK
  <2> QED
    BY <1>1, <1>4, <2>1 DEF HostChanges, TypeOK, Fresh
<1>5. ASSUME NEW a \in Nodes, SeeWorld(a)
      PROVE  Inv'
  BY <1>5 DEF SeeWorld, TypeOK, Fresh
<1>6. ASSUME NEW a \in Nodes, Restart(a)
      PROVE  Inv'
  <2> USE <1>6 DEF Restart
  <2>1. cache'[a] = [class |-> class, pm |-> pm] /\ \A b \in Nodes \ {a} : cache'[b] = cache[b]
    BY DEF TypeOK
  <2>2. \A b \in Nodes \ {a} : behind'[b] = behind[b]
    BY DEF TypeOK
  <2>3. TypeOK'
    BY <1>2, MergeTypes DEF TypeOK
  <2>4. Fresh'
    BY <2>1, <2>2 DEF Fresh
  <2> QED
    BY <2>3, <2>4
<1>7. ASSUME NEW a \in Nodes, NEW o \in Objects, SeeObject(a, o)
      PROVE  Inv'
  <2> USE <1>7 DEF SeeObject
  <2>1. o = "pm" \/ o = "class"
    BY DEF Objects
  <2>2. /\ \A b \in Nodes \ {a} : cache'[b] = cache[b] /\ behind'[b] = behind[b]
        /\ behind'[a] = behind[a] \ {o}
        /\ o = "pm" => cache'[a].pm = pm /\ cache'[a].class = cache[a].class
        /\ o = "class" => cache'[a].class = class /\ cache'[a].pm = cache[a].pm
    BY <2>1 DEF TypeOK
  <2>3. TypeOK'
    BY <2>1 DEF TypeOK
  <2>4. Fresh'
    BY <2>1, <2>2 DEF Fresh
  <2> QED
    BY <2>3, <2>4
<1> QED
  BY <1>3, <1>4, <1>5, <1>6, <1>7

\* A pass, and the writes it makes.
LEMMA AgentKeeps ==
  ASSUME Inv, NEW a \in Nodes, Compute(a) \/ WriteStatus(a) \/ WriteFails(a)
  PROVE  Inv'
<1> USE DEF Inv, server, seen
<1>1. pass[a] \in Pass
  BY DEF TypeOK
<1>2. CASE Compute(a)
  <2> DEFINE p == [todo    |-> IF Owner(a) THEN <<"pm", "class">> ELSE <<"class">>,
                   desired |-> Desired(a), row |-> resolves[a], tries |-> 0]
  <2>2. Desired(a) \in PortMapStatus /\ resolves[a] \in Row /\ 0 \in 0 .. MaxTries - 1
    BY MergeTypes, StatusAssumption DEF TypeOK, Row
  <2>3. p \in Pass
    BY <2>2 DEF Pass
  <2> HIDE DEF p
  <2>4. pass' = [pass EXCEPT ![a] = p]
    BY <1>2 DEF Compute, p
  <2>5. pass' \in [Nodes -> Pass]
    BY <2>3, <2>4 DEF TypeOK
  <2> QED
    BY <1>2, <2>5 DEF Compute, TypeOK, Fresh
<1>3. CASE WriteFails(a)
  <2>1. After(pass[a]) \in Pass
    BY <1>1, <1>3, AfterType DEF WriteFails
  <2>2. pass' \in [Nodes -> Pass]
    BY <1>3, <2>1 DEF WriteFails, TypeOK
  <2>3. faults' \in 0 .. MaxFaults /\ UNCHANGED changes
    BY <1>3, StatusAssumption DEF WriteFails, Fault, TypeOK
  <2> QED
    BY <1>3, <2>2, <2>3 DEF WriteFails, TypeOK, Fresh
<1>4. CASE WriteStatus(a)
  <2> DEFINE o == Head(pass[a].todo)
  <2>1. pass[a].todo # <<>> /\ o \in Objects /\ After(pass[a]) \in Pass
    BY <1>1, <1>4, AfterType DEF WriteStatus
  <2>2. UNCHANGED <<world, resolves, view, cache, changes, faults>>
    BY <1>4 DEF WriteStatus
  <2>3. WriteOrSkip(a, o) \/ Conflict(a, o)
    BY <1>4 DEF WriteStatus
  <2> HIDE DEF o
  <2>4. CASE Conflict(a, o)
    <3>1. pass' \in [Nodes -> Pass]
      <4>1. Retried(pass[a]) \in Pass
        BY <1>1, <2>1, AfterType
      <4> QED
        BY <2>4, <4>1 DEF Conflict, TypeOK
    <3> QED
      BY <2>2, <2>4, <3>1 DEF Conflict, TypeOK, Fresh
  <2>5. CASE WriteOrSkip(a, o) /\ Merged(a, o) = Cached(a, o)
    <3>1. pass' \in [Nodes -> Pass]
      BY <2>1, <2>5 DEF WriteOrSkip, TypeOK
    <3> QED
      BY <2>2, <2>5, <3>1 DEF WriteOrSkip, TypeOK, Fresh
  <2>6. CASE WriteOrSkip(a, o) /\ Merged(a, o) # Cached(a, o)
    <3>1. pass' \in [Nodes -> Pass]
      BY <2>1, <2>6 DEF WriteOrSkip, TypeOK
    <3>2. /\ o = "pm" => pm' = MergePortMap(cache[a].pm, pass[a].desired) /\ UNCHANGED class
          /\ o = "class" => class' = MergeClass(cache[a].class, a, pass[a].row) /\ UNCHANGED pm
          /\ behind' = [b \in Nodes |-> behind[b] \cup {o}]
      BY <2>6 DEF WriteOrSkip, Merged
    <3>3. o = "pm" \/ o = "class"
      BY <2>1 DEF Objects
    <3>4. pass[a].desired \in PortMapStatus /\ pass[a].row \in Row
      BY <1>1 DEF Pass
    <3>5. cache[a].pm \in PortMapStatus /\ cache[a].class \in Rows
      BY DEF TypeOK
    <3>6. pm' \in PortMapStatus /\ class' \in Rows
      BY <3>2, <3>3, <3>4, <3>5, MergeTypes DEF TypeOK
    <3>7. behind' \in [Nodes -> SUBSET Objects]
      BY <2>1, <3>2 DEF TypeOK
    <3>8. TypeOK'
      BY <2>2, <3>1, <3>6, <3>7 DEF TypeOK
    <3>9. Fresh'
      BY <2>2, <3>2, <3>3 DEF Fresh
    <3> QED
      BY <3>8, <3>9
  <2> QED
    BY <2>3, <2>4, <2>5, <2>6
<1> QED
  BY <1>2, <1>3, <1>4

LEMMA InvAlways == Spec => []Inv
<1>1. Inv /\ [Next]_vars => Inv'
  <2>1. ASSUME Inv, Next
        PROVE  Inv'
    BY <2>1, EnvironmentKeeps, AgentKeeps DEF Next, AgentStep
  <2>2. ASSUME Inv, UNCHANGED vars
        PROVE  Inv'
    BY <2>2 DEF Inv, TypeOK, Fresh, vars, server, seen
  <2> QED
    BY <2>1, <2>2
<1> QED
  BY <1>1, InvInit, PTL DEF Spec

-----------------------------------------------------------------------------
(* The theorems.                                                           *)

\* Every state has its type: a pass has the PortMap's write and the class's
\* to make, in this order, and a write is tried at most MaxTries times.
THEOREM StatusTypeCorrect == Spec => []TypeOK
BY InvAlways, PTL DEF Inv

\* A write that changes an object is the merge of this node's decision into
\* the object the server has at that moment.
LEMMA WriteMerges ==
  ASSUME Inv, NEW a \in Nodes, WriteStatus(a)
  PROVE  /\ class' = class \/ class' = MergeClass(class, a, pass[a].row)
         /\ pm' = pm \/ pm' = MergePortMap(pm, pass[a].desired)
<1> USE DEF Inv
<1> DEFINE o == Head(pass[a].todo)
<1>1. WriteOrSkip(a, o) \/ Conflict(a, o)
  BY DEF WriteStatus
<1>2. o = "pm" \/ o = "class"
  <2>1. pass[a] \in Pass /\ pass[a].todo # <<>>
    BY DEF WriteStatus, TypeOK
  <2> QED
    BY <2>1, AfterType DEF Objects
<1> HIDE DEF o
<1>3. class' = class \/ (class' = MergeClass(cache[a].class, a, pass[a].row) /\ "class" \notin behind[a])
  BY <1>1, <1>2 DEF WriteOrSkip, Conflict, Merged, SameVersion, server
<1>4. pm' = pm \/ (pm' = MergePortMap(cache[a].pm, pass[a].desired) /\ "pm" \notin behind[a])
  BY <1>1, <1>2 DEF WriteOrSkip, Conflict, Merged, SameVersion, server
<1> QED
  BY <1>3, <1>4 DEF Fresh

\* A write of one node leaves every other node's row as it is in the server
\* at that moment, however old the copy was that it merged into.
THEOREM StatusOwnRowOnly == Spec => OwnRowOnly
<1> DEFINE Own == \A a \in Nodes : WriteStatus(a) => \A b \in Nodes \ {a} : class'[b] = class[b]
<1>1. Inv /\ [Next]_vars => [Own]_vars
  <2> SUFFICES ASSUME Inv, NEW a \in Nodes, WriteStatus(a), NEW b \in Nodes \ {a}
               PROVE  class'[b] = class[b]
    OBVIOUS
  <2>1. class' = class \/ class' = MergeClass(class, a, pass[a].row)
    BY WriteMerges
  <2>2. class \in Rows
    BY DEF Inv, TypeOK
  <2> QED
    BY <2>1, <2>2 DEF MergeClass, Rows
<1> QED
  BY <1>1, InvAlways, PTL DEF Spec, OwnRowOnly

\* The same of the conditions of a PortMap, which change owner: a write sets
\* the conditions its node decided, in the object as it is in the server.
PortMapMerges ==
  [][\A a \in Nodes :
       WriteStatus(a) => pm' = pm \/ pm' = MergePortMap(pm, pass[a].desired)]_vars

THEOREM StatusPortMapMerges == Spec => PortMapMerges
<1> DEFINE Merges == \A a \in Nodes :
                       WriteStatus(a) => pm' = pm \/ pm' = MergePortMap(pm, pass[a].desired)
<1>1. Inv /\ [Next]_vars => [Merges]_vars
  BY WriteMerges
<1> QED
  BY <1>1, InvAlways, PTL DEF Spec, PortMapMerges

=============================================================================
