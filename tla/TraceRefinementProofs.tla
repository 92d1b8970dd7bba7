----------------------- MODULE TraceRefinementProofs -----------------------
(***************************************************************************)
(* The trace storage implements the safety part of the atomic trace       *)
(* (TraceAbstract) under the refinement mapping Abs of TraceStorage, for   *)
(* every number of threads and every bound.                                *)
(*                                                                         *)
(* Besides the lock invariant IInv, the step proofs need what the storage *)
(* keeps of its interaction objects: object n carries request n; objects  *)
(* not yet handed out, and the object a pending start_new_interaction is  *)
(* about to publish, are still fresh (no response has been pushed to      *)
(* them), since pushes go only to the current object and a pending        *)
(* object is never current.                                                *)
(***************************************************************************)
EXTENDS TraceStorageProofs

(* The pcs at which start_new_interaction holds its fresh object. *)
StartPCs == {"sn_lock", "sn_assign"}

ObjInv ==
  /\ cur \in 0 .. nreq
  /\ \A n \in Objects : objs[n].req = n
  /\ \A n \in Objects : n > nreq => objs[n] = NewInteraction(n)
  /\ \A t \in Threads :
       pc[t] \in StartPCs =>
         /\ ptr[t] = arg[t]
         /\ arg[t] \in 1 .. nreq
         /\ arg[t] # cur
         /\ objs[arg[t]] = NewInteraction(arg[t])
  /\ \A t, u \in Threads :
       t # u /\ pc[t] \in StartPCs /\ pc[u] \in StartPCs => arg[t] # arg[u]

RInv == IInv /\ ObjInv

LEMMA InitObjInv == Init => ObjInv
  BY BoundsAssumption DEF Init, ObjInv, Objects, NewInteraction, StartPCs

(* Every step keeps the objects' invariant.  The push is the step that   *)
(* needs the lock invariant: it writes the current object, and no fresh  *)
(* or pending object is current.                                          *)
LEMMA NextObjInv == TypeOK /\ LockInv /\ ObjInv /\ [Next]_vars => ObjInv'
  <1> SUFFICES ASSUME TypeOK, LockInv, ObjInv, [Next]_vars PROVE ObjInv'
    OBVIOUS
  <1> USE ThreadsAssumption, BoundsAssumption
  <1>0. /\ pc \in [Threads -> PCs]
        /\ ptr \in [Threads -> 0 .. MaxRequests]
        /\ arg \in [Threads -> 0 .. (MaxRequests + MaxResponses)]
        /\ objs \in [Objects -> Interactions]
        /\ cur \in 0 .. MaxRequests
        /\ nreq \in 0 .. MaxRequests
    BY DEF TypeOK
  <1> USE <1>0 DEF ObjInv, StartPCs, Goto, PCs
  <1>1. ASSUME NEW t \in Threads, StartNewInteraction(t) PROVE ObjInv'
    <2>1. /\ nreq + 1 \in Objects
          /\ nreq' = nreq + 1 /\ objs' = objs /\ cur' = cur
          /\ pc[t] = "idle" /\ pc'[t] = "sn_lock"
          /\ arg'[t] = nreq + 1 /\ ptr'[t] = nreq + 1
          /\ \A u \in Threads : u # t =>
               pc'[u] = pc[u] /\ arg'[u] = arg[u] /\ ptr'[u] = ptr[u]
      BY <1>1 DEF StartNewInteraction, Objects
    <2>2. ASSUME NEW u \in Threads, pc'[u] \in StartPCs
          PROVE  /\ ptr'[u] = arg'[u]
                 /\ arg'[u] \in 1 .. nreq'
                 /\ arg'[u] # cur'
                 /\ objs'[arg'[u]] = NewInteraction(arg'[u])
      <3>1. CASE u = t
        BY <2>1, <3>1
      <3>2. CASE u # t
        BY <2>1, <2>2, <3>2
      <3>3. QED
        BY <3>1, <3>2
    <2>3. ASSUME NEW u \in Threads, NEW v \in Threads, u # v,
                 pc'[u] \in StartPCs, pc'[v] \in StartPCs
          PROVE  arg'[u] # arg'[v]
      <3>1. CASE u = t
        BY <2>1, <2>3, <3>1
      <3>2. CASE v = t
        BY <2>1, <2>3, <3>2
      <3>3. CASE u # t /\ v # t
        BY <2>1, <2>3, <3>3
      <3>4. QED
        BY <3>1, <3>2, <3>3
    <2>4. /\ cur' \in 0 .. nreq'
          /\ \A n \in Objects : objs'[n].req = n
          /\ \A n \in Objects : n > nreq' => objs'[n] = NewInteraction(n)
      <3>1. cur' \in 0 .. nreq'
        BY <2>1
      <3>2. \A n \in Objects : objs'[n].req = n
        BY <2>1
      <3>3. \A n \in Objects : n > nreq' => objs'[n] = NewInteraction(n)
        BY <2>1 DEF Objects
      <3>4. QED
        BY <3>1, <3>2, <3>3
    <2>5. QED
      BY <2>2, <2>3, <2>4
  <1>2. ASSUME NEW t \in Threads, StartLockOuter(t) PROVE ObjInv'
    BY <1>2 DEF StartLockOuter
  <1>3. ASSUME NEW t \in Threads, StartAssign(t) PROVE ObjInv'
    BY <1>3 DEF StartAssign
  <1>4. ASSUME NEW t \in Threads, AddResponseToCurrent(t) PROVE ObjInv'
    BY <1>4 DEF AddResponseToCurrent
  <1>5. ASSUME NEW t \in Threads, AddLockOuter(t) PROVE ObjInv'
    BY <1>5 DEF AddLockOuter
  <1>6. ASSUME NEW t \in Threads, AddNoCurrent(t) PROVE ObjInv'
    BY <1>6 DEF AddNoCurrent
  <1>7. ASSUME NEW t \in Threads, AddLockInner(t) PROVE ObjInv'
    BY <1>7 DEF AddLockInner
  <1>8. ASSUME NEW t \in Threads, AddPush(t) PROVE ObjInv'
    <2>1. ptr[t] = cur /\ cur \in Objects /\ cur <= nreq
      BY <1>8 DEF AddPush, LockInv, NoStaleAccess, Objects
    <2>2. objs' = [objs EXCEPT ![cur].resps = Append(@, arg[t])]
      BY <1>8, <2>1 DEF AddPush
    <2>3. \A n \in Objects : objs'[n].req = objs[n].req
      BY <2>1, <2>2
    <2>4. \A n \in Objects : n # cur => objs'[n] = objs[n]
      BY <2>1, <2>2
    <2>5. QED
      BY <1>8, <2>1, <2>3, <2>4 DEF AddPush
  <1>9. ASSUME NEW t \in Threads, AddUnlockOuter(t) PROVE ObjInv'
    BY <1>9 DEF AddUnlockOuter
  <1>10. ASSUME NEW t \in Threads, GetLastInteraction(t) PROVE ObjInv'
    BY <1>10 DEF GetLastInteraction
  <1>11. ASSUME NEW t \in Threads, GetLockOuter(t) PROVE ObjInv'
    BY <1>11 DEF GetLockOuter
  <1>12. ASSUME NEW t \in Threads, GetNoCurrent(t) PROVE ObjInv'
    BY <1>12 DEF GetNoCurrent
  <1>13. ASSUME NEW t \in Threads, GetLockInner(t) PROVE ObjInv'
    BY <1>13 DEF GetLockInner
  <1>14. ASSUME NEW t \in Threads, GetClone(t) PROVE ObjInv'
    BY <1>14 DEF GetClone
  <1>15. ASSUME NEW t \in Threads, GetUnlockOuter(t) PROVE ObjInv'
    BY <1>15 DEF GetUnlockOuter
  <1>16. CASE UNCHANGED vars
    BY <1>16 DEF vars
  <1>17. QED
    BY <1>1, <1>2, <1>3, <1>4, <1>5, <1>6, <1>7, <1>8, <1>9, <1>10,
       <1>11, <1>12, <1>13, <1>14, <1>15, <1>16 DEF Next, Step

LEMMA InitRInv == Init => RInv
  BY InitIInv, InitObjInv DEF RInv

LEMMA NextRInv == RInv /\ [Next]_vars => RInv'
  BY NextIInv, NextObjInv DEF RInv, IInv, LockInv

-----------------------------------------------------------------------------
(* The abstract op of every thread, as the refinement mapping gives it. *)
AOp == [u \in Threads |-> AbstractOp(u)]

(* The initial state of the storage is an initial state of the trace: no  *)
(* current interaction, no call pending.                                  *)
LEMMA InitRefines == Init => Abs!Init
  BY DEF Init, Abs!Init, Current, AbstractOp, Abs!NoInteraction,
      NoInteraction

(* A step that leaves the current interaction, each thread's abstract op *)
(* and the recorded values alone is an abstract stutter.                  *)
LEMMA StutterRefines ==
  ASSUME Current' = Current, AOp' = AOp,
         UNCHANGED <<arg, snap, nreq, nresp>>
  PROVE  UNCHANGED Abs!avars
  BY DEF Abs!avars, AOp

(* Every step of the storage is a step of the atomic trace or leaves it   *)
(* unchanged.  The effective steps (the assignment, the push, the clone   *)
(* and the two releases on None) are the abstract Do steps; the first     *)
(* step of each call is its abstract Call step; the lock steps stutter.   *)
LEMMA StepRefines == RInv /\ [Next]_vars => [Abs!Next]_Abs!avars
  <1> SUFFICES ASSUME RInv, [Next]_vars PROVE [Abs!Next]_Abs!avars
    OBVIOUS
  <1> USE ThreadsAssumption, BoundsAssumption
  <1>0. /\ TypeOK /\ LockInv /\ ObjInv
        /\ pc \in [Threads -> PCs]
        /\ objs \in [Objects -> Interactions]
        /\ cur \in 0 .. MaxRequests
    BY DEF RInv, IInv, LockInv, TypeOK
  <1> USE <1>0
  <1>1. ASSUME NEW t \in Threads, StartNewInteraction(t)
        PROVE  Abs!CallStart(t)
    <2>1. AOp[t] = "idle" /\ AOp' = [AOp EXCEPT ![t] = "start"]
      BY <1>1 DEF StartNewInteraction, Goto, AOp, AbstractOp
    <2>2. Current' = Current
      BY <1>1 DEF StartNewInteraction, Current
    <2>3. QED
      BY <1>1, <2>1, <2>2 DEF StartNewInteraction, Abs!CallStart, AOp
  <1>2. ASSUME NEW t \in Threads, StartAssign(t) PROVE Abs!DoStart(t)
    <2>1. /\ ptr[t] = arg[t] /\ arg[t] \in 1 .. nreq
          /\ objs[arg[t]] = NewInteraction(arg[t])
      BY <1>2 DEF StartAssign, Goto, ObjInv, StartPCs
    <2>2. Current' = [req |-> arg[t], resps |-> << >>]
      BY <1>2, <2>1 DEF StartAssign, Current, NewInteraction
    <2>3. AOp[t] = "start" /\ AOp' = [AOp EXCEPT ![t] = "idle"]
      BY <1>2 DEF StartAssign, Goto, AOp, AbstractOp
    <2>4. QED
      BY <1>2, <2>2, <2>3 DEF StartAssign, Abs!DoStart, AOp
  <1>3. ASSUME NEW t \in Threads, AddResponseToCurrent(t)
        PROVE  Abs!CallAdd(t)
    <2>1. AOp[t] = "idle" /\ AOp' = [AOp EXCEPT ![t] = "add"]
      BY <1>3 DEF AddResponseToCurrent, Goto, AOp, AbstractOp
    <2>2. Current' = Current
      BY <1>3 DEF AddResponseToCurrent, Current
    <2>3. QED
      BY <1>3, <2>1, <2>2 DEF AddResponseToCurrent, Abs!CallAdd, AOp
  <1>4. ASSUME NEW t \in Threads, AddNoCurrent(t) PROVE Abs!DoAdd(t)
    <2>1. Current' = Current /\ Current.req = 0
      BY <1>4 DEF AddNoCurrent, Current, NoInteraction
    <2>2. AOp[t] = "add" /\ AOp' = [AOp EXCEPT ![t] = "idle"]
      BY <1>4 DEF AddNoCurrent, Goto, AOp, AbstractOp
    <2>3. QED
      BY <1>4, <2>1, <2>2 DEF AddNoCurrent, Abs!DoAdd, AOp
  <1>5. ASSUME NEW t \in Threads, AddPush(t) PROVE Abs!DoAdd(t)
    <2>1. ptr[t] = cur /\ cur \in Objects
      BY <1>5 DEF AddPush, Goto, LockInv, NoStaleAccess, Objects
    <2>2. Current.req # 0
      BY <2>1 DEF Current, ObjInv, Objects
    <2>3. Current' = [Current EXCEPT !.resps = Append(@, arg[t])]
      <3>1. cur # 0 /\ cur' = cur
        BY <1>5, <2>1 DEF AddPush, Objects
      <3>2. Current = objs[cur] /\ Current' = objs'[cur]
        BY <3>1 DEF Current
      <3>3. objs'[cur] = [objs[cur] EXCEPT !.resps = Append(@, arg[t])]
        BY <1>5, <2>1 DEF AddPush
      <3>4. QED
        BY <3>2, <3>3
    <2>4. AOp[t] = "add" /\ AOp' = [AOp EXCEPT ![t] = "idle"]
      BY <1>5 DEF AddPush, Goto, AOp, AbstractOp
    <2>5. QED
      BY <1>5, <2>2, <2>3, <2>4 DEF AddPush, Abs!DoAdd, AOp
  <1>6. ASSUME NEW t \in Threads, GetLastInteraction(t)
        PROVE  Abs!CallGet(t)
    <2>1. AOp[t] = "idle" /\ AOp' = [AOp EXCEPT ![t] = "get"]
      BY <1>6 DEF GetLastInteraction, Goto, AOp, AbstractOp
    <2>2. Current' = Current
      BY <1>6 DEF GetLastInteraction, Current
    <2>3. QED
      BY <1>6, <2>1, <2>2 DEF GetLastInteraction, Abs!CallGet, AOp
  <1>7. ASSUME NEW t \in Threads, GetNoCurrent(t) PROVE Abs!DoGet(t)
    <2>1. Current' = Current /\ Current = NoInteraction
      BY <1>7 DEF GetNoCurrent, Current
    <2>2. AOp[t] = "get" /\ AOp' = [AOp EXCEPT ![t] = "idle"]
      BY <1>7 DEF GetNoCurrent, Goto, AOp, AbstractOp
    <2>3. QED
      BY <1>7, <2>1, <2>2 DEF GetNoCurrent, Abs!DoGet, AOp
  <1>8. ASSUME NEW t \in Threads, GetClone(t) PROVE Abs!DoGet(t)
    <2>1. ptr[t] = cur /\ cur # 0
      BY <1>8 DEF GetClone, Goto, LockInv, NoStaleAccess
    <2>2. Current' = Current /\ Current = objs[ptr[t]]
      BY <1>8, <2>1 DEF GetClone, Current
    <2>3. AOp[t] = "get" /\ AOp' = [AOp EXCEPT ![t] = "idle"]
      BY <1>8 DEF GetClone, Goto, AOp, AbstractOp
    <2>4. QED
      BY <1>8, <2>2, <2>3 DEF GetClone, Abs!DoGet, AOp
  <1>9. ASSUME NEW t \in Threads,
               \/ StartLockOuter(t) \/ AddLockOuter(t) \/ AddLockInner(t)
               \/ AddUnlockOuter(t) \/ GetLockOuter(t) \/ GetLockInner(t)
               \/ GetUnlockOuter(t)
        PROVE  UNCHANGED Abs!avars
    <2>1. Current' = Current /\ UNCHANGED <<arg, snap, nreq, nresp>>
      BY <1>9 DEF StartLockOuter, AddLockOuter, AddLockInner,
                  AddUnlockOuter, GetLockOuter, GetLockInner, GetUnlockOuter,
                  Current
    <2>2. AOp' = AOp
      BY <1>9 DEF StartLockOuter, AddLockOuter, AddLockInner,
                  AddUnlockOuter, GetLockOuter, GetLockInner, GetUnlockOuter,
                  Goto, AOp, AbstractOp
    <2>3. QED
      BY <2>1, <2>2, StutterRefines
  <1>10. CASE UNCHANGED vars
    <2>1. Current' = Current /\ AOp' = AOp
          /\ UNCHANGED <<arg, snap, nreq, nresp>>
      BY <1>10 DEF vars, Current, AOp, AbstractOp
    <2>2. QED
      BY <2>1, StutterRefines
  <1>11. QED
    BY <1>1, <1>2, <1>3, <1>4, <1>5, <1>6, <1>7, <1>8, <1>9, <1>10
    DEF Next, Step, Abs!Next, Abs!Do

(* The storage behind its two RwLocks implements the safety part of the   *)
(* atomic trace of spec 4.H: start_new_interaction, add_response_to_current *)
(* and get_last_interaction each take effect at one instant on the single *)
(* current interaction, for every number of threads and every bound.      *)
THEOREM Refinement == Spec => TraceAbstractSafety
  <1>1. Spec => []RInv
    BY InitRInv, NextRInv, PTL DEF Spec
  <1>2. QED
    BY <1>1, InitRefines, StepRefines, PTL DEF Spec, TraceAbstractSafety

=============================================================================
