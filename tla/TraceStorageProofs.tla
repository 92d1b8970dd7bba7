------------------------- MODULE TraceStorageProofs -------------------------
(***************************************************************************)
(* Proofs about the lock protocol of the trace storage (TraceStorage), for *)
(* every number of threads and every bound on requests and responses.     *)
(*                                                                         *)
(* NoStaleAccess is not inductive by itself: a step of                     *)
(* start_new_interaction changes the current interaction, and only the     *)
(* state of the outer lock tells that no thread is then between its inner  *)
(* lock and its push or clone.  IInv adds what the outer lock guarantees: *)
(* its readers are exactly the threads past their read acquisition, its   *)
(* writer is the thread about to assign, and a writer excludes readers.   *)
(***************************************************************************)
EXTENDS TraceStorage, TLAPS

(* The pcs at which a thread holds the outer read guard. *)
OuterReadHeld ==
  {"ar_inner", "ar_push", "ar_unlock", "gl_inner", "gl_clone", "gl_unlock"}

(* The pcs of add_response_to_current at which arg is its response. *)
AddPCs == {"ar_lock", "ar_inner", "ar_push"}

IInv ==
  /\ TypeOK
  /\ \A t \in Threads : t \in outer.r <=> pc[t] \in OuterReadHeld
  /\ \A t \in Threads : outer.w = t <=> pc[t] = "sn_assign"
  /\ outer.w # NoThread => outer.r = {}
  /\ \A t \in Threads : pc[t] \in AddPCs => arg[t] \in 1 .. MaxResponses
  /\ NoStaleAccess

-----------------------------------------------------------------------------
(* The lock invariant: IInv without the type invariant. *)
LockInv ==
  /\ \A t \in Threads : t \in outer.r <=> pc[t] \in OuterReadHeld
  /\ \A t \in Threads : outer.w = t <=> pc[t] = "sn_assign"
  /\ outer.w # NoThread => outer.r = {}
  /\ \A t \in Threads : pc[t] \in AddPCs => arg[t] \in 1 .. MaxResponses
  /\ NoStaleAccess

LEMMA InitIInv == Init => IInv
  <1> SUFFICES ASSUME Init PROVE IInv
    OBVIOUS
  <1>1. TypeOK
    BY ThreadsAssumption, BoundsAssumption
    DEF Init, TypeOK, FreeLock, LockStates, Interactions, NewInteraction,
        NoInteraction, Objects, PCs
  <1>2. QED
    BY <1>1, ThreadsAssumption
    DEF Init, IInv, FreeLock, OuterReadHeld, AddPCs, NoStaleAccess

(* Appending a response to an interaction stays within Interactions. *)
LEMMA AppendToRecordType ==
  ASSUME NEW A, NEW B, NEW x \in [req : A, resps : Seq(B)], NEW b \in B
  PROVE  [x EXCEPT !.resps = Append(@, b)] \in [req : A, resps : Seq(B)]
  OBVIOUS

LEMMA AppendResponseType ==
  ASSUME NEW x \in Interactions, NEW b \in 1 .. MaxResponses
  PROVE  [x EXCEPT !.resps = Append(@, b)] \in Interactions
  BY Zenon, AppendToRecordType DEF Interactions

(* Every step keeps the variables in their types.  The push and the clone *)
(* need LockInv: the object they touch is a real one (ptr # 0) and the     *)
(* response pushed is in range.                                           *)
LEMMA NextTypeOK == TypeOK /\ LockInv /\ [Next]_vars => TypeOK'
  <1> SUFFICES ASSUME TypeOK, LockInv, [Next]_vars PROVE TypeOK'
    OBVIOUS
  <1> USE ThreadsAssumption, BoundsAssumption
  <1>1. ASSUME NEW t \in Threads, StartNewInteraction(t) PROVE TypeOK'
    BY <1>1 DEF StartNewInteraction, Goto, TypeOK, PCs
  <1>2. ASSUME NEW t \in Threads, StartLockOuter(t) PROVE TypeOK'
    <2>1. [outer EXCEPT !.w = t] \in LockStates
      BY DEF TypeOK, LockStates
    <2>2. QED
      BY <1>2, <2>1 DEF StartLockOuter, Goto, TypeOK, PCs
  <1>3. ASSUME NEW t \in Threads, StartAssign(t) PROVE TypeOK'
    <2>1. [outer EXCEPT !.w = NoThread] \in LockStates
      BY DEF TypeOK, LockStates
    <2>2. QED
      BY <1>3, <2>1 DEF StartAssign, Goto, TypeOK, PCs
  <1>4. ASSUME NEW t \in Threads, AddResponseToCurrent(t) PROVE TypeOK'
    BY <1>4 DEF AddResponseToCurrent, Goto, TypeOK, PCs
  <1>5. ASSUME NEW t \in Threads, AddLockOuter(t) PROVE TypeOK'
    BY <1>5 DEF AddLockOuter, Goto, TypeOK, PCs, LockStates
  <1>6. ASSUME NEW t \in Threads, AddNoCurrent(t) PROVE TypeOK'
    BY <1>6 DEF AddNoCurrent, Goto, TypeOK, PCs, LockStates
  <1>7. ASSUME NEW t \in Threads, AddLockInner(t) PROVE TypeOK'
    <2>1. cur \in Objects
      BY <1>7 DEF AddLockInner, TypeOK, Objects
    <2>2. [inner[cur] EXCEPT !.w = t] \in LockStates
      BY <2>1 DEF TypeOK, LockStates
    <2>3. QED
      BY <1>7, <2>1, <2>2 DEF AddLockInner, Goto, TypeOK, PCs
  <1>8. ASSUME NEW t \in Threads, AddPush(t) PROVE TypeOK'
    <2>0. pc[t] = "ar_push"
      BY <1>8 DEF AddPush, Goto
    <2>1. ptr[t] \in Objects
      BY <2>0 DEF LockInv, NoStaleAccess, TypeOK, Objects
    <2>2. arg[t] \in 1 .. MaxResponses
      BY <2>0 DEF LockInv, AddPCs
    <2>3. [objs[ptr[t]] EXCEPT !.resps = Append(@, arg[t])] \in Interactions
      <3>1. objs[ptr[t]] \in Interactions
        BY <2>1 DEF TypeOK
      <3>2. QED
        BY <2>2, <3>1, AppendResponseType
    <2>4. [inner[ptr[t]] EXCEPT !.w = NoThread] \in LockStates
      BY <2>1 DEF TypeOK, LockStates
    <2>5. QED
      BY <1>8, <2>1, <2>3, <2>4 DEF AddPush, Goto, TypeOK, PCs
  <1>9. ASSUME NEW t \in Threads, AddUnlockOuter(t) PROVE TypeOK'
    BY <1>9 DEF AddUnlockOuter, Goto, TypeOK, PCs, LockStates
  <1>10. ASSUME NEW t \in Threads, GetLastInteraction(t) PROVE TypeOK'
    BY <1>10 DEF GetLastInteraction, Goto, TypeOK, PCs
  <1>11. ASSUME NEW t \in Threads, GetLockOuter(t) PROVE TypeOK'
    BY <1>11 DEF GetLockOuter, Goto, TypeOK, PCs, LockStates
  <1>12. ASSUME NEW t \in Threads, GetNoCurrent(t) PROVE TypeOK'
    <2>1. NoInteraction \in Interactions
      BY DEF NoInteraction, Interactions
    <2>2. QED
      BY <1>12, <2>1
      DEF GetNoCurrent, Goto, TypeOK, PCs, LockStates
  <1>13. ASSUME NEW t \in Threads, GetLockInner(t) PROVE TypeOK'
    <2>1. cur \in Objects
      BY <1>13 DEF GetLockInner, TypeOK, Objects
    <2>2. [inner[cur] EXCEPT !.r = @ \cup {t}] \in LockStates
      BY <2>1 DEF TypeOK, LockStates
    <2>3. QED
      BY <1>13, <2>1, <2>2 DEF GetLockInner, Goto, TypeOK, PCs
  <1>14. ASSUME NEW t \in Threads, GetClone(t) PROVE TypeOK'
    <2>0. pc[t] = "gl_clone"
      BY <1>14 DEF GetClone, Goto
    <2>1. ptr[t] \in Objects
      BY <2>0 DEF LockInv, NoStaleAccess, TypeOK, Objects
    <2>2. [inner[ptr[t]] EXCEPT !.r = @ \ {t}] \in LockStates
      BY <2>1 DEF TypeOK, LockStates
    <2>3. QED
      BY <1>14, <2>1, <2>2 DEF GetClone, Goto, TypeOK, PCs
  <1>15. ASSUME NEW t \in Threads, GetUnlockOuter(t) PROVE TypeOK'
    BY <1>15 DEF GetUnlockOuter, Goto, TypeOK, PCs, LockStates
  <1>16. CASE UNCHANGED vars
    BY <1>16 DEF vars, TypeOK
  <1>17. QED
    BY <1>1, <1>2, <1>3, <1>4, <1>5, <1>6, <1>7, <1>8, <1>9, <1>10,
       <1>11, <1>12, <1>13, <1>14, <1>15, <1>16 DEF Next, Step

(* Every step keeps the lock invariant. *)
LEMMA NextLockInv == TypeOK /\ LockInv /\ [Next]_vars => LockInv'
  <1> SUFFICES ASSUME TypeOK, LockInv, [Next]_vars PROVE LockInv'
    OBVIOUS
  <1> USE ThreadsAssumption, BoundsAssumption
  <1> USE DEF LockInv, OuterReadHeld, AddPCs, NoStaleAccess, Goto
  <1>0. /\ pc \in [Threads -> PCs]
        /\ ptr \in [Threads -> 0 .. MaxRequests]
        /\ arg \in [Threads -> 0 .. (MaxRequests + MaxResponses)]
        /\ outer \in LockStates
        /\ cur \in 0 .. MaxRequests
        /\ nresp \in 0 .. MaxResponses
    BY DEF TypeOK
  <1> USE <1>0 DEF PCs, LockStates
  <1>1. ASSUME NEW t \in Threads, StartNewInteraction(t) PROVE LockInv'
    BY <1>1 DEF StartNewInteraction
  <1>2. ASSUME NEW t \in Threads, StartLockOuter(t) PROVE LockInv'
    BY <1>2 DEF StartLockOuter, CanWrite
  <1>3. ASSUME NEW t \in Threads, StartAssign(t) PROVE LockInv'
    BY <1>3 DEF StartAssign
  <1>4. ASSUME NEW t \in Threads, AddResponseToCurrent(t) PROVE LockInv'
    BY <1>4 DEF AddResponseToCurrent
  <1>5. ASSUME NEW t \in Threads, AddLockOuter(t) PROVE LockInv'
    BY <1>5 DEF AddLockOuter, OuterReadable
  <1>6. ASSUME NEW t \in Threads, AddNoCurrent(t) PROVE LockInv'
    BY <1>6 DEF AddNoCurrent
  <1>7. ASSUME NEW t \in Threads, AddLockInner(t) PROVE LockInv'
    BY <1>7 DEF AddLockInner, CanWrite
  <1>8. ASSUME NEW t \in Threads, AddPush(t) PROVE LockInv'
    BY <1>8 DEF AddPush
  <1>9. ASSUME NEW t \in Threads, AddUnlockOuter(t) PROVE LockInv'
    BY <1>9 DEF AddUnlockOuter
  <1>10. ASSUME NEW t \in Threads, GetLastInteraction(t) PROVE LockInv'
    BY <1>10 DEF GetLastInteraction
  <1>11. ASSUME NEW t \in Threads, GetLockOuter(t) PROVE LockInv'
    BY <1>11 DEF GetLockOuter, OuterReadable
  <1>12. ASSUME NEW t \in Threads, GetNoCurrent(t) PROVE LockInv'
    BY <1>12 DEF GetNoCurrent, NoInteraction
  <1>13. ASSUME NEW t \in Threads, GetLockInner(t) PROVE LockInv'
    BY <1>13 DEF GetLockInner, InnerReadable
  <1>14. ASSUME NEW t \in Threads, GetClone(t) PROVE LockInv'
    BY <1>14 DEF GetClone
  <1>15. ASSUME NEW t \in Threads, GetUnlockOuter(t) PROVE LockInv'
    BY <1>15 DEF GetUnlockOuter
  <1>16. CASE UNCHANGED vars
    BY <1>16 DEF vars
  <1>17. QED
    BY <1>1, <1>2, <1>3, <1>4, <1>5, <1>6, <1>7, <1>8, <1>9, <1>10,
       <1>11, <1>12, <1>13, <1>14, <1>15, <1>16 DEF Next, Step

LEMMA NextIInv == IInv /\ [Next]_vars => IInv'
  BY NextTypeOK, NextLockInv DEF IInv, LockInv

-----------------------------------------------------------------------------
(* The storage's variables keep their types in every reachable state.     *)
THEOREM TypeCorrect == Spec => []TypeOK
  <1>1. IInv => TypeOK
    BY DEF IInv
  <1>2. QED
    BY <1>1, InitIInv, NextIInv, PTL DEF Spec

(* add_response_to_current never appends to, and get_last_interaction     *)
(* never clones, an interaction that start_new_interaction has replaced,  *)
(* whatever the number of threads and calls.                              *)
THEOREM StaleAccessFree == Spec => []NoStaleAccess
  <1>1. IInv => NoStaleAccess
    BY DEF IInv
  <1>2. QED
    BY <1>1, InitIInv, NextIInv, PTL DEF Spec

=============================================================================
