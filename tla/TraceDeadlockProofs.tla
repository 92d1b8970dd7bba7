------------------------- MODULE TraceDeadlockProofs -------------------------
(***************************************************************************)
(* Deadlock freedom of the nested locks of the trace storage, for every   *)
(* number of threads and every bound on requests and responses.           *)
(*                                                                         *)
(* A thread can only wait on a lock that another thread holds or waits    *)
(* for, and the holders are always able to move on: whoever holds a lock  *)
(* is at a step that takes no lock.  To know who holds the inner locks,   *)
(* IInv of TraceStorageProofs is strengthened by InnerInv: the writer of  *)
(* an interaction's lock is exactly the thread about to push to it, and   *)
(* its readers exactly the threads about to clone it.                     *)
(***************************************************************************)
EXTENDS TraceStorageProofs

(* Who holds the lock of each interaction object. *)
InnerInv ==
  \A n \in Objects, t \in Threads :
    /\ inner[n].w = t <=> pc[t] = "ar_push" /\ ptr[t] = n
    /\ t \in inner[n].r <=> pc[t] = "gl_clone" /\ ptr[t] = n

DInv == IInv /\ InnerInv

LEMMA InitInnerInv == Init => InnerInv
  BY ThreadsAssumption DEF Init, InnerInv, FreeLock

(* Every step keeps the holders of the inner locks.  Only the inner lock  *)
(* steps, the push and the clone touch inner; the other steps move no     *)
(* thread to or from "ar_push" or "gl_clone" and leave the ptr of those   *)
(* threads alone.                                                         *)
LEMMA NextInnerInv == IInv /\ InnerInv /\ [Next]_vars => InnerInv'
  <1> SUFFICES ASSUME IInv, InnerInv, [Next]_vars PROVE InnerInv'
    OBVIOUS
  <1> USE ThreadsAssumption
  <1>0. /\ pc \in [Threads -> PCs]
        /\ ptr \in [Threads -> 0 .. MaxRequests]
        /\ inner \in [Objects -> LockStates]
        /\ cur \in 0 .. MaxRequests
    BY DEF IInv, TypeOK
  <1> USE <1>0 DEF Goto, PCs, LockStates, Objects
  <1>1. ASSUME NEW t \in Threads, StartNewInteraction(t) PROVE InnerInv'
    BY <1>1 DEF StartNewInteraction, InnerInv
  <1>2. ASSUME NEW t \in Threads, StartLockOuter(t) PROVE InnerInv'
    BY <1>2 DEF StartLockOuter, InnerInv
  <1>3. ASSUME NEW t \in Threads, StartAssign(t) PROVE InnerInv'
    BY <1>3 DEF StartAssign, InnerInv
  <1>4. ASSUME NEW t \in Threads, AddResponseToCurrent(t) PROVE InnerInv'
    BY <1>4 DEF AddResponseToCurrent, InnerInv
  <1>5. ASSUME NEW t \in Threads, AddLockOuter(t) PROVE InnerInv'
    BY <1>5 DEF AddLockOuter, InnerInv
  <1>6. ASSUME NEW t \in Threads, AddNoCurrent(t) PROVE InnerInv'
    BY <1>6 DEF AddNoCurrent, InnerInv
  <1>7. ASSUME NEW t \in Threads, AddLockInner(t) PROVE InnerInv'
    <2>1. /\ pc[t] = "ar_inner" /\ cur \in Objects
          /\ inner[cur].w = NoThread
      BY <1>7 DEF AddLockInner, CanWrite
    <2>2. /\ inner' = [inner EXCEPT ![cur].w = t]
          /\ pc' = [pc EXCEPT ![t] = "ar_push"]
          /\ ptr' = [ptr EXCEPT ![t] = cur]
      BY <1>7 DEF AddLockInner
    <2>3. QED
      BY <2>1, <2>2 DEF InnerInv
  <1>8. ASSUME NEW t \in Threads, AddPush(t) PROVE InnerInv'
    <2>1. /\ pc[t] = "ar_push" /\ ptr[t] \in Objects
          /\ inner[ptr[t]].w = t
      BY <1>8 DEF AddPush, IInv, NoStaleAccess, InnerInv
    <2>2. /\ inner' = [inner EXCEPT ![ptr[t]].w = NoThread]
          /\ pc' = [pc EXCEPT ![t] = "ar_unlock"]
          /\ ptr' = [ptr EXCEPT ![t] = 0]
      BY <1>8 DEF AddPush
    <2>3. \A u \in Threads : pc[u] = "ar_push" /\ ptr[u] = ptr[t] => u = t
      BY <2>1 DEF InnerInv
    <2>4. QED
      BY <2>1, <2>2, <2>3 DEF InnerInv
  <1>9. ASSUME NEW t \in Threads, AddUnlockOuter(t) PROVE InnerInv'
    BY <1>9 DEF AddUnlockOuter, InnerInv
  <1>10. ASSUME NEW t \in Threads, GetLastInteraction(t) PROVE InnerInv'
    BY <1>10 DEF GetLastInteraction, InnerInv
  <1>11. ASSUME NEW t \in Threads, GetLockOuter(t) PROVE InnerInv'
    BY <1>11 DEF GetLockOuter, InnerInv
  <1>12. ASSUME NEW t \in Threads, GetNoCurrent(t) PROVE InnerInv'
    BY <1>12 DEF GetNoCurrent, InnerInv
  <1>13. ASSUME NEW t \in Threads, GetLockInner(t) PROVE InnerInv'
    <2>1. pc[t] = "gl_inner" /\ cur \in Objects
      BY <1>13 DEF GetLockInner
    <2>2. /\ inner' = [inner EXCEPT ![cur].r = @ \cup {t}]
          /\ pc' = [pc EXCEPT ![t] = "gl_clone"]
          /\ ptr' = [ptr EXCEPT ![t] = cur]
      BY <1>13 DEF GetLockInner
    <2>3. QED
      BY <2>1, <2>2 DEF InnerInv
  <1>14. ASSUME NEW t \in Threads, GetClone(t) PROVE InnerInv'
    <2>1. /\ pc[t] = "gl_clone" /\ ptr[t] \in Objects
      BY <1>14 DEF GetClone, IInv, NoStaleAccess
    <2>2. /\ inner' = [inner EXCEPT ![ptr[t]].r = @ \ {t}]
          /\ pc' = [pc EXCEPT ![t] = "gl_unlock"]
          /\ ptr' = [ptr EXCEPT ![t] = 0]
      BY <1>14 DEF GetClone
    <2>3. QED
      BY <2>1, <2>2 DEF InnerInv
  <1>15. ASSUME NEW t \in Threads, GetUnlockOuter(t) PROVE InnerInv'
    BY <1>15 DEF GetUnlockOuter, InnerInv
  <1>16. CASE UNCHANGED vars
    BY <1>16 DEF vars, InnerInv
  <1>17. QED
    BY <1>1, <1>2, <1>3, <1>4, <1>5, <1>6, <1>7, <1>8, <1>9, <1>10,
       <1>11, <1>12, <1>13, <1>14, <1>15, <1>16 DEF Next, Step

LEMMA InitDInv == Init => DInv
  BY InitIInv, InitInnerInv DEF DInv

LEMMA NextDInv == DInv /\ [Next]_vars => DInv'
  BY NextIInv, NextInnerInv DEF DInv


-----------------------------------------------------------------------------
(* The pcs at which a step takes no lock: the thread moves whatever the   *)
(* other threads do.                                                      *)
Unblocked == {"sn_assign", "ar_push", "ar_unlock", "gl_clone", "gl_unlock"}

(* Why some pending call can always move.  A thread at a step that takes  *)
(* no lock can.  Failing that, nobody holds an inner lock, so a thread    *)
(* about to take one can.  Failing that, nobody holds the outer lock, so  *)
(* a writer waiting for it can.  Failing that, every pending call waits   *)
(* for an outer read lock that no writer holds or waits for.              *)
LEMMA DInvNoDeadlock == DInv => NoDeadlock
  <1> SUFFICES ASSUME DInv, NEW t0 \in Threads, pc[t0] # "idle"
               PROVE  \E t \in Threads : CanProceed(t)
    BY DEF NoDeadlock
  <1> USE ThreadsAssumption
  <1>0. /\ pc \in [Threads -> PCs]
        /\ outer \in LockStates
        /\ inner \in [Objects -> LockStates]
        /\ cur \in 0 .. MaxRequests
        /\ \A t \in Threads : t \in outer.r <=> pc[t] \in OuterReadHeld
        /\ \A t \in Threads : outer.w = t <=> pc[t] = "sn_assign"
        /\ InnerInv
    BY DEF DInv, IInv, TypeOK
  <1> USE <1>0
  <1>1. CASE \E t \in Threads : pc[t] \in Unblocked
    BY <1>1 DEF Unblocked, CanProceed
  <1>2. CASE /\ \A t \in Threads : pc[t] \notin Unblocked
             /\ \E t \in Threads : pc[t] = "ar_inner"
    <2>1. PICK t \in Threads : pc[t] = "ar_inner"
      BY <1>2
    <2>2. cur # 0 => CanWrite(inner[cur])
      <3>1. HAVE cur # 0
      <3>2. cur \in Objects
        BY <3>1 DEF Objects
      <3>3. inner[cur].w \in Threads \cup {NoThread} /\ inner[cur].r \subseteq Threads
        BY <3>2 DEF LockStates
      <3>4. QED
        BY <1>2, <3>2, <3>3 DEF InnerInv, Unblocked, CanWrite
    <2>3. QED
      BY <2>1, <2>2 DEF CanProceed
  <1>3. CASE /\ \A t \in Threads : pc[t] \notin Unblocked \cup {"ar_inner"}
             /\ \E t \in Threads : pc[t] = "gl_inner"
    <2>1. PICK t \in Threads : pc[t] = "gl_inner"
      BY <1>3
    <2>2. cur # 0 => InnerReadable(cur)
      <3>1. HAVE cur # 0
      <3>2. cur \in Objects
        BY <3>1 DEF Objects
      <3>3. inner[cur].w \in Threads \cup {NoThread}
        BY <3>2 DEF LockStates
      <3>4. QED
        BY <1>3, <3>2, <3>3 DEF InnerInv, Unblocked, InnerReadable
    <2>3. QED
      BY <2>1, <2>2 DEF CanProceed
  <1>4. CASE /\ \A t \in Threads :
                  pc[t] \notin Unblocked \cup {"ar_inner", "gl_inner"}
             /\ \E t \in Threads : pc[t] = "sn_lock"
    <2>1. PICK t \in Threads : pc[t] = "sn_lock"
      BY <1>4
    <2>2. outer.w = NoThread
      BY <1>4 DEF LockStates, Unblocked
    <2>3. outer.r = {}
      BY <1>4 DEF LockStates, Unblocked, OuterReadHeld
    <2>4. QED
      BY <2>1, <2>2, <2>3 DEF CanProceed, CanWrite
  <1>5. CASE \A t \in Threads :
               pc[t] \notin Unblocked \cup {"ar_inner", "gl_inner", "sn_lock"}
    <2>1. pc[t0] \in {"ar_lock", "gl_lock"}
      BY <1>5 DEF PCs, Unblocked
    <2>2. OuterReadable
      BY <1>5 DEF LockStates, Unblocked, OuterReadable
    <2>3. QED
      BY <2>1, <2>2 DEF CanProceed
  <1>6. QED
    BY <1>1, <1>2, <1>3, <1>4, <1>5

(* The nested locks of the trace storage never deadlock: in every         *)
(* reachable state in which a call is pending, some pending call can take *)
(* its next step, whatever the number of threads and calls.               *)
THEOREM DeadlockFree == Spec => []NoDeadlock
  <1>1. Spec => []DInv
    BY InitDInv, NextDInv, PTL DEF Spec
  <1>2. QED
    BY <1>1, DInvNoDeadlock, PTL

=============================================================================
