---------------------------- MODULE TraceStorage ----------------------------
(***************************************************************************)
(* The process-wide interaction trace of src/trace/common/storage.rs.      *)
(*                                                                         *)
(* CURRENT_INTERACTION is an outer RwLock over Option<Arc<RwLock<         *)
(* Interaction>>>: the outer lock guards which interaction is current, the *)
(* inner lock of each interaction guards its request and response list.   *)
(* Three operations run on any thread, concurrently:                       *)
(*   start_new_interaction(request)  write-locks the outer lock and        *)
(*                                   replaces the current interaction;     *)
(*   add_response_to_current(resp)   read-locks the outer lock, then       *)
(*                                   write-locks the current interaction   *)
(*                                   and appends;                          *)
(*   get_last_interaction()          read-locks the outer lock, then       *)
(*                                   read-locks the current interaction    *)
(*                                   and clones it.                        *)
(* Every lock acquisition, every guarded update and every guard drop is a  *)
(* step of its own, so that the model explores every interleaving of the  *)
(* three operations at lock granularity.  The sync (std::sync::RwLock) and *)
(* async (tokio::sync::RwLock) storages have the same lock structure;      *)
(* this module models one storage.                                         *)
(*                                                                         *)
(* Data are abstracted: the n-th request recorded is the number n and its  *)
(* interaction is object n; the n-th response recorded is the number n.   *)
(***************************************************************************)
EXTENDS Naturals, Sequences, FiniteSets

CONSTANTS
  Threads,       \* threads calling into the trace storage
  NoThread,      \* "no writer" marker of a lock
  MaxRequests,   \* bound on start_new_interaction calls
  MaxResponses   \* bound on add_response_to_current calls

ASSUME ThreadsAssumption == Threads # {} /\ NoThread \notin Threads
ASSUME BoundsAssumption == MaxRequests \in Nat /\ MaxResponses \in Nat

VARIABLES
  outer,    \* the outer RwLock of CURRENT_INTERACTION: [w |-> writer, r |-> readers]
  cur,      \* the Option it guards: 0 is None, n > 0 is Some(object n)
  objs,     \* objs[n]: the Interaction behind the Arc of request n
  inner,    \* inner[n]: the RwLock of object n
  pc,       \* where each thread is in its current call
  ptr,      \* per thread: the Arc it holds (object number, 0 when none)
  arg,      \* per thread: the request or response it is recording
  snap,     \* per thread: the snapshot its last get_last_interaction returned
  nreq,     \* requests recorded so far
  nresp     \* responses recorded so far

vars == <<outer, cur, objs, inner, pc, ptr, arg, snap, nreq, nresp>>

Objects == 1 .. MaxRequests

(* Interaction::new(request): the request and an empty response list. *)
NewInteraction(n) == [req |-> n, resps |-> << >>]

(* The value returned for None. *)
NoInteraction == [req |-> 0, resps |-> << >>]

Interactions == [req : 0 .. MaxRequests, resps : Seq(1 .. MaxResponses)]

FreeLock == [w |-> NoThread, r |-> {}]

LockStates == [w : Threads \cup {NoThread}, r : SUBSET Threads]

(* Program counters.  "idle" is between calls; the others name the next   *)
(* step of start_new_interaction ("sn_"), add_response_to_current ("ar_") *)
(* and get_last_interaction ("gl_").                                      *)
PCs == {"idle", "sn_lock", "sn_assign",
        "ar_lock", "ar_inner", "ar_push", "ar_unlock",
        "gl_lock", "gl_inner", "gl_clone", "gl_unlock"}

(* The interaction the storage currently exposes. *)
Current == IF cur = 0 THEN NoInteraction ELSE objs[cur]

(* A write lock can be taken when nobody holds it.  A read lock can be    *)
(* taken when no writer holds it and no writer waits for it: std's futex   *)
(* RwLock blocks new readers while a writer waits, and tokio's RwLock      *)
(* queues a reader behind a writer that asked first.                      *)
CanWrite(l) == l.w = NoThread /\ l.r = {}

(* Mutant: a reader-preferring lock lets readers in past a waiting writer. *)
OuterReadableReaderPref == outer.w = NoThread

OuterReadable ==
  /\ outer.w = NoThread
  /\ \A u \in Threads : pc[u] # "sn_lock"

InnerReadable(n) ==
  /\ inner[n].w = NoThread
  /\ \A u \in Threads : ~(pc[u] = "ar_inner" /\ cur = n)

Goto(t, from, to) ==
  /\ pc[t] = from
  /\ pc' = [pc EXCEPT ![t] = to]

-----------------------------------------------------------------------------
(* start_new_interaction(request), storage.rs 42-47: the new Arc is built  *)
(* outside the lock (object nreq + 1 is fresh), the outer write lock is    *)
(* taken, Some(new) is stored and the guard is dropped.                    *)
StartNewInteraction(t) ==
  /\ nreq < MaxRequests
  /\ Goto(t, "idle", "sn_lock")
  /\ ptr' = [ptr EXCEPT ![t] = nreq + 1]
  /\ arg' = [arg EXCEPT ![t] = nreq + 1]
  /\ nreq' = nreq + 1
  /\ UNCHANGED <<outer, cur, objs, inner, snap, nresp>>

StartLockOuter(t) ==
  /\ CanWrite(outer)
  /\ Goto(t, "sn_lock", "sn_assign")
  /\ outer' = [outer EXCEPT !.w = t]
  /\ UNCHANGED <<cur, objs, inner, ptr, arg, snap, nreq, nresp>>

(* Mutant: the new interaction is only stored when there is none          *)
(* (get_or_insert), so later requests merge into the first.               *)
StartAssignKeepExisting(t) ==
  /\ Goto(t, "sn_assign", "idle")
  /\ cur' = IF cur = 0 THEN ptr[t] ELSE cur
  /\ outer' = [outer EXCEPT !.w = NoThread]
  /\ ptr' = [ptr EXCEPT ![t] = 0]
  /\ UNCHANGED <<objs, inner, arg, snap, nreq, nresp>>

StartAssign(t) ==
  /\ Goto(t, "sn_assign", "idle")
  /\ cur' = ptr[t]
  /\ outer' = [outer EXCEPT !.w = NoThread]
  /\ ptr' = [ptr EXCEPT ![t] = 0]
  /\ UNCHANGED <<objs, inner, arg, snap, nreq, nresp>>

-----------------------------------------------------------------------------
(* add_response_to_current(response), storage.rs 50-58: outer read lock;   *)
(* on None nothing is recorded; on Some the interaction is write-locked,   *)
(* the response appended, the inner guard dropped, then the outer guard.   *)
AddResponseToCurrent(t) ==
  /\ nresp < MaxResponses
  /\ Goto(t, "idle", "ar_lock")
  /\ arg' = [arg EXCEPT ![t] = nresp + 1]
  /\ nresp' = nresp + 1
  /\ UNCHANGED <<outer, cur, objs, inner, ptr, snap, nreq>>

AddLockOuter(t) ==
  /\ OuterReadable
  /\ Goto(t, "ar_lock", "ar_inner")
  /\ outer' = [outer EXCEPT !.r = @ \cup {t}]
  /\ UNCHANGED <<cur, objs, inner, ptr, arg, snap, nreq, nresp>>

(* guard.as_ref() is None: the response is dropped and the guard released. *)
AddNoCurrent(t) ==
  /\ cur = 0
  /\ Goto(t, "ar_inner", "idle")
  /\ outer' = [outer EXCEPT !.r = @ \ {t}]
  /\ UNCHANGED <<cur, objs, inner, ptr, arg, snap, nreq, nresp>>

(* Mutant: the Arc is cloned out of the guard and the outer guard dropped  *)
(* before the inner lock is taken.                                         *)
AddLockInnerEarlyRelease(t) ==
  /\ cur # 0
  /\ CanWrite(inner[cur])
  /\ Goto(t, "ar_inner", "ar_push")
  /\ inner' = [inner EXCEPT ![cur].w = t]
  /\ ptr' = [ptr EXCEPT ![t] = cur]
  /\ outer' = [outer EXCEPT !.r = @ \ {t}]
  /\ UNCHANGED <<cur, objs, arg, snap, nreq, nresp>>

AddLockInner(t) ==
  /\ cur # 0
  /\ CanWrite(inner[cur])
  /\ Goto(t, "ar_inner", "ar_push")
  /\ inner' = [inner EXCEPT ![cur].w = t]
  /\ ptr' = [ptr EXCEPT ![t] = cur]
  /\ UNCHANGED <<outer, cur, objs, arg, snap, nreq, nresp>>

AddPush(t) ==
  /\ Goto(t, "ar_push", "ar_unlock")
  /\ objs' = [objs EXCEPT ![ptr[t]].resps = Append(@, arg[t])]
  /\ inner' = [inner EXCEPT ![ptr[t]].w = NoThread]
  /\ ptr' = [ptr EXCEPT ![t] = 0]
  /\ UNCHANGED <<outer, cur, arg, snap, nreq, nresp>>

(* Mutant: the outer read guard is leaked (kept alive past the call)      *)
(* instead of being dropped at the end of add_response_to_current.         *)
AddUnlockOuterLeak(t) ==
  /\ Goto(t, "ar_unlock", "idle")
  /\ UNCHANGED <<outer, cur, objs, inner, ptr, arg, snap, nreq, nresp>>

AddUnlockOuter(t) ==
  /\ Goto(t, "ar_unlock", "idle")
  /\ outer' = [outer EXCEPT !.r = @ \ {t}]
  /\ UNCHANGED <<cur, objs, inner, ptr, arg, snap, nreq, nresp>>

-----------------------------------------------------------------------------
(* get_last_interaction(), storage.rs 34-40: outer read lock; None is      *)
(* returned as is; on Some the interaction is read-locked and cloned, the  *)
(* inner guard dropped at the end of the closure, then the outer guard.    *)
GetLastInteraction(t) ==
  /\ Goto(t, "idle", "gl_lock")
  /\ UNCHANGED <<outer, cur, objs, inner, ptr, arg, snap, nreq, nresp>>

GetLockOuter(t) ==
  /\ OuterReadable
  /\ Goto(t, "gl_lock", "gl_inner")
  /\ outer' = [outer EXCEPT !.r = @ \cup {t}]
  /\ UNCHANGED <<cur, objs, inner, ptr, arg, snap, nreq, nresp>>

GetNoCurrent(t) ==
  /\ cur = 0
  /\ Goto(t, "gl_inner", "idle")
  /\ outer' = [outer EXCEPT !.r = @ \ {t}]
  /\ snap' = [snap EXCEPT ![t] = NoInteraction]
  /\ UNCHANGED <<cur, objs, inner, ptr, arg, nreq, nresp>>

GetLockInner(t) ==
  /\ cur # 0
  /\ InnerReadable(cur)
  /\ Goto(t, "gl_inner", "gl_clone")
  /\ inner' = [inner EXCEPT ![cur].r = @ \cup {t}]
  /\ ptr' = [ptr EXCEPT ![t] = cur]
  /\ UNCHANGED <<outer, cur, objs, arg, snap, nreq, nresp>>

GetClone(t) ==
  /\ Goto(t, "gl_clone", "gl_unlock")
  /\ snap' = [snap EXCEPT ![t] = objs[ptr[t]]]
  /\ inner' = [inner EXCEPT ![ptr[t]].r = @ \ {t}]
  /\ ptr' = [ptr EXCEPT ![t] = 0]
  /\ UNCHANGED <<outer, cur, objs, arg, nreq, nresp>>

GetUnlockOuter(t) ==
  /\ Goto(t, "gl_unlock", "idle")
  /\ outer' = [outer EXCEPT !.r = @ \ {t}]
  /\ UNCHANGED <<cur, objs, inner, ptr, arg, snap, nreq, nresp>>

-----------------------------------------------------------------------------
Init ==
  /\ outer = FreeLock
  /\ cur = 0
  /\ objs = [n \in Objects |-> NewInteraction(n)]
  /\ inner = [n \in Objects |-> FreeLock]
  /\ pc = [t \in Threads |-> "idle"]
  /\ ptr = [t \in Threads |-> 0]
  /\ arg = [t \in Threads |-> 0]
  /\ snap = [t \in Threads |-> NoInteraction]
  /\ nreq = 0
  /\ nresp = 0

Step(t) ==
  \/ StartNewInteraction(t) \/ StartLockOuter(t) \/ StartAssign(t)
  \/ AddResponseToCurrent(t) \/ AddLockOuter(t) \/ AddNoCurrent(t)
  \/ AddLockInner(t) \/ AddPush(t) \/ AddUnlockOuter(t)
  \/ GetLastInteraction(t) \/ GetLockOuter(t) \/ GetNoCurrent(t)
  \/ GetLockInner(t) \/ GetClone(t) \/ GetUnlockOuter(t)

Next == \E t \in Threads : Step(t)

(* The steps a thread takes inside a call once it has started it.  They   *)
(* are strongly fair: a thread blocked on a lock is woken when the lock is *)
(* released and, as the lock prefers waiting writers, it is not passed     *)
(* over forever.  Starting a call is not fair: a thread may stop calling.  *)
InCall(t) ==
  \/ StartLockOuter(t) \/ StartAssign(t)
  \/ AddLockOuter(t) \/ AddNoCurrent(t) \/ AddLockInner(t)
  \/ AddPush(t) \/ AddUnlockOuter(t)
  \/ GetLockOuter(t) \/ GetNoCurrent(t) \/ GetLockInner(t)
  \/ GetClone(t) \/ GetUnlockOuter(t)

Fairness == \A t \in Threads : SF_vars(InCall(t))

Spec == Init /\ [][Next]_vars /\ Fairness

-----------------------------------------------------------------------------
(* Type correctness of every variable. *)
TypeOK ==
  /\ outer \in LockStates
  /\ cur \in 0 .. MaxRequests
  /\ objs \in [Objects -> Interactions]
  /\ inner \in [Objects -> LockStates]
  /\ pc \in [Threads -> PCs]
  /\ ptr \in [Threads -> 0 .. MaxRequests]
  /\ arg \in [Threads -> 0 .. (MaxRequests + MaxResponses)]
  /\ snap \in [Threads -> Interactions]
  /\ nreq \in 0 .. MaxRequests
  /\ nresp \in 0 .. MaxResponses

(* No stale interaction is touched: whenever a thread is about to append  *)
(* to, or clone, the interaction it holds (add_response_to_current's push, *)
(* get_last_interaction's clone), that interaction is still the current   *)
(* one.  It holds only because both calls keep the outer read guard alive *)
(* across the inner lock, which keeps start_new_interaction's write lock  *)
(* out; a response appended to a replaced interaction would be lost.      *)
NoStaleAccess ==
  \A t \in Threads :
    pc[t] \in {"ar_push", "gl_clone"} => ptr[t] = cur /\ cur # 0

(* Thread t, inside a call, can take its next step: the guard of the step *)
(* of InCall(t) at its pc.  A thread blocked on a lock cannot.            *)
CanProceed(t) ==
  \/ pc[t] \in {"sn_assign", "ar_push", "ar_unlock", "gl_clone", "gl_unlock"}
  \/ pc[t] = "sn_lock" /\ CanWrite(outer)
  \/ pc[t] \in {"ar_lock", "gl_lock"} /\ OuterReadable
  \/ pc[t] = "ar_inner" /\ (cur = 0 \/ CanWrite(inner[cur]))
  \/ pc[t] = "gl_inner" /\ (cur = 0 \/ InnerReadable(cur))

(* The nested locks never deadlock: while some thread is inside a call of *)
(* the storage, some thread inside a call can take its next step.  It     *)
(* depends on every guard being dropped on every path of the three calls, *)
(* on the outer lock being taken before the inner one in both readers,    *)
(* and on the writer-preferring outer lock letting no reader in while a    *)
(* start_new_interaction waits (a waiting writer and a reader it blocks    *)
(* never wait on each other).                                             *)
NoDeadlock ==
  (\E t \in Threads : pc[t] # "idle") => \E t \in Threads : CanProceed(t)

(* Every response whose add_response_to_current call has returned is in   *)
(* some interaction's response list (spec 8.6: "for every frame received, *)
(* the responses list grows by exactly one").                              *)
ResponsesOf(i) == {i.resps[k] : k \in DOMAIN i.resps}

InFlight(r) ==
  \E t \in Threads : pc[t] \in {"ar_lock", "ar_inner", "ar_push"} /\ arg[t] = r

NoDroppedResponse ==
  \A r \in 1 .. nresp :
    ~InFlight(r) => \E n \in Objects : r \in ResponsesOf(objs[n])

(* Every call that starts returns: no deadlock between the nested locks   *)
(* and no starvation of start_new_interaction's writer by the readers.    *)
CallsReturn == \A t \in Threads : pc[t] # "idle" ~> pc[t] = "idle"

-----------------------------------------------------------------------------
(* The refinement mapping to TraceAbstract: the abstract interaction is   *)
(* the one CURRENT_INTERACTION exposes; a call is pending from its first  *)
(* step until the step that takes effect (the assignment, the push, the   *)
(* clone, or the release on None) and idle from then on.                  *)
AbstractOp(t) ==
  CASE pc[t] \in {"sn_lock", "sn_assign"}           -> "start"
    [] pc[t] \in {"ar_lock", "ar_inner", "ar_push"} -> "add"
    [] pc[t] \in {"gl_lock", "gl_inner", "gl_clone"} -> "get"
    [] OTHER                                        -> "idle"

Abs == INSTANCE TraceAbstract WITH
         trace <- Current, op <- [t \in Threads |-> AbstractOp(t)]

(* The lock-based storage implements the atomic trace: every call takes   *)
(* effect at one instant, on the interaction current at that instant, and *)
(* every call eventually takes effect.                                    *)
TraceAbstractSpec == Abs!Spec

(* The safety part of the refinement: every step of the storage, whatever *)
(* the interleaving of the lock steps of its three calls, is a step of     *)
(* the atomic trace or leaves it unchanged, so no caller can observe a     *)
(* call half done.                                                         *)
TraceAbstractSafety == Abs!Init /\ [][Abs!Next]_Abs!avars

=============================================================================
