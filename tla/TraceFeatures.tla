---------------------------- MODULE TraceFeatures ----------------------------
(***************************************************************************)
(* Which trace storage each client and each trace API of a build uses, as *)
(* chosen by the cargo features "sync" and "async".                        *)
(*                                                                         *)
(*   storage.rs 11-31: CURRENT_INTERACTION exists in every build; when     *)
(*     both features are on, sync_ops uses SYNC_CURRENT_INTERACTION        *)
(*     instead, and async_ops keeps CURRENT_INTERACTION.                  *)
(*   trace/mod.rs 21-35: trace::{record_*, last_interaction} are the sync *)
(*     ops in a sync-only build and the async ops otherwise; with both    *)
(*     features trace::blocking holds the sync ops.                       *)
(*   client/mod.rs 16-31: Client is the sync client in a sync-only build  *)
(*     and the async client otherwise; with both features                 *)
(*     client::blocking::Client is the sync client.                       *)
(*                                                                         *)
(* A namespace is "default" (ibapi::Client, ibapi::trace) or "blocking"   *)
(* (the blocking modules, present only with both features).  Each storage *)
(* is a single interaction on which every call is atomic: that is what    *)
(* TraceRefinementProofs proves of the lock protocol.                     *)
(***************************************************************************)
EXTENDS Naturals, Sequences

CONSTANTS
  Builds,       \* the feature sets to check, each a non-empty subset of Features
  MaxSends,     \* bound on frames sent
  MaxRecvs      \* bound on frames received

Features == {"sync", "async"}

VARIABLES
  features,  \* the features of the build; fixed for a whole run
  store,     \* store[s]: the interaction in static s (req = 0 is None)
  glob,      \* ghost: the interaction of the process's frames (spec 4.H)
  nsent,     \* frames sent so far (a frame is its number)
  nrecv      \* frames received so far

vars == <<features, store, glob, nsent, nrecv>>

Statics == {"CURRENT_INTERACTION", "SYNC_CURRENT_INTERACTION"}

NoInteraction == [req |-> 0, resps |-> << >>]

Both == features = Features

Namespaces == IF Both THEN {"default", "blocking"} ELSE {"default"}

(* The static that sync_ops and async_ops lock (storage.rs 11-31, 72).    *)
OpsStorage(ops) ==
  IF ops = "sync" /\ Both THEN "SYNC_CURRENT_INTERACTION"
  ELSE "CURRENT_INTERACTION"

(* The ops behind trace::{record_*, last_interaction} and trace::blocking. *)
TraceOps(ns) ==
  IF ns = "blocking" \/ features = {"sync"} THEN "sync" ELSE "async"

(* The client type of a namespace; its connection records every frame it  *)
(* sends or receives through the trace ops of the same kind.              *)
ClientOps(ns) ==
  IF ns = "blocking" \/ features = {"sync"} THEN "sync" ELSE "async"

(* Interaction::new(request), and add_response on an interaction that    *)
(* exists (add_response_to_current drops the response on None).           *)
NewInteraction(frame) == [req |-> frame, resps |-> << >>]

Appended(i, x) == IF i.req = 0 THEN i ELSE [i EXCEPT !.resps = Append(@, x)]

(* What last_interaction() returns through namespace ns. *)
Seen(ns) == store[OpsStorage(TraceOps(ns))]

-----------------------------------------------------------------------------
Init ==
  /\ features \in Builds
  /\ store = [s \in Statics |-> NoInteraction]
  /\ glob = NoInteraction
  /\ nsent = 0
  /\ nrecv = 0

(* A client of namespace ns sends a frame: its connection calls           *)
(* record_request, i.e. start_new_interaction on its storage.             *)
Send(ns) ==
  /\ nsent < MaxSends
  /\ LET f == nsent + 1
         s == OpsStorage(ClientOps(ns))
     IN  /\ store' = [store EXCEPT ![s] = NewInteraction(f)]
         /\ glob' = NewInteraction(f)
         /\ nsent' = f
  /\ UNCHANGED <<features, nrecv>>

(* A client of namespace ns receives a frame: record_response, i.e.       *)
(* add_response_to_current, which drops it when there is no interaction.  *)
Receive(ns) ==
  /\ nrecv < MaxRecvs
  /\ LET x == nrecv + 1
         s == OpsStorage(ClientOps(ns))
     IN  /\ store' = [store EXCEPT ![s] = Appended(@, x)]
         /\ glob' = Appended(glob, x)
         /\ nrecv' = x
  /\ UNCHANGED <<features, nsent>>

Next == \E ns \in Namespaces : Send(ns) \/ Receive(ns)

Spec == Init /\ [][Next]_vars

-----------------------------------------------------------------------------
(* Type correctness. *)
Interactions == [req : 0 .. MaxSends, resps : Seq(1 .. MaxRecvs)]

TypeOK ==
  /\ features \in Builds
  /\ store \in [Statics -> Interactions]
  /\ glob \in Interactions
  /\ nsent \in 0 .. MaxSends /\ nrecv \in 0 .. MaxRecvs

(* The trace is process-wide (spec 4.H, 5, 8.6): whichever client sent    *)
(* the last frame, ibapi::trace::last_interaction() returns its            *)
(* interaction with the responses received since.                         *)
ProcessWide == Seen("default") = glob

=============================================================================
