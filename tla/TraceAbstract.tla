---------------------------- MODULE TraceAbstract ----------------------------
(***************************************************************************)
(* What the trace storage promises its callers: a single current         *)
(* interaction, on which each call takes effect atomically at one instant  *)
(* between its invocation and its return.  The contract is the storage's   *)
(* own (the doc comments of storage.rs 33-59), with the atomicity spec 4.H *)
(* asks for; it keeps the code's drop of a response made while there is   *)
(* no interaction, so that the refinement checks the lock protocol alone.  *)
(* Spec 8.6's stronger "every frame received is recorded" is the property  *)
(* NoDroppedResponse of TraceStorage, which the code does not satisfy.     *)
(*   record_request(r)   replaces the current interaction by (r, <<>>);    *)
(*   record_response(x)  appends x to the current interaction, if any;     *)
(*   last_interaction()  returns a snapshot of the current interaction.    *)
(* A call is invoked (Call), takes effect and returns (Do); each invoked   *)
(* call eventually takes effect.                                           *)
(***************************************************************************)
EXTENDS Naturals, Sequences

CONSTANTS Threads, MaxRequests, MaxResponses

VARIABLES
  trace,    \* the current interaction; req = 0 stands for None
  op,       \* per thread: "idle" or the call it has invoked
  arg,      \* per thread: the request or response of its call
  snap,     \* per thread: the snapshot its last last_interaction returned
  nreq,     \* requests recorded so far
  nresp     \* responses recorded so far

avars == <<trace, op, arg, snap, nreq, nresp>>

NoInteraction == [req |-> 0, resps |-> << >>]

Init ==
  /\ trace = NoInteraction
  /\ op = [t \in Threads |-> "idle"]
  /\ arg = [t \in Threads |-> 0]
  /\ snap = [t \in Threads |-> NoInteraction]
  /\ nreq = 0
  /\ nresp = 0

CallStart(t) ==
  /\ op[t] = "idle" /\ nreq < MaxRequests
  /\ op' = [op EXCEPT ![t] = "start"]
  /\ arg' = [arg EXCEPT ![t] = nreq + 1]
  /\ nreq' = nreq + 1
  /\ UNCHANGED <<trace, snap, nresp>>

CallAdd(t) ==
  /\ op[t] = "idle" /\ nresp < MaxResponses
  /\ op' = [op EXCEPT ![t] = "add"]
  /\ arg' = [arg EXCEPT ![t] = nresp + 1]
  /\ nresp' = nresp + 1
  /\ UNCHANGED <<trace, snap, nreq>>

CallGet(t) ==
  /\ op[t] = "idle"
  /\ op' = [op EXCEPT ![t] = "get"]
  /\ UNCHANGED <<trace, arg, snap, nreq, nresp>>

DoStart(t) ==
  /\ op[t] = "start"
  /\ trace' = [req |-> arg[t], resps |-> << >>]
  /\ op' = [op EXCEPT ![t] = "idle"]
  /\ UNCHANGED <<arg, snap, nreq, nresp>>

DoAdd(t) ==
  /\ op[t] = "add"
  /\ trace' = IF trace.req = 0 THEN trace
              ELSE [trace EXCEPT !.resps = Append(@, arg[t])]
  /\ op' = [op EXCEPT ![t] = "idle"]
  /\ UNCHANGED <<arg, snap, nreq, nresp>>

DoGet(t) ==
  /\ op[t] = "get"
  /\ snap' = [snap EXCEPT ![t] = trace]
  /\ op' = [op EXCEPT ![t] = "idle"]
  /\ UNCHANGED <<trace, arg, nreq, nresp>>

Do(t) == DoStart(t) \/ DoAdd(t) \/ DoGet(t)

Next ==
  \E t \in Threads : CallStart(t) \/ CallAdd(t) \/ CallGet(t) \/ Do(t)

Spec == Init /\ [][Next]_avars /\ \A t \in Threads : WF_avars(Do(t))

=============================================================================
