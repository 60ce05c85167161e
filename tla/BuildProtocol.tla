--------------------------- MODULE BuildProtocol ---------------------------
(* What the control plane and the agents share about delegated builds: the  *)
(* identity of a job and of an attempt at it, and the messages of           *)
(* control-plane/src/build/protocol.ts, carried over an agent's websocket.  *)
(*                                                                          *)
(* A websocket does not duplicate, but it is replaced when it breaks, and   *)
(* every message is handled by an asynchronous function.  The messages in   *)
(* flight are therefore a set from which any member may be taken, or never  *)
(* be taken; what is sent while the tunnel is down is dropped at once.      *)
EXTENDS Naturals, FiniteSets

CONSTANTS
  Deployments,    \* deployments of one service that build from source
  Platforms,      \* OCI platforms each of them is built for
  Builders,       \* nodes that opted in to building
  NoBuilder,      \* build_jobs.builder_node_id is null
  NoDigest,       \* build_jobs.image_digest is null
  MaxAttempts,    \* attempts at one job; the code has 3
  MaxInFlight     \* bound on the messages in flight in each direction

ASSUME NoneAssumption == NoBuilder \notin Builders
ASSUME AttemptsAssumption == MaxAttempts \in Nat \ {0}
ASSUME InFlightAssumption == MaxInFlight \in Nat

VARIABLES
  toAgent,        \* messages on their way from the control plane to agents
  toControl       \* messages on their way from agents to the control plane

-----------------------------------------------------------------------------
(* build() inserts one row per platform of a deployment, so the pair names  *)
(* the row.                                                                 *)
Job == Deployments \X Platforms
Attempt == 1..MaxAttempts

(* An image is identified by who built it, for which job, on which attempt. *)
Digest == [job: Job, attempt: Attempt, builder: Builders]
Built(j, a, b) == [job |-> j, attempt |-> a, builder |-> b]

ASSUME NoDigestAssumption == NoDigest \notin Digest

(* `assign' starts an attempt, `cancel' stops it, `receipt' tells the agent *)
(* that the outcome need not be sent again.                                 *)
ToAgentMessage ==
  [type: {"assign", "cancel", "receipt"}, job: Job, attempt: Attempt, builder: Builders]
ToAgent(type, j, a, b) ==
  [type |-> type, job |-> j, attempt |-> a, builder |-> b]

(* build.ack and build.renew have the same effect and are both `renew'      *)
(* here; build.log changes no state of a job and is left out.               *)
Outcome == {"succeeded", "failed", "cancelled"}
Event == [status: {"renew"} \union Outcome, job: Job, attempt: Attempt, builder: Builders]
EventOf(status, j, a, b) ==
  [status |-> status, job |-> j, attempt |-> a, builder |-> b]

(* sendBuild and SendBuild: each message is in flight afterwards, or it was *)
(* dropped; beyond the bound it always is.                                  *)
Sent(channel, messages) ==
  {c \in {channel \union m : m \in SUBSET messages} :
     c = channel \/ Cardinality(c) <= MaxInFlight}

MessagesTypeOK ==
  /\ toAgent \subseteq ToAgentMessage
  /\ toControl \subseteq Event
=============================================================================
