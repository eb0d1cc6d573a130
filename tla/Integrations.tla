---------------------------- MODULE Integrations ----------------------------
(* Inbound messages and their replies: InboundRunRouter#route, the rows of    *)
(* integration_deliveries, DeliveryCoordinator#tick, and a connector whose    *)
(* receiver may get a message although its answer is lost.                    *)
(*                                                                            *)
(* The run of a message has the key of its delivery and ends by itself, with  *)
(* a text or without.  Steps of route do not interleave with those of another *)
(* message, because createRun is synchronous, but the Manager may die between *)
(* them.                                                                      *)
EXTENDS Naturals, FiniteSets

CONSTANTS Deliveries,  \* inbound messages, numbered by received_at
          Window,      \* limit of listPendingReplies
          MaxLost      \* bound on lost answers

ASSUME IntegrationAssumption ==
  Deliveries \subseteq Nat \ {0} /\ Window \in Nat \ {0} /\ MaxLost \in Nat

VARIABLES
  delivery,   \* integration_deliveries.status, or "none"
  leased,     \* DELIVERING rows whose lease has not expired
  inboundRun, \* the run of each delivery: "none", "open", "text", "silent"
  routing,    \* deliveries that route has claimed and is working on
  list,       \* rows the tick has left
  sending,    \* the delivery adapter.send is awaited for, or 0
  reached,    \* the receiver has got it
  received, lost,  \* history: how often it did, and how often we try again although it did
  misjudged,  \* history: replies given up although the receiver has them
  hurt        \* history: deliveries over which the Manager died, or failed too late

inbound == <<inboundRun, routing, hurt>>
outbound == <<list, sending, reached, received, lost, misjudged>>
integrationVars == <<delivery, leased, inbound, outbound>>

Mark(d, status) == delivery' = [delivery EXCEPT ![d] = status]
Settled == {"REPLIED", "FAILED"}

IntegrationInit ==
  /\ delivery = [d \in Deliveries |-> "none"] /\ leased = {}
  /\ inboundRun = [d \in Deliveries |-> "none"] /\ routing = {} /\ hurt = {}
  /\ list = {} /\ sending = 0 /\ reached = FALSE
  /\ received = [d \in Deliveries |-> 0] /\ lost = [d \in Deliveries |-> 0]
  /\ misjudged = {}

-----------------------------------------------------------------------------
(* InboundRunRouter#route: a message that comes again finds its row.          *)

ClaimInbound(d) ==
  /\ delivery[d] = "none"
  /\ Mark(d, "RECEIVED") /\ routing' = routing \union {d}
  /\ UNCHANGED <<leased, inboundRun, hurt, outbound>>

StartInboundRun(d) ==
  /\ d \in routing /\ inboundRun[d] = "none"
  /\ inboundRun' = [inboundRun EXCEPT ![d] = "open"]
  /\ UNCHANGED <<delivery, leased, routing, hurt, outbound>>

\* Mutant: the row does not learn of its run.
MarkRunInMemory(d) ==
  /\ d \in routing /\ inboundRun[d] # "none"
  /\ routing' = routing \ {d}
  /\ UNCHANGED <<delivery, leased, inboundRun, hurt, outbound>>

MarkRun(d) ==
  /\ d \in routing /\ inboundRun[d] # "none"
  /\ Mark(d, "RUN_STARTED") /\ routing' = routing \ {d}
  /\ UNCHANGED <<leased, inboundRun, hurt, outbound>>

\* No binding, or startRun throws, or markRun does after it.
RouteFails(d) ==
  /\ d \in routing
  /\ Mark(d, "FAILED") /\ routing' = routing \ {d}
  /\ hurt' = IF inboundRun[d] = "none" THEN hurt ELSE hurt \union {d}
  /\ UNCHANGED <<leased, inboundRun, outbound>>

InboundRunEnds(d) ==
  /\ inboundRun[d] = "open"
  /\ \E end \in {"text", "silent"} : inboundRun' = [inboundRun EXCEPT ![d] = end]
  /\ UNCHANGED <<delivery, leased, routing, hurt, outbound>>

-----------------------------------------------------------------------------
(* DeliveryCoordinator#tick                                                   *)

Pending == {d \in Deliveries : delivery[d] \in {"RUN_STARTED", "DELIVERING"}}

ListPendingReplies ==
  /\ list = {} /\ sending = 0
  /\ list' = {d \in Pending : Cardinality({e \in Pending : e < d}) < Window}
  /\ UNCHANGED <<delivery, leased, inbound, sending, reached, received, lost, misjudged>>

\* The next row of the list
Turn(d) == sending = 0 /\ d \in list /\ \A e \in list : d <= e

Claimable(d) == delivery[d] = "RUN_STARTED" \/ (delivery[d] = "DELIVERING" /\ d \notin leased)

SkipReply(d) ==
  /\ Turn(d) /\ list' = list \ {d}
  /\ inboundRun[d] = "open" \/ (inboundRun[d] = "text" /\ ~Claimable(d))
  /\ UNCHANGED <<delivery, leased, inbound, sending, reached, received, lost, misjudged>>

\* A run that ended without a message has no reply.
NoReply(d) ==
  /\ Turn(d) /\ list' = list \ {d}
  /\ inboundRun[d] = "silent" /\ Mark(d, "FAILED")
  /\ UNCHANGED <<leased, inbound, sending, reached, received, lost, misjudged>>

\* Mutant: the row is settled before the message is sent.
ClaimReplyAtMostOnce(d) ==
  /\ Turn(d) /\ list' = list \ {d}
  /\ inboundRun[d] = "text" /\ Claimable(d)
  /\ Mark(d, "REPLIED") /\ leased' = leased \union {d}
  /\ sending' = d /\ reached' = FALSE
  /\ UNCHANGED <<inbound, received, lost, misjudged>>

ClaimReply(d) ==
  /\ Turn(d) /\ list' = list \ {d}
  /\ inboundRun[d] = "text" /\ Claimable(d)
  /\ Mark(d, "DELIVERING") /\ leased' = leased \union {d}
  /\ sending' = d /\ reached' = FALSE
  /\ UNCHANGED <<inbound, received, lost, misjudged>>

Reach ==
  /\ sending # 0 /\ ~reached /\ lost[sending] < MaxLost
  /\ reached' = TRUE /\ received' = [received EXCEPT ![sending] = @ + 1]
  /\ UNCHANGED <<delivery, leased, inbound, list, sending, lost, misjudged>>

AttemptEnds(status) ==
  /\ sending # 0 /\ Mark(sending, status) /\ sending' = 0
  /\ leased' = leased \ {sending}
  /\ UNCHANGED <<inbound, list, reached, received>>

MarkReply == reached /\ AttemptEnds("REPLIED") /\ UNCHANGED <<lost, misjudged>>

\* What becomes of a reply that the receiver has got without the row's saying so
Unanswered == lost' = IF reached THEN [lost EXCEPT ![sending] = @ + 1] ELSE lost

\* The connection fails or deliveryTimeoutMs passes before there is an answer, or
\* the answer is 408, 429 or a failure of the receiver: it is tried again with the
\* next tick, without a limit.
ReleaseReply == AttemptEnds("RUN_STARTED") /\ Unanswered /\ UNCHANGED misjudged

\* The receiver refuses for good.  Or it has accepted, and the body of its answer
\* breaks off, comes late or is no JSON, or markReply throws, which may have written
\* REPLIED by then.
GivenUp == misjudged' = IF reached THEN misjudged \union {sending} ELSE misjudged
RefuseReply == AttemptEnds("FAILED") /\ GivenUp /\ UNCHANGED lost

\* The database fails under the tick, or getRunReply does, and the list is left.  A row
\* that is being delivered waits for the end of its lease, unless it was written and only
\* the receipt could not be read.
TickThrows ==
  /\ sending # 0 \/ list # {}
  /\ list' = {} /\ sending' = 0 /\ reached' = FALSE
  /\ \/ sending = 0 /\ UNCHANGED <<delivery, leased, lost, misjudged>>
     \/ sending # 0 /\ Unanswered /\ UNCHANGED <<delivery, leased, misjudged>>
     \/ /\ sending # 0 /\ leased' = leased \ {sending} /\ UNCHANGED lost
        /\ \/ reached /\ Mark(sending, "REPLIED") /\ UNCHANGED misjudged
           \/ Mark(sending, "FAILED") /\ GivenUp
  /\ UNCHANGED <<inbound, received>>

-----------------------------------------------------------------------------
LeaseOfReplyExpires(d) ==
  /\ d \in leased /\ leased' = leased \ {d}
  /\ UNCHANGED <<delivery, inbound, outbound>>

\* The Manager dies and another one starts.
IntegrationsRestart ==
  /\ routing # {} \/ sending # 0 \/ list # {}
  /\ hurt' = hurt \union routing /\ routing' = {}
  /\ lost' = IF sending # 0 /\ reached THEN [lost EXCEPT ![sending] = @ + 1] ELSE lost
  /\ sending' = 0 /\ list' = {} /\ reached' = FALSE
  /\ UNCHANGED <<delivery, leased, inboundRun, received, misjudged>>

Route(d) == ClaimInbound(d) \/ StartInboundRun(d) \/ MarkRun(d) \/ RouteFails(d)
Reply(d) == SkipReply(d) \/ NoReply(d) \/ ClaimReply(d)

IntegrationNext ==
  \/ \E d \in Deliveries : Route(d) \/ InboundRunEnds(d) \/ Reply(d) \/ LeaseOfReplyExpires(d)
  \/ ListPendingReplies \/ Reach \/ MarkReply \/ ReleaseReply \/ RefuseReply \/ TickThrows
  \/ IntegrationsRestart

IntegrationSpec == IntegrationInit /\ [][IntegrationNext]_integrationVars

\* Runs end and leases expire; the timer ticks, and neither is the Manager killed nor
\* does the database fail in every tick.  A receiver that is asked again and again
\* answers at last.
IntegrationFairness ==
  /\ \A d \in Deliveries : WF_integrationVars(InboundRunEnds(d) \/ LeaseOfReplyExpires(d))
  /\ \A d \in Deliveries : SF_integrationVars(Reply(d))
  /\ SF_integrationVars(ListPendingReplies)
  /\ SF_integrationVars(MarkReply \/ RefuseReply)

-----------------------------------------------------------------------------
(* Properties *)

\* Types of the rows and of the tick.
IntegrationTypeOK ==
  /\ delivery \in [Deliveries -> {"none", "RECEIVED", "RUN_STARTED", "DELIVERING"} \union Settled]
  /\ inboundRun \in [Deliveries -> {"none", "open", "text", "silent"}]
  /\ leased \subseteq Deliveries /\ routing \subseteq Deliveries
  /\ hurt \subseteq Deliveries /\ list \subseteq Deliveries
  /\ sending \in Deliveries \union {0} /\ reached \in BOOLEAN
  /\ received \in [Deliveries -> Nat] /\ lost \in [Deliveries -> Nat]
  /\ misjudged \subseteq Deliveries

\* The receiver gets a reply once for every time it is tried again although it had
\* arrived, and once more when the row says REPLIED or was given up too late: ticks,
\* leases and restarts never send what is settled, and never settle as replied what
\* was not sent.
RepliesOnceUnlessLost ==
  /\ \A d \in Deliveries :
       received[d] = lost[d] + (IF delivery[d] = "REPLIED" \/ (sending = d /\ reached)
                                   \/ d \in misjudged THEN 1 ELSE 0)
  /\ \A d \in misjudged : delivery[d] = "FAILED"

\* A message, or the run it started, is forgotten only when the Manager dies
\* while it routes the message, or cannot write down the run: a message that
\* comes again is then answered as a duplicate, without its run.
ForgottenOnlyByFailure ==
  \A d \in Deliveries :
    delivery[d] = "RECEIVED" \/ (delivery[d] \in {"none", "FAILED"} /\ inboundRun[d] = "open")
      => d \in routing \union hurt

\* Messages and replies are neither repeated nor forgotten, but for the failures
\* these two name.
DeliveredOnce == RepliesOnceUnlessLost /\ ForgottenOnlyByFailure

\* Every message whose run was started is replied to or given up.
RepliesAreSettled == \A d \in Deliveries : delivery[d] \notin {"RUN_STARTED", "DELIVERING"}
=============================================================================
