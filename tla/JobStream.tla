----------------------------- MODULE JobStream -----------------------------
(***************************************************************************)
(* The Redis stream that carries runtime jobs to the workers               *)
(* (internal/platform/queue/stream.go): one stream, one consumer group, one*)
(* consumer per worker.  Redis itself is external; what is modelled is what*)
(* the calls of stream.go do to it.  A message that was delivered stays    *)
(* pending for its consumer until it is acknowledged, and a message of a   *)
(* silent consumer can be claimed by another one, so delivery is at least  *)
(* once.  A retry is a new message carrying the same job.                  *)
(*                                                                         *)
(* A message is told apart from others with the same content by a copy     *)
(* number, which is used again once nobody holds the message any more; this*)
(* keeps the state space finite without identifying two messages.  The     *)
(* dead-letter stream is only ever written and is left out.                *)
(***************************************************************************)
EXTENDS Naturals, Sequences, FiniteSets

CONSTANTS Consumer,     \* the consumers of the group, one per worker
          Job,          \* the jobs that can be published
          Copy,         \* copy numbers; they bound the equal messages in use at once
          MaxAttempts,  \* a job is retried while its Attempts are below this
          NoMessage     \* the empty hand of a consumer

Message == [copy : Copy, job : Job, attempts : 0..MaxAttempts]

ASSUME StreamAssumption ==
    /\ MaxAttempts \in Nat
    /\ Copy \subseteq Nat
    /\ NoMessage \notin Message

VARIABLES stream,   \* entries not yet delivered to the group, oldest first
          pending,  \* delivered and not acknowledged (which consumer has it is never
              \* looked at: XAUTOCLAIM and XACK take anybody's)
          hand      \* hand[c]: the message consumer c is working on

streamVars == <<stream, pending, hand>>

StreamTypeOK ==
    /\ stream \in Seq(Message)
    /\ pending \in SUBSET Message
    /\ hand \in [Consumer -> Message \cup {NoMessage}]

StreamInit ==
    /\ stream = <<>>
    /\ pending = {}
    /\ hand = [c \in Consumer |-> NoMessage]

Messages ==   \* that somebody can still see
    {stream[n] : n \in DOMAIN stream} \cup pending
      \cup {hand[c] : c \in {d \in Consumer : hand[d] # NoMessage}}

\* XADD of a job.
Publish(j, attempts) ==
    LET used == {m.copy : m \in {x \in Messages : x.job = j /\ x.attempts = attempts}}
    IN  \E n \in Copy \ used :
          /\ \A k \in Copy \ used : n <= k
          /\ stream' = Append(stream, [copy |-> n, job |-> j, attempts |-> attempts])

\* XREADGROUP ">": the oldest undelivered entry, now pending for c.
Receive(c) ==
    /\ stream # <<>>
    /\ stream' = Tail(stream)
    /\ pending' = pending \cup {Head(stream)}
    /\ hand' = [hand EXCEPT ![c] = Head(stream)]

\* XAUTOCLAIM: an entry that has been pending for minIdle changes hands.  Which
\* entries have is the environment's choice, except for the recent ones.
ClaimStale(c, recent) ==
    \E m \in pending \ recent :
      /\ hand' = [hand EXCEPT ![c] = m]
      /\ UNCHANGED <<stream, pending>>

\* XACK removes the entry from the group's pending list whoever holds it.
Ack(c) ==
    /\ pending' = pending \ {hand[c]}
    /\ hand' = [hand EXCEPT ![c] = NoMessage]
    /\ UNCHANGED stream

\* First half of Retry (publish again, one attempt more) and of Requeue (publish
\* again, attempts unchanged); both then Ack the old message.
Republish(c, more) ==
    /\ Publish(hand[c].job, hand[c].attempts + more)
    /\ UNCHANGED <<pending, hand>>

\* The consumer lets go of its message without acknowledging it.
Abandon(c) ==
    /\ hand' = [hand EXCEPT ![c] = NoMessage]
    /\ UNCHANGED <<stream, pending>>

\* A job is in flight while some copy of it can still reach a consumer.
InFlight(j) ==
    \/ \E n \in DOMAIN stream : stream[n].job = j
    \/ \E m \in pending : m.job = j
=============================================================================
