--------------------------- MODULE StreamDelivery ---------------------------
(***************************************************************************)
(* What an OBST container promises to the consumer at its far end, without *)
(* bytes, records or sessions.                                             *)
(*                                                                         *)
(* A producer sends chunks and at some point declares the container        *)
(* finished.  A consumer is given chunks one by one.  Within one logical   *)
(* stream it gets exactly what was sent, in order; across streams nothing  *)
(* is promised before the end.  It is told "complete" only if the          *)
(* container was finished and everything was delivered in stored order.    *)
(* At any time before, the delivery may fail instead.                      *)
(***************************************************************************)
EXTENDS Integers, Sequences, FiniteSets

CONSTANT Sendable  \* chunks that may be sent

VARIABLES sent, finished, received, outcome

deliveryVars == <<sent, finished, received, outcome>>

\* The places at which a sequence of chunks has one of stream s.
OfStream(chunks, s) == {i \in DOMAIN chunks : chunks[i].stream = s}

Init ==
  /\ sent = <<>>
  /\ finished = FALSE
  /\ received = <<>>
  /\ outcome = "open"

Send(c) ==
  /\ ~finished
  /\ sent' = Append(sent, c)
  /\ UNCHANGED <<finished, received, outcome>>

Finish ==
  /\ ~finished
  /\ finished' = TRUE
  /\ UNCHANGED <<sent, received, outcome>>

\* c is the next chunk of its stream: as many precede it as were received.
Deliver(c) ==
  /\ outcome = "open"
  /\ \E i \in OfStream(sent, c.stream) :
       /\ sent[i] = c
       /\ Cardinality({j \in OfStream(sent, c.stream) : j < i})
            = Cardinality(OfStream(received, c.stream))
  /\ received' = Append(received, c)
  /\ UNCHANGED <<sent, finished, outcome>>

Complete ==
  /\ outcome = "open"
  /\ finished
  /\ received = sent
  /\ outcome' = "complete"
  /\ UNCHANGED <<sent, finished, received>>

Fail ==
  /\ outcome = "open"
  /\ outcome' = "failed"
  /\ UNCHANGED <<sent, finished, received>>

Next ==
  \/ \E c \in Sendable : Send(c) \/ Deliver(c)
  \/ Finish
  \/ Complete
  \/ Fail

Spec == Init /\ [][Next]_deliveryVars
=============================================================================
