------------------------------ MODULE EventBus ------------------------------
(***************************************************************************)
(* A topic of the bus as its one subscriber in the system sees it: a FIFO  *)
(* of what the publishers have put and the subscriber has not taken. The   *)
(* transport below it is zenoh's.                                          *)
(***************************************************************************)
EXTENDS Sequences

\* Nothing of what was put before the subscriber was declared.
Subscription == <<>>

\* What the topic may be after a put: the sample has come, or it was lost,
\* for want of a subscriber that the publisher already knows of. A command's
\* put that cannot go on is given up after its timeout, and lost too.
Put(topic, subscribed, sample) ==
  {topic} \cup (IF subscribed THEN {Append(topic, sample)} ELSE {})

\* recv_timeout: the oldest sample, or none within the timeout. A sample that
\* cannot be decoded ends it with an error, and is taken all the same.
Pending(topic)  == topic # <<>>
Received(topic) == Head(topic)
Rest(topic)     == Tail(topic)
=============================================================================
