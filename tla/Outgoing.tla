------------------------------ MODULE Outgoing ------------------------------
(***************************************************************************)
(* The bounded queue of messages to the control plane (lib.rs, Outgoing).  *)
(* Every task of the agent sends with try_send, which never waits; the     *)
(* main loop is the only consumer.  delivered holds what it has written of *)
(* the messages of the task under study, in order.                         *)
(***************************************************************************)
EXTENDS Naturals, Sequences

CONSTANT QueueLength  \* capacity of the queue

ASSUME QueueAssumption == QueueLength \in Nat \ {0}

VARIABLES
    queue,      \* messages not yet written to the websocket
    delivered,  \* messages the connection has written
    refused     \* history: a send of the task found the queue full

outgoing == <<queue, delivered, refused>>

Other == [type |-> "other"]

OutgoingInit ==
    /\ queue = <<>>
    /\ delivered = <<>>
    /\ refused = FALSE

HasRoom == Len(queue) < QueueLength

Send(message) ==
    /\ queue' = IF HasRoom THEN Append(queue, message) ELSE queue
    /\ refused' = (refused \/ ~HasRoom)
    /\ UNCHANGED delivered

\* Every other producer of the agent shares the queue.
OtherSend ==
    /\ HasRoom
    /\ queue' = Append(queue, Other)
    /\ UNCHANGED <<delivered, refused>>

Deliver ==
    /\ queue # <<>>
    /\ queue' = Tail(queue)
    /\ delivered' = IF Head(queue).type = "other" THEN delivered
                    ELSE Append(delivered, Head(queue))
    /\ UNCHANGED refused

\* FlattenSeq of SequencesExt, without the rest of that module in each instance
\* of this one: a proof step carries every definition in its scope.
Flatten(seqs) ==
    IF Len(seqs) = 0 THEN <<>>
    ELSE LET upto[n \in 1 .. Len(seqs)] ==
                 IF n = 1 THEN seqs[n] ELSE upto[n - 1] \o seqs[n]
         IN  upto[Len(seqs)]

\* SelectSeq, by a recursion that a proof can unfold.
Select(messages, Test(_)) ==
    Flatten([n \in 1 .. Len(messages) |->
                IF Test(messages[n]) THEN <<messages[n]>> ELSE <<>>])

\* The task's messages in the order the server sees them.
Messaged == delivered \o Select(queue, LAMBDA m : m.type # "other")
=============================================================================
