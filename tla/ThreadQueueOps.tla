--------------------------- MODULE ThreadQueueOps ---------------------------
(***************************************************************************)
(* The queue fftools puts between two of its threads, as a value: what the *)
(* critical sections of thread_queue.c do to a struct ThreadQueue.  A      *)
(* queue carries the items of streams 0..nb - 1 in one bounded fifo, and   *)
(* each stream is finished on its own, by its sender or by the receiver.   *)
(* ThreadQueue adds the threads and the condition variable, Scheduler      *)
(* connects its tasks with such queues.                                    *)
(***************************************************************************)
EXTENDS Integers, Sequences

\* tq_alloc.  index is fifo_stream_index, items the container fifo; sent and
\* recvd are the streams with FINISHED_SEND and FINISHED_RECV in finished.
NewQueue(nb, size) ==
    [nb |-> nb, size |-> size, index |-> <<>>, items |-> <<>>,
     sent |-> {}, recvd |-> {}, choked |-> FALSE]

StreamsOf(q) == 0..q.nb - 1

Lowest(S) == CHOOSE n \in S : \A m \in S : n <= m

Full(q) == Len(q.index) >= q.size

\* tq_send writes the stream's index, then the item.
Write(q, s, d)  == [q EXCEPT !.index = Append(@, s), !.items = Append(@, d)]
\* The container fifo cannot allocate the item: the index stays written.
WriteFails(q, s) == [q EXCEPT !.index = Append(@, s)]

\* tq_send finds the receiver gone.
SendEnds(q, s) == [q EXCEPT !.sent = @ \cup {s}]

SendFinished(q, s) == [q EXCEPT !.sent = @ \cup {s}, !.choked = FALSE]
ReceiveFinished(q, s) == [q EXCEPT !.recvd = @ \cup {s}]
Choked(q, b) == [q EXCEPT !.choked = b]

\* Items of a stream the receiver is done with are dropped when their turn comes.
Wanted(q) == {i \in 1..Len(q.items) : q.index[i] \notin q.recvd}

DropFirst(q, n) ==
    [q EXCEPT !.index = SubSeq(@, n + 1, Len(@)), !.items = SubSeq(@, n + 1, Len(@))]

\* Streams whose end the receiver has not been told of.
Untold(q) == q.sent \ q.recvd

AllFinished(q) == StreamsOf(q) \subseteq q.sent \cup q.recvd

\* What receive_locked returns, and the queue it leaves: the oldest item of a
\* stream still wanted, else the end of one stream, else the end of all.
NextItem(q) ==
    LET i == Lowest(Wanted(q))
    IN  [ret |-> "item", stream |-> q.index[i], item |-> <<q.items[i]>>, q |-> DropFirst(q, i)]
NextEnd(q) ==
    LET s == Lowest(Untold(q))
    IN  [ret |-> "eof", stream |-> s, item |-> <<>>, q |-> ReceiveFinished(DropFirst(q, Len(q.items)), s)]
Nothing(q, r) ==
    [ret |-> r, stream |-> -1, item |-> <<>>, q |-> DropFirst(q, Len(q.items))]

ReceiveEndsFirst(q) ==                                                  \* mutant
    CASE q.choked                       -> [Nothing(q, "again") EXCEPT !.q = q]
      [] ~q.choked /\ Untold(q) # {}    -> NextEnd(q)
      [] ~q.choked /\ Untold(q) = {} /\ Wanted(q) # {} -> NextItem(q)
      [] OTHER -> Nothing(q, IF AllFinished(q) THEN "eof" ELSE "again")
Receive(q) ==
    CASE q.choked                       -> [Nothing(q, "again") EXCEPT !.q = q]
      [] ~q.choked /\ Wanted(q) # {}    -> NextItem(q)
      [] ~q.choked /\ Wanted(q) = {} /\ Untold(q) # {} -> NextEnd(q)
      [] OTHER -> Nothing(q, IF AllFinished(q) THEN "eof" ELSE "again")
=============================================================================
