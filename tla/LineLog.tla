------------------------------ MODULE LineLog ------------------------------
(***************************************************************************)
(* What the asynchronous logger promises to the services that log, without *)
(* its buffers, its thread or its files.  Lines are numbered in the order  *)
(* in which the logger accepts them.  Accepted lines wait in a queue; a    *)
(* write moves a batch from the front of the queue to the log; when the    *)
(* writer cannot keep up a run of lines in the middle of the queue may be  *)
(* thrown away, never the oldest one that waits and never the newest, the  *)
(* notice that says that lines were thrown away.                           *)
(***************************************************************************)
EXTENDS Naturals, Sequences

VARIABLES
  accepted,  \* the number of lines accepted so far
  queue,     \* accepted lines that are neither written nor thrown away
  log        \* the lines written, in the order they were written

vars == <<accepted, queue, log>>

TypeOK ==
  /\ accepted \in Nat
  /\ queue \in Seq(1 .. accepted)
  /\ log \in Seq(1 .. accepted)

Init ==
  /\ accepted = 0
  /\ queue = <<>>
  /\ log = <<>>

Accept ==
  /\ accepted' = accepted + 1
  /\ queue' = Append(queue, accepted + 1)
  /\ UNCHANGED log

Write == \E n \in 1 .. Len(queue) :
  /\ log' = log \o SubSeq(queue, 1, n)
  /\ queue' = SubSeq(queue, n + 1, Len(queue))
  /\ UNCHANGED accepted

\* Lines i to j of the queue are thrown away.
Drop == \E i \in 2 .. Len(queue) : \E j \in i .. Len(queue) - 1 :
  /\ queue' = SubSeq(queue, 1, i - 1) \o SubSeq(queue, j + 1, Len(queue))
  /\ UNCHANGED <<accepted, log>>

Next == Accept \/ Write \/ Drop

Spec == Init /\ [][Next]_vars

----------------------------------------------------------------------------
\* A line is written at most once and never before a line accepted earlier:
\* the log followed by what waits is in the order of acceptance (append
\* fills the current buffer and links full ones, worker_func writes the
\* chain from its head).
InOrder ==
  LET all == log \o queue
  IN  \A i, j \in 1 .. Len(all) : i < j => all[i] < all[j]
============================================================================
