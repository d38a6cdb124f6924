-------------------------------- MODULE Feed --------------------------------
(***************************************************************************)
(* What the ring buffer promises, without a buffer: at most one attached   *)
(* reader gets every byte published after it attached, in order and once,  *)
(* and the publisher waits rather than let more than Capacity bytes queue  *)
(* up for it.  Without a reader bytes are published to nobody.             *)
(***************************************************************************)
EXTENDS Integers, Sequences

CONSTANTS Reader, Capacity, MaxBytes

VARIABLES attached, queue, published

feedVars == <<attached, queue, published>>

FeedInit ==
    /\ attached = {}
    /\ queue = <<>>
    /\ published = 0

\* A reader attaches at the end of the feed, in place of one attached before it.
Attach(r) ==
    /\ attached' = {r}
    /\ queue' = <<>>
    /\ UNCHANGED published

Detach ==
    /\ attached' = {}
    /\ queue' = <<>>
    /\ UNCHANGED published

Publish(n) ==
    /\ published + n <= MaxBytes
    /\ published' = published + n
    /\ \/ attached = {} /\ queue' = queue
       \/ /\ attached # {}
          /\ Len(queue) + n <= Capacity
          /\ queue' = queue \o [i \in 1 .. n |-> published + i - 1]
    /\ UNCHANGED attached

\* The reader takes, or skips, the oldest n bytes.
Consume(n) ==
    /\ n <= Len(queue)
    /\ queue' = SubSeq(queue, n + 1, Len(queue))
    /\ UNCHANGED <<attached, published>>

FeedNext ==
    \/ Detach
    \/ \E r \in Reader : Attach(r)
    \/ \E n \in 1 .. Capacity : Publish(n) \/ Consume(n)

FeedSpec == FeedInit /\ [][FeedNext]_feedVars
=============================================================================
