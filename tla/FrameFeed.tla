------------------------------ MODULE FrameFeed ------------------------------
(* What StreamBus promises a subscriber: frames of the stream in the order of   *)
(* their numbers, none twice and none from before it subscribed; nothing that   *)
(* is published after its subscription ended.                                   *)
EXTENDS Naturals, Sequences

CONSTANTS Subscribers, MaxFrames

VARIABLES published,  \* frames published so far; the next one has this number
          joined,     \* per subscriber: frames published when it joined
          limit,      \* per subscriber: frames published when its subscription ended
          seen        \* per subscriber: the frames it was given

feedVars == <<published, joined, limit, seen>>

FeedInit ==
    /\ published = 0
    /\ joined = [s \in Subscribers |-> 0]
    /\ limit = [s \in Subscribers |-> MaxFrames]
    /\ seen = [s \in Subscribers |-> <<>>]

Newer(s, f) == seen[s] = <<>> \/ seen[s][Len(seen[s])] < f

Observes(s) ==
    \/ seen'[s] = seen[s]
    \/ \E f \in joined[s]..(limit'[s] - 1) :
          /\ f < published'
          /\ Newer(s, f)
          /\ seen'[s] = Append(seen[s], f)

(* A subscription ends, for good: it gets what was published before. *)
Ends(s) == limit'[s] = limit[s] \/ (limit[s] = MaxFrames /\ limit'[s] = published)

(* It joins before it has seen anything. *)
Joins(s) == joined'[s] = joined[s] \/ (seen[s] = <<>> /\ joined'[s] = published)

FeedNext ==
    /\ published' \in {published, published + 1}
    /\ \A s \in Subscribers : Joins(s) /\ Ends(s) /\ Observes(s)

FeedSpec == FeedInit /\ [][FeedNext]_feedVars
=============================================================================
