------------------------------ MODULE WebChannels ------------------------------
(***************************************************************************)
(* MessageChannel, BroadcastChannel and structuredClone of                 *)
(* src/src/js_shims/web_api.js.  A message is copied when it is posted and *)
(* delivered by a timer of 0 ms; timers of one delay fire in the order     *)
(* they were set.  A broadcast walks the live list of channels: at every   *)
(* place it runs the listeners of the channel there, and then looks up the *)
(* place again to call onmessage, while scripts open and close channels.   *)
(* The copy of a broadcast is one for all its ears; no listener of the     *)
(* model changes what it hears.                                            *)
(***************************************************************************)
EXTENDS Naturals, Sequences, SequencesExt

CONSTANTS
  Port,      \* the two ports of a message channel
  Channel,   \* broadcast channels of one name
  Nobody,    \* the other port, once this one is closed
  Value,     \* what an object may hold
  MaxPosts   \* bound: messages

VARIABLES
  held,      \* what the object that is posted holds now
  other,     \* the other port of every port
  open,      \* __broadcastChannels: the channels of the name, in their order
  closed,    \* the ports and channels that were closed
  timers,    \* the deliveries that were set, in order
  walk,      \* the broadcast that is being delivered, its place, and what runs there
  posts,     \* history: of every message what was posted, by whom
  got,       \* history: what every ear was given, in order
  missed     \* history: which ear was passed over, cut off, or came too late, for what

vars == <<held, other, open, closed, timers, walk, posts, got, missed>>

End == Port \cup Channel
Message == [n : 1 .. MaxPosts, value : Value]

(* A channel hears by its listeners and by its onmessage; a port calls     *)
(* both, onmessage first, whatever happens to it meanwhile: it is one ear. *)
Route == {"listeners", "onmessage"}
Ear == Port \cup (Channel \X Route)

Idle == [n |-> 0, at |-> 0, phase |-> "next"]

TypeOK ==
  /\ held \in Value
  /\ other \in [Port -> Port \cup {Nobody}]
  /\ open \in Seq(Channel) /\ closed \subseteq End
  /\ walk.n \in 0 .. Len(posts) /\ walk.at \in Nat /\ walk.phase \in Route \cup {"next"}
  /\ \A e \in Ear : got[e] \in Seq(Message)

Init ==
  /\ held \in Value
  /\ other \in [Port -> Port] /\ \A p \in Port : other[p] # p
  /\ open = <<>> /\ closed = {}
  /\ timers = <<>> /\ walk = Idle
  /\ posts = <<>>
  /\ got = [e \in Ear |-> <<>>]
  /\ missed = {}

-----------------------------------------------------------------------------
(* Mistake: the object itself is delivered.                                *)
CloneLate(n) == held

(* structuredClone, when the message is posted.                            *)
Clone(n) == posts[n].value

Give(e, n) == got' = [got EXCEPT ![e] = Append(@, [n |-> n, value |-> Clone(n)])]

(* Scripts run between deliveries, and as listeners.                       *)
InScript == walk = Idle \/ walk.phase # "next"

(* The places of the list the walk has behind it: between the listeners    *)
(* and the onmessage of a place, one more for the listeners.               *)
Behind(r) == IF walk.phase = "listeners" /\ r = "onmessage" THEN walk.at - 1 ELSE walk.at

OnTheWay(n) == walk.n = n \/ \E i \in DOMAIN timers : timers[i].n = n

(* The sender changes its object.                                          *)
Change(v) ==
  /\ InScript
  /\ held' = v
  /\ UNCHANGED <<other, open, closed, timers, walk, posts, got, missed>>

Post(from, to) ==
  /\ InScript
  /\ Len(posts) < MaxPosts
  /\ posts' = Append(posts, [from |-> from, value |-> held])
  /\ timers' = Append(timers, [n |-> Len(posts) + 1, to |-> to])
  /\ UNCHANGED <<held, other, open, closed, walk, got, missed>>

(* MessagePort.postMessage: to the other port, if it is still known; and   *)
(* BroadcastChannel.postMessage, of a closed channel too.                  *)
PostToPort(p) == other[p] # Nobody /\ Post(p, other[p])
PostToAll(c) == c \in Range(open) \cup closed /\ Post(c, c)

ClosePort(p) ==
  /\ InScript
  /\ closed' = closed \cup {p}
  /\ other' = [other EXCEPT ![p] = Nobody]
  /\ UNCHANGED <<held, open, timers, walk, posts, got, missed>>

TooLate(r, n) == ~OnTheWay(n) \/ (n = walk.n /\ Len(open) < Behind(r))

(* new BroadcastChannel: at the end of the list.  It comes too late for    *)
(* what is no longer on its way, and for the walk too if the list has      *)
(* become so short that its end is behind the walk.                        *)
OpenChannel(c) ==
  /\ InScript
  /\ c \notin Range(open) \cup closed
  /\ open' = Append(open, c)
  /\ missed' = missed \cup {m \in ({c} \X Route) \X DOMAIN posts :
                            TooLate(m[1][2], m[2])}
  /\ UNCHANGED <<held, other, closed, timers, walk, posts, got>>

Position(c) == CHOOSE i \in DOMAIN open : open[i] = c

(* BroadcastChannel.close: out of the list, which may be walked now: the   *)
(* channel that moves up to a place behind the walk is passed over.        *)
CloseChannel(c) ==
  /\ InScript
  /\ c \in Range(open)
  /\ closed' = closed \cup {c}
  /\ open' = RemoveAt(open, Position(c))
  /\ missed' = missed \cup
       {<<<<open[Behind(r) + 1], r>>, walk.n>> :
          r \in {s \in Route : Position(c) <= Behind(s) /\ Behind(s) < Len(open)}}
  /\ UNCHANGED <<held, other, timers, walk, posts, got>>

-----------------------------------------------------------------------------
(* The first timer fires: a port that is not closed hears the message.     *)
DeliverToPort ==
  /\ walk = Idle /\ timers # <<>> /\ Head(timers).to \in Port
  /\ timers' = Tail(timers)
  /\ IF Head(timers).to \in closed THEN UNCHANGED got
     ELSE Give(Head(timers).to, Head(timers).n)
  /\ UNCHANGED <<held, other, open, closed, walk, posts, missed>>

StartWalk ==
  /\ walk = Idle /\ timers # <<>> /\ Head(timers).to \in Channel
  /\ timers' = Tail(timers)
  /\ walk' = [n |-> Head(timers).n, at |-> 0, phase |-> "next"]
  /\ UNCHANGED <<held, other, open, closed, posts, got, missed>>

(* The next place of the list: the listeners of the channel there hear it, *)
(* unless it is the sender.  What they throw dispatchEvent catches.        *)
Step ==
  /\ walk # Idle /\ walk.phase # "listeners" /\ walk.at < Len(open)
  /\ LET c == open[walk.at + 1]  own == c = posts[walk.n].from IN
     /\ walk' = [walk EXCEPT !.at = @ + 1, !.phase = IF own THEN "next" ELSE "listeners"]
     /\ IF own THEN UNCHANGED got ELSE Give(<<c, "listeners">>, walk.n)
  /\ UNCHANGED <<held, other, open, closed, timers, posts, missed>>

(* The onmessage of whoever is at the place now.                           *)
Call ==
  /\ walk.phase = "listeners" /\ walk.at <= Len(open)
  /\ walk' = [walk EXCEPT !.phase = "onmessage"]
  /\ Give(<<open[walk.at], "onmessage">>, walk.n)
  /\ UNCHANGED <<held, other, open, closed, timers, posts, missed>>

(* Nobody is at the place, or onmessage, which is called outside of any    *)
(* try, throws: the error ends the walk, and the timer swallows it.        *)
Throw ==
  /\ walk.phase = "onmessage" \/ (walk.phase = "listeners" /\ walk.at > Len(open))
  /\ walk' = Idle
  /\ missed' = missed \cup
       {<<<<open[i], r>>, walk.n>> : i \in walk.at + 1 .. Len(open), r \in Route}
  /\ UNCHANGED <<held, other, open, closed, timers, posts, got>>

(* Mistake: the last place of the list is not counted.                     *)
EndWalkEarly ==
  /\ walk # Idle /\ walk.phase # "listeners" /\ walk.at + 1 >= Len(open)
  /\ walk' = Idle
  /\ UNCHANGED <<held, other, open, closed, timers, posts, got, missed>>

EndWalk ==
  /\ walk # Idle /\ walk.phase # "listeners" /\ walk.at >= Len(open)
  /\ walk' = Idle
  /\ UNCHANGED <<held, other, open, closed, timers, posts, got, missed>>

Next ==
  \/ \E v \in Value : Change(v)
  \/ \E p \in Port : PostToPort(p) \/ ClosePort(p)
  \/ \E c \in Channel : PostToAll(c) \/ OpenChannel(c) \/ CloseChannel(c)
  \/ DeliverToPort \/ StartWalk \/ Step \/ Call \/ Throw \/ EndWalk

Spec == Init /\ [][Next]_vars

-----------------------------------------------------------------------------
(***************************************************************************)
(* Every ear hears messages in the order they were posted, each once, as   *)
(* they were when they were posted, and none of its own channel, except an *)
(* onmessage whose channel moved up to a place while listeners ran there.  *)
(***************************************************************************)
Sent(e, n) == posts[n].from = IF e \in Port THEN e ELSE e[1]

HeardInOrderOnce ==
  \A e \in Ear :
    /\ \A i, j \in DOMAIN got[e] : i < j => got[e][i].n < got[e][j].n
    /\ \A i \in DOMAIN got[e] :
         LET n == got[e][i].n IN
         /\ got[e][i].value = posts[n].value
         /\ Sent(e, n) => \E c \in Channel :
              e = <<c, "onmessage">> /\ <<<<c, "listeners">>, n>> \in missed

(***************************************************************************)
(* A message that is no longer on its way was heard by all who were there  *)
(* for it and still are: the other port, and by listeners and onmessage    *)
(* every other channel, opened before it was posted or until it was        *)
(* delivered, except where a script closed one before it in the list, or   *)
(* an onmessage before it threw.                                           *)
(***************************************************************************)
There == (Port \ closed) \cup (Range(open) \X Route)

OtherEars(from) == IF from \in Port THEN Port \ {from} ELSE (Channel \ {from}) \X Route

HeardByAll ==
  \A n \in DOMAIN posts : OnTheWay(n) \/
    \A e \in OtherEars(posts[n].from) \cap There :
      <<e, n>> \in missed \/ \E i \in DOMAIN got[e] : got[e][i].n = n
=============================================================================
