-------------------------- MODULE ConsumerChannels --------------------------
(***************************************************************************)
(* pkg/messaging/rabbitmq/channel_pool.go: the consumer channels of one    *)
(* pool.  They are kept by queue: consumers of one queue share a channel,  *)
(* and each releases, by the name of its queue, whatever is kept there     *)
(* then.  What is delivered on a channel is RabbitConsumer's subject.      *)
(***************************************************************************)
EXTENDS Naturals, FiniteSets

CONSTANTS QueueOf,      \* each consumer, to its queue
          MaxChannels   \* bound: channels that are ever opened

Users == DOMAIN QueueOf
Queues == {QueueOf[u] : u \in Users}
NoChannel == 0
ThePool == "the pool"
TheBroker == "the broker"

ASSUME ChannelsAssumption ==
    /\ MaxChannels \in Nat
    /\ {"", ThePool, TheBroker} \cap Users = {}

VARIABLES
    kept,        \* consumerPools: for each queue, its channel
    flagged,     \* the channels whose closed flag is up
    closer,      \* for each channel opened: who closed it, "" if nobody has
    using,       \* for each consumer in consume: the channel it was given
    poolClosed   \* ChannelPool.closed

channelVars == <<kept, flagged, closer, using, poolClosed>>

Channels == DOMAIN closer
Open == {n \in Channels : closer[n] = ""}

ChannelsTypeOK ==
    /\ kept \in [Queues -> Channels \cup {NoChannel}]
    /\ flagged \subseteq Channels /\ Channels \subseteq 1 .. MaxChannels
    /\ \A n \in Channels : closer[n] \in Users \cup {"", ThePool, TheBroker}
    /\ using \in [Users -> Channels \cup {NoChannel}]

ChannelsInit ==
    /\ kept = [q \in Queues |-> NoChannel]
    /\ flagged = {}
    /\ closer = [n \in {} |-> ""]
    /\ using = [u \in Users |-> NoChannel]
    /\ poolClosed = FALSE
-----------------------------------------------------------------------------
Kept(u) == kept[QueueOf[u]]

(* May the channel that is kept be handed out again?                       *)
MayShare(u) == Kept(u) \in Open \ flagged

(* GetConsumerChannel: the queue's channel if it is open.                  *)
ShareChannel(u) ==
    /\ using[u] = NoChannel /\ ~poolClosed
    /\ MayShare(u)
    /\ using' = [using EXCEPT ![u] = Kept(u)]
    /\ UNCHANGED <<kept, flagged, closer, poolClosed>>

(* Mistake: whatever is kept is replaced.                                  *)
MayReplace(u) == TRUE

(* Otherwise a new one in its place.                                       *)
MayOpen(u) == ~MayShare(u)

OpenChannel(u) ==
    /\ using[u] = NoChannel /\ ~poolClosed
    /\ MayOpen(u) /\ Cardinality(Channels) < MaxChannels
    /\ LET n == Cardinality(Channels) + 1 IN
       /\ closer' = [m \in Channels \cup {n} |-> IF m = n THEN "" ELSE closer[m]]
       /\ kept' = [kept EXCEPT ![QueueOf[u]] = n]
       /\ using' = [using EXCEPT ![u] = n]
    /\ UNCHANGED <<flagged, poolClosed>>

(* The connection has none to give: the one kept was dropped already.      *)
OpenFails(u) ==
    /\ using[u] = NoChannel /\ ~poolClosed
    /\ ~MayShare(u) /\ Kept(u) # NoChannel
    /\ kept' = [kept EXCEPT ![QueueOf[u]] = NoChannel]
    /\ UNCHANGED <<flagged, closer, using, poolClosed>>

CloseAll(S, who) == [n \in Channels |-> IF n \in S /\ closer[n] = "" THEN who ELSE closer[n]]

(* The broker closes a channel, as it does after a failed declaration.     *)
ChannelDies(n) ==
    /\ n \in Open
    /\ closer' = CloseAll({n}, TheBroker)
    /\ UNCHANGED <<kept, flagged, using, poolClosed>>

(* ReleaseConsumerChannel, when consume returns: what is kept for the      *)
(* queue by now is closed, and kept on if the library says it failed.      *)
ReleaseChannel(u, fails) ==
    /\ using[u] # NoChannel
    /\ using' = [using EXCEPT ![u] = NoChannel]
    /\ LET n == Kept(u) IN
       /\ fails => n \in Channels \ flagged
       /\ closer' = CloseAll({n}, u)
       /\ flagged' = flagged \cup ({n} \cap Channels)
       /\ kept' = IF fails THEN kept ELSE [kept EXCEPT ![QueueOf[u]] = NoChannel]
    /\ UNCHANGED poolClosed

(* Close.                                                                  *)
ClosePool ==
    /\ ~poolClosed
    /\ poolClosed' = TRUE
    /\ LET all == {kept[q] : q \in Queues} \ {NoChannel} IN
       /\ closer' = CloseAll(all, ThePool)
       /\ flagged' = flagged \cup all
    /\ kept' = [q \in Queues |-> NoChannel]
    /\ UNCHANGED using

ChannelsNext ==
    \/ \E u \in Users :
           \/ ShareChannel(u) \/ OpenChannel(u) \/ OpenFails(u)
           \/ \E fails \in BOOLEAN : ReleaseChannel(u, fails)
    \/ \E n \in Channels : ChannelDies(n)
    \/ ClosePool

ChannelsSpec == ChannelsInit /\ [][ChannelsNext]_channelVars
-----------------------------------------------------------------------------
(* An open channel is the one its queue's consumers share, and one of them *)
(* still has to release it, so that none outlives its users or the pool;   *)
(* a consumer loses its channel only to the broker, to the pool's Close or *)
(* to another consumer of its own queue (channel_pool.go:109-241,          *)
(* consumer.go:184-188).                                                   *)
ChannelsAreReleased ==
    /\ \A n \in Open :
           /\ ~poolClosed /\ n \notin flagged
           /\ \E u \in Users : using[u] = n /\ Kept(u) = n
    /\ \A u \in Users :
           using[u] \notin Open \cup {NoChannel} =>
               \/ closer[using[u]] \in {ThePool, TheBroker}
               \/ closer[using[u]] # u /\ QueueOf[closer[using[u]]] = QueueOf[u]
=============================================================================
