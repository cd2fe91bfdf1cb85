---------------------------- MODULE SubsAbstract ----------------------------
(***************************************************************************)
(* What the subscription engine promises, with no trie and no index: for   *)
(* every normal filter, the options each client subscribed with; for every *)
(* shared filter ($share/<group>/<filter>), the ordered queue of members   *)
(* that stable rotation serves (spec sections 3, 4.4, 4.6 and 4.7).        *)
(*                                                                         *)
(* A publish to a topic moves the head of every matching non-empty queue   *)
(* to its tail, whoever was sent to.  Adding or removing a normal          *)
(* subscription publishes its count on                                     *)
(* $SYS/broker/subscribed_topics/<filter> (spec section 6), which rotates  *)
(* the queues that topic matches.  Cleaning a client's session drops its   *)
(* subscriptions one at a time, in an order the specification leaves open. *)
(* A failed subscribe changes nothing here.                                *)
(***************************************************************************)
EXTENDS SubsTopic, FiniteSets

CONSTANTS Clients, Filters, Opts, Topics, NoGroup, NoLeaf

NormalFilters == {f \in Filters : f.share = NoGroup}
SharedFilters == Filters \ NormalFilters

VARIABLES
    subscribed,   \* subscribed[f][c]: options of c's subscription to f, or NoLeaf
    queue         \* queue[f]: the members of shared filter f, next to be served first

avars == <<subscribed, queue>>

AnnounceTopic(f) == <<"$SYS", "broker", "subscribed_topics">> \o f.levels

Rotate(q, topic) ==
    [f \in SharedFilters |->
        IF q[f] # <<>> /\ TopicMatches(f.levels, topic)
        THEN Tail(q[f]) \o <<Head(q[f])>> ELSE q[f]]

Position(members, c) == SelectInSeq(members, LAMBDA m : m.client = c)

IsMember(c, f, s, q) ==
    IF f \in NormalFilters THEN s[f][c] # NoLeaf ELSE Position(q[f], c) # 0

Init ==
    /\ subscribed = [f \in NormalFilters |-> [c \in Clients |-> NoLeaf]]
    /\ queue = [f \in SharedFilters |-> <<>>]

Subscribe(c, f, o) ==
    IF f \in NormalFilters
    THEN /\ subscribed' = [subscribed EXCEPT ![f][c] = o]
         /\ queue' = IF subscribed[f][c] = NoLeaf THEN Rotate(queue, AnnounceTopic(f))
                     ELSE queue
    ELSE LET i == Position(queue[f], c)
         IN  /\ queue' = [queue EXCEPT ![f] =
                            IF i = 0 THEN Append(@, [client |-> c, opts |-> o])
                            ELSE [@ EXCEPT ![i].opts = o]]
             /\ UNCHANGED subscribed

(* Drop c's subscription to f from the pair st = [s |-> ..., q |-> ...]. *)
Drop(c, st, f) ==
    IF f \in NormalFilters
    THEN [s |-> [st.s EXCEPT ![f][c] = NoLeaf], q |-> Rotate(st.q, AnnounceTopic(f))]
    ELSE [s |-> st.s, q |-> [st.q EXCEPT ![f] = RemoveAt(@, Position(@, c))]]

Unsubscribe(c, f) ==
    /\ IsMember(c, f, subscribed, queue)
    /\ LET st == Drop(c, [s |-> subscribed, q |-> queue], f)
       IN  subscribed' = st.s /\ queue' = st.q

CleanSession(c) ==
    LET mine == {f \in Filters : IsMember(c, f, subscribed, queue)}
    IN  \E order \in SetToSeqs(mine) :
           LET st == FoldLeft(LAMBDA acc, f : Drop(c, acc, f),
                              [s |-> subscribed, q |-> queue], order)
           IN  subscribed' = st.s /\ queue' = st.q

Publish(t) ==
    /\ queue' = Rotate(queue, t)
    /\ UNCHANGED subscribed

Next ==
    \/ \E c \in Clients, f \in Filters, o \in Opts : Subscribe(c, f, o)
    \/ \E c \in Clients, f \in Filters : Unsubscribe(c, f)
    \/ \E c \in Clients : CleanSession(c)
    \/ \E t \in Topics : Publish(t)

Spec == Init /\ [][Next]_avars

=============================================================================
