-------------------------------- MODULE Subs --------------------------------
(***************************************************************************)
(* The subscription engine of src/src/subs.c: the subscription trie        *)
(* (db.subs), the leaves at its nodes, the per-client index of leaves      *)
(* (context->subs), and the four entry points sub__add, sub__remove,       *)
(* sub__messages_queue and sub__clean_session.  The broker runs them on    *)
(* one thread, each call to completion, so each is one atomic action.     *)
(* The build modelled is the default one, with WITH_SYS_TREE.              *)
(***************************************************************************)
EXTENDS SubsSearch, FiniteSets

CONSTANTS
    Groups,      \* share names
    Filters,     \* [share : Groups \cup {NoGroup}, levels : filter levels]
    Topics,      \* publish topics (level sequences without wildcards)
    Sources,     \* source ids a PUBLISH may carry
    Opts,        \* subscription options [qos : 0..2, nl : BOOLEAN]
    PubQos,      \* QoS values of publishes
    Null,        \* an empty slot of context->subs
    NoPub,       \* the last step was not a publish
    NoUnsub,     \* the last step was not an unsubscribe
    NoSub,       \* the last step was not a subscribe
    Protocols,   \* protocol versions a client may connect with (context->protocol)
    AllocFail,   \* whether mosquitto__calloc/realloc may return NULL in sub__add
    AnnounceFail, \* whether the allocations of a $SYS announcement may fail
    SendErrors   \* whether an ACL check or a queueing may fail

ASSUME \A f \in Filters :
         /\ f.levels # <<>>
         /\ \A i \in 1..Len(f.levels) - 1 : f.levels[i] # "#"
ASSUME \A t \in Topics : t # <<>> /\ \A i \in 1..Len(t) : t[i] \notin {"+", "#"}
ASSUME Sources \subseteq Clients \cup {Broker, NoSource}

NodeOf(f) == NodeOfTokens(Tokenise(f.levels))

PathTo(node) == {SubSeq(node, 1, l) : l \in 1..Len(node)}

(* Every node a subscription of the model can create. *)
Nodes == UNION {PathTo(NodeOf(f)) : f \in Filters}

Refs == [hier : Nodes, shared : Groups \cup {NoGroup}]

Outcomes == IF SendErrors THEN SendOutcomes ELSE SendOutcomes \ {"err"}

ReasonCodes == {"Success", "NoSubscriptionExisted"}

VARIABLES
    hier,          \* the nodes of db.subs and of their children hashes
    subs,          \* subs[node][c]: options of c's normal leaf at node, or NoLeaf
    shared,        \* shared[node]: share name -> leaf list
    idx,           \* idx[c]: context->subs, slots holding leaf refs or Null
    subsCount,     \* context->subs_count
    subscriptionCount,        \* db.subscription_count
    sharedSubscriptionCount,  \* db.shared_subscription_count
    pub,           \* the last publish: its inputs and the messages it queued
    unsub,         \* the last unsubscribe: its inputs and the reason it set
    sub,           \* the last subscribe: its inputs and what sub__add returned
    retained       \* the retained message of each $SYS/broker/subscribed_topics topic

vars == <<hier, subs, shared, idx, subsCount, subscriptionCount,
          sharedSubscriptionCount, pub, unsub, sub, retained>>

NoShared == [g \in {} |-> <<>>]

(* The topics the announcer publishes to; the retained store outside src/ *)
(* keeps the last message of each (spec section 6).                        *)
SysTopics == {SysTopicOf(n) : n \in Nodes}
NoRetained == "<none>"

Init ==
    /\ hier = {}
    /\ subs = [n \in Nodes |-> [c \in Clients |-> NoLeaf]]
    /\ shared = [n \in Nodes |-> NoShared]
    /\ idx = [c \in Clients |-> <<>>]
    /\ subsCount = [c \in Clients |-> 0]
    /\ subscriptionCount = 0
    /\ sharedSubscriptionCount = 0
    /\ pub = NoPub
    /\ unsub = NoUnsub
    /\ sub = NoSub
    /\ retained = [t \in SysTopics |-> NoRetained]

-----------------------------------------------------------------------------
(* Helpers on one node. *)

HasNormal(S, node) == \E c \in Clients : S[node][c] # NoLeaf

NodeEmpty(H, S, sh, node) ==
    ~HasChildren(H, node) /\ ~HasNormal(S, node) /\ DOMAIN sh[node] = {}

(* Position of c's leaf in a leaf list, 0 if none (sub__add_leaf's scan). *)
MemberIndex(list, c) == SelectInSeq(list, LAMBDA l : l.client = c)

(* sub__add_normal / sub__add_shared: the new leaf goes into the first     *)
(* empty slot of context->subs, or the array grows by one slot.            *)
InsertRef(slots, r) ==
    LET i == SelectInSeq(slots, LAMBDA x : x = Null)
    IN  IF i = 0 THEN Append(slots, r) ELSE [slots EXCEPT ![i] = r]

(* Mutant of DropRef: the leaf is freed but its slot keeps the pointer.   *)
DropRefKeep(slots, r) == slots

(* sub__remove_normal / sub__remove_shared: free the slot holding the leaf.*)
DropRef(slots, r) ==
    [i \in DOMAIN slots |-> IF slots[i] = r THEN Null ELSE slots[i]]

(* DL_DELETE of c's leaf from a shared group, and HASH_DELETE of the group *)
(* when its list is now empty (sub__remove_shared_leaf).                   *)
RemoveSharedLeaf(sh, node, g, c) ==
    LET old == sh[node]
        rest == RemoveAt(old[g], MemberIndex(old[g], c))
    IN  [sh EXCEPT ![node] =
            IF rest = <<>> THEN [x \in DOMAIN old \ {g} |-> old[x]]
            ELSE [old EXCEPT ![g] = rest]]

(* The loop over branch->subs in sub__update_subscribed_topics.           *)
LeafCount(S, node) == Cardinality({c \in Clients : S[node][c] # NoLeaf})

(* snprintf(payload_buf, 10, "%u", count) and the len it returns, which    *)
(* db__messages_easy_queue is given as the payload length: nine digits     *)
(* and the NUL when the number has ten.                                    *)
Payload(count) ==
    LET s == ToString(count)
    IN  IF Len(s) <= 9 THEN s ELSE SubSeq(s, 1, 9) \o NUL

(* sub__update_subscribed_topics: queue the node's subscriber count,       *)
(* retained, on $SYS/broker/subscribed_topics/<path>.  What it changes in  *)
(* the engine is that the publish runs the matcher, which rotates the      *)
(* shared groups it reaches.  ok is FALSE when a malloc of                 *)
(* sub__build_full_topic, or the queueing in db__messages_easy_queue,      *)
(* fails: nothing is published, and the callers ignore the error.         *)
UpdateSubscribedTopics(H, S, sh, node, out, ok) ==
    IF ok THEN MessagesQueue(H, S, sh, Broker, SysTopicOf(node), 0, out).sh ELSE sh

(* The same publish has retain set, so sub__messages_queue ends with       *)
(* retain__store (outside src/): the count, as snprintf formatted it,      *)
(* becomes the topic's retained message.                                   *)
RetainSubscribedCount(rt, S, node, ok) ==
    IF ok THEN [rt EXCEPT ![SysTopicOf(node)] = Payload(LeafCount(S, node))] ELSE rt

(* The possible outcomes of one announcement. *)
AnnounceResults == IF AnnounceFail THEN BOOLEAN ELSE {TRUE}

(* The longest prefix of node that the walk from db.subs finds. *)
ExistingDepth(H, node) ==
    Max({l \in 0..Len(node) : \A k \in 1..l : SubSeq(node, 1, k) \in H})

(* Mutant of Prune: only the filter's own node is freed, not its empty    *)
(* ancestors.                                                              *)
PruneNodeOnly(H, S, sh, node) ==
    IF Len(node) >= 2 /\ node \in H /\ NodeEmpty(H, S, sh, node) THEN H \ {node} ELSE H

(* sub__remove_recurse, unwinding: every node on the path below the        *)
(* top-level entry, deepest first, is freed if it is now empty.            *)
RECURSIVE Prune(_, _, _, _)
Prune(H, S, sh, node) ==
    IF Len(node) < 2 THEN H
    ELSE Prune(IF node \in H /\ NodeEmpty(H, S, sh, node) THEN H \ {node} ELSE H,
               S, sh, Parent(node))

(* The loop over tmp_remove_subs in sub__clean_session: free the node and  *)
(* go on with its parent while the parent is empty and not a top-level     *)
(* entry.  tmp_remove_subs itself looks only at children and subs.         *)
RECURSIVE CollapseUp(_, _, _, _)
CollapseUp(H, S, sh, node) ==
    IF Len(node) < 2 \/ HasChildren(H, node) \/ HasNormal(S, node) THEN H
    ELSE LET H2 == H \ {node}
         IN  IF NodeEmpty(H2, S, sh, Parent(node)) /\ Len(Parent(node)) >= 2
             THEN CollapseUp(H2, S, sh, Parent(node))
             ELSE H2

-----------------------------------------------------------------------------
(***************************************************************************)
(* sub__add.  The walk of sub__add / sub__add_context creates every        *)
(* missing node of the filter's path; then sub__add_normal or              *)
(* sub__add_shared inserts the leaf through sub__add_leaf, which only      *)
(* updates the options when the client already has a leaf there           *)
(* (MOSQ_ERR_SUB_EXISTS).  A new normal leaf is counted and announced on   *)
(* the $SYS tree.                                                          *)
(***************************************************************************)
(* Mutant of AddNormal: the count is announced from branch->subs before   *)
(* the new leaf is linked into it.                                         *)
AddNormalAnnounceFirst(c, node, o, out, ok) ==
    \/ /\ subs[node][c] # NoLeaf
       /\ subs' = [subs EXCEPT ![node][c] = o]
       /\ UNCHANGED <<shared, idx, subsCount, subscriptionCount, sharedSubscriptionCount,
                      retained>>
    \/ /\ subs[node][c] = NoLeaf
       /\ subs' = [subs EXCEPT ![node][c] = o]
       /\ idx' = [idx EXCEPT ![c] = InsertRef(@, [hier |-> node, shared |-> NoGroup])]
       /\ subsCount' = [subsCount EXCEPT ![c] = @ + 1]
       /\ subscriptionCount' = subscriptionCount + 1
       /\ shared' = UpdateSubscribedTopics(hier', subs, shared, node, out, ok)
       /\ retained' = RetainSubscribedCount(retained, subs, node, ok)
       /\ UNCHANGED sharedSubscriptionCount

AddNormal(c, node, o, out, ok) ==
    \/ /\ subs[node][c] # NoLeaf
       /\ subs' = [subs EXCEPT ![node][c] = o]
       /\ UNCHANGED <<shared, idx, subsCount, subscriptionCount, sharedSubscriptionCount,
                      retained>>
    \/ /\ subs[node][c] = NoLeaf
       /\ subs' = [subs EXCEPT ![node][c] = o]
       /\ idx' = [idx EXCEPT ![c] = InsertRef(@, [hier |-> node, shared |-> NoGroup])]
       /\ subsCount' = [subsCount EXCEPT ![c] = @ + 1]
       /\ subscriptionCount' = subscriptionCount + 1
       /\ shared' = UpdateSubscribedTopics(hier', subs', shared, node, out, ok)
       /\ retained' = RetainSubscribedCount(retained, subs', node, ok)
       /\ UNCHANGED sharedSubscriptionCount

(* sub__add_shared: HASH_FIND the share name, creating an empty group if  *)
(* it is missing; sub__add_leaf appends to its list.                       *)
WithGroup(sh, node, g) ==
    IF g \in DOMAIN sh[node] THEN sh ELSE [sh EXCEPT ![node] = (g :> <<>>) @@ @]

AppendLeaf(sh, node, g, c, o) ==
    [sh EXCEPT ![node] = [@ EXCEPT ![g] = Append(@, [client |-> c, opts |-> o])]]

(* Mutant of ReallocUndo: the leaf is freed without unlinking it.         *)
ReallocUndoForget(sh, node, g, c) == sh

(* The undo in sub__add_shared when growing context->subs fails: the new   *)
(* leaf is unlinked with sub__remove_shared_leaf, which also drops a group *)
(* it leaves empty.                                                        *)
ReallocUndo(sh, node, g, c) == RemoveSharedLeaf(sh, node, g, c)

(* Mutant of DropEmptyGroup: the group created for a leaf whose           *)
(* allocation failed stays in the hash.                                    *)
DropEmptyGroupKeep(sh, node, g) == sh

(* The undo when sub__add_leaf fails: a group left without leaves is       *)
(* removed from the hash again.                                            *)
DropEmptyGroup(sh, node, g) ==
    IF sh[node][g] = <<>> THEN [sh EXCEPT ![node] = [x \in DOMAIN @ \ {g} |-> @[x]]]
    ELSE sh

(* Mutant of AddShared: the scan for the client's existing leaf is        *)
(* skipped, so a resubscription appends a second leaf.                    *)
AddSharedNoDedup(c, node, g, o) ==
    /\ shared' = AppendLeaf(WithGroup(shared, node, g), node, g, c, o)
    /\ idx' = [idx EXCEPT ![c] = InsertRef(@, [hier |-> node, shared |-> g])]
    /\ subsCount' = [subsCount EXCEPT ![c] = @ + 1]
    /\ sharedSubscriptionCount' = sharedSubscriptionCount + 1
    /\ UNCHANGED <<subs, subscriptionCount, retained>>

AddShared(c, node, g, o) ==
    LET sh1 == WithGroup(shared, node, g)
        list == sh1[node][g]
        i == MemberIndex(list, c)
    IN  /\ UNCHANGED <<subs, subscriptionCount, retained>>
        /\ \/ /\ i # 0
              /\ shared' = [sh1 EXCEPT ![node] = [@ EXCEPT ![g] = [list EXCEPT ![i].opts = o]]]
              /\ UNCHANGED <<idx, subsCount, sharedSubscriptionCount>>
           \/ /\ i = 0
              /\ shared' = AppendLeaf(sh1, node, g, c, o)
              /\ idx' = [idx EXCEPT ![c] = InsertRef(@, [hier |-> node, shared |-> g])]
              /\ subsCount' = [subsCount EXCEPT ![c] = @ + 1]
              /\ sharedSubscriptionCount' = sharedSubscriptionCount + 1

(* sub__add_leaf's scan finds a leaf of the client (by client id).        *)
Subscribed(c, node, g) ==
    IF g = NoGroup THEN subs[node][c] # NoLeaf
    ELSE g \in DOMAIN shared[node] /\ MemberIndex(shared[node][g], c) # 0

(* The return of sub__add_normal / sub__add_shared: sub__add_leaf's        *)
(* MOSQ_ERR_SUB_EXISTS is passed on for MQTT 3.1 and 5 only; under 3.1.1   *)
(* MOSQ_ERR_SUCCESS is returned.  (The comment there names MQTT 5 as well  *)
(* among the versions that resend retained messages; the code does not.)   *)
AddResult(existed, proto) ==
    IF existed /\ proto \in {"mqtt31", "mqtt5"} THEN "SubExists" ELSE "Success"

Subscribe(c, f, o, proto, out, ok) ==
    /\ hier' = hier \cup PathTo(NodeOf(f))
    /\ IF f.share = NoGroup THEN AddNormal(c, NodeOf(f), o, out, ok)
                            ELSE AddShared(c, NodeOf(f), f.share, o)
    /\ pub' = NoPub
    /\ unsub' = NoUnsub
    /\ sub' = [client |-> c, filter |-> f, opts |-> o, protocol |-> proto,
               rc |-> AddResult(Subscribed(c, NodeOf(f), f.share), proto)]

(* Mutant of SubscribeNoMem: db.shared_subscription_count is incremented  *)
(* as soon as the shared leaf is appended, before the realloc of           *)
(* context->subs that fails and unlinks it again.                          *)
SubscribeNoMemCountEarly(c, f, o, proto) ==
    LET node == NodeOf(f)
        g == f.share
        isNew == IF g = NoGroup THEN subs[node][c] = NoLeaf
                 ELSE ~(g \in DOMAIN shared[node] /\ MemberIndex(shared[node][g], c) # 0)
        noFreeSlot == SelectInSeq(idx[c], LAMBDA x : x = Null) = 0
        sh1 == WithGroup(shared, node, g)
    IN  /\ AllocFail
        /\ \/ /\ ExistingDepth(hier, node) < Len(node)
              /\ \E l \in ExistingDepth(hier, node)..(Len(node) - 1) :
                    hier' = hier \cup {SubSeq(node, 1, k) : k \in 1..l}
              /\ UNCHANGED <<shared, sharedSubscriptionCount>>
           \/ /\ isNew
              /\ hier' = hier \cup PathTo(node)
              /\ IF g = NoGroup THEN UNCHANGED <<shared, sharedSubscriptionCount>>
                 ELSE \/ shared' = shared /\ UNCHANGED sharedSubscriptionCount
                      \/ /\ shared' = DropEmptyGroup(sh1, node, g)
                         /\ UNCHANGED sharedSubscriptionCount
                      \/ /\ noFreeSlot
                         /\ shared' = ReallocUndo(AppendLeaf(sh1, node, g, c, o), node, g, c)
                         /\ sharedSubscriptionCount' = sharedSubscriptionCount + 1
        /\ pub' = NoPub
        /\ unsub' = NoUnsub
        /\ sub' = [client |-> c, filter |-> f, opts |-> o, protocol |-> proto, rc |-> "NoMem"]
        /\ UNCHANGED <<subs, idx, subsCount, subscriptionCount, retained>>

(* sub__add when an allocation fails; MOSQ_ERR_NOMEM is returned.         *)
(*  - a sub__add_hier_entry of the walk fails: the nodes created before it *)
(*    stay;                                                                *)
(*  - with the whole path in place, for a new leaf: the shared group's     *)
(*    calloc fails (nothing else changed), the leaf's calloc fails (a      *)
(*    group created for it is dropped again), or the realloc of            *)
(*    context->subs fails when it has no free slot (the appended leaf is   *)
(*    unlinked again, with its group if that is now empty).  For a normal  *)
(*    leaf both undo to the node list as it was.                           *)
SubscribeNoMem(c, f, o, proto) ==
    LET node == NodeOf(f)
        g == f.share
        isNew == IF g = NoGroup THEN subs[node][c] = NoLeaf
                 ELSE ~(g \in DOMAIN shared[node] /\ MemberIndex(shared[node][g], c) # 0)
        noFreeSlot == SelectInSeq(idx[c], LAMBDA x : x = Null) = 0
        sh1 == WithGroup(shared, node, g)
    IN  /\ AllocFail
        /\ \/ /\ ExistingDepth(hier, node) < Len(node)
              /\ \E l \in ExistingDepth(hier, node)..(Len(node) - 1) :
                    hier' = hier \cup {SubSeq(node, 1, k) : k \in 1..l}
              /\ UNCHANGED shared
           \/ /\ isNew
              /\ hier' = hier \cup PathTo(node)
              /\ IF g = NoGroup THEN UNCHANGED shared
                 ELSE \/ shared' = shared
                      \/ shared' = DropEmptyGroup(sh1, node, g)
                      \/ /\ noFreeSlot
                         /\ shared' = ReallocUndo(AppendLeaf(sh1, node, g, c, o), node, g, c)
        /\ pub' = NoPub
        /\ unsub' = NoUnsub
        /\ sub' = [client |-> c, filter |-> f, opts |-> o, protocol |-> proto, rc |-> "NoMem"]
        /\ UNCHANGED <<subs, idx, subsCount, subscriptionCount, sharedSubscriptionCount,
                       retained>>

-----------------------------------------------------------------------------
(***************************************************************************)
(* sub__remove.  Without the top-level entry nothing is touched, not even  *)
(* the reason code.  Otherwise the reason is set to "no subscription       *)
(* existed", sub__remove_recurse walks to the filter's node, removes the   *)
(* client's leaf if there is one (reason Success), and frees the nodes of  *)
(* the path that are left empty, deepest first.                            *)
(***************************************************************************)
(* The walk of sub__remove_recurse reaches node and the scan of the leaf   *)
(* list there finds c's leaf (compared by context pointer).               *)
HasLeaf(c, node, g) ==
    /\ node \in hier
    /\ IF g = NoGroup THEN subs[node][c] # NoLeaf
       ELSE g \in DOMAIN shared[node] /\ MemberIndex(shared[node][g], c) # 0

(* Mutant of RemoveNormal: the count is announced before the leaf is       *)
(* unlinked from branch->subs.                                             *)
RemoveNormalAnnounceFirst(c, node, out, ok) ==
    LET S2 == [subs EXCEPT ![node][c] = NoLeaf]
        sh2 == UpdateSubscribedTopics(hier, subs, shared, node, out, ok)
    IN  /\ HasLeaf(c, node, NoGroup)
        /\ subs' = S2
        /\ shared' = sh2
        /\ retained' = RetainSubscribedCount(retained, subs, node, ok)
        /\ idx' = [idx EXCEPT ![c] = DropRef(@, [hier |-> node, shared |-> NoGroup])]
        /\ subsCount' = [subsCount EXCEPT ![c] = @ - 1]
        /\ subscriptionCount' = subscriptionCount - 1
        /\ hier' = Prune(hier, S2, sh2, node)
        /\ UNCHANGED sharedSubscriptionCount

RemoveNormal(c, node, out, ok) ==
    LET S2 == [subs EXCEPT ![node][c] = NoLeaf]
        sh2 == UpdateSubscribedTopics(hier, S2, shared, node, out, ok)
    IN  /\ HasLeaf(c, node, NoGroup)
        /\ subs' = S2
        /\ shared' = sh2
        /\ retained' = RetainSubscribedCount(retained, S2, node, ok)
        /\ idx' = [idx EXCEPT ![c] = DropRef(@, [hier |-> node, shared |-> NoGroup])]
        /\ subsCount' = [subsCount EXCEPT ![c] = @ - 1]
        /\ subscriptionCount' = subscriptionCount - 1
        /\ hier' = Prune(hier, S2, sh2, node)
        /\ UNCHANGED sharedSubscriptionCount

RemoveShared(c, node, g) ==
    LET sh2 == RemoveSharedLeaf(shared, node, g, c)
    IN  /\ HasLeaf(c, node, g)
        /\ shared' = sh2
        /\ idx' = [idx EXCEPT ![c] = DropRef(@, [hier |-> node, shared |-> g])]
        /\ subsCount' = [subsCount EXCEPT ![c] = @ - 1]
        /\ sharedSubscriptionCount' = sharedSubscriptionCount - 1
        /\ hier' = Prune(hier, subs, sh2, node)
        /\ UNCHANGED <<subs, subscriptionCount, retained>>

(* Mutant of RemoveNone: db.subscription_count is decremented before the  *)
(* leaf scan instead of when the leaf is found.                            *)
RemoveNoneCountEarly(c, node, g) ==
    /\ ~HasLeaf(c, node, g)
    /\ hier' = Prune(hier, subs, shared, node)
    /\ subscriptionCount' = IF g = NoGroup THEN subscriptionCount - 1 ELSE subscriptionCount
    /\ UNCHANGED <<subs, shared, idx, subsCount, sharedSubscriptionCount, retained>>

(* sub__remove_recurse when the scan finds no leaf of the client: only the *)
(* path's empty nodes are freed.                                           *)
RemoveNone(c, node, g) ==
    /\ ~HasLeaf(c, node, g)
    /\ hier' = Prune(hier, subs, shared, node)
    /\ UNCHANGED <<subs, shared, idx, subsCount, subscriptionCount, sharedSubscriptionCount,
                   retained>>

Unsubscribe(c, f, reasonIn, out, ok) ==
    LET node == NodeOf(f)
        Found == IF f.share = NoGroup THEN RemoveNormal(c, node, out, ok)
                 ELSE RemoveShared(c, node, f.share)
    IN  /\ pub' = NoPub
        /\ sub' = NoSub
        /\ \/ /\ <<Head(node)>> \notin hier
              /\ unsub' = [client |-> c, filter |-> f, reason |-> reasonIn]
              /\ UNCHANGED <<hier, subs, shared, idx, subsCount, subscriptionCount,
                             sharedSubscriptionCount, retained>>
           \/ /\ <<Head(node)>> \in hier
              /\ Found
              /\ unsub' = [client |-> c, filter |-> f, reason |-> "Success"]
           \/ /\ <<Head(node)>> \in hier
              /\ RemoveNone(c, node, f.share)
              /\ unsub' = [client |-> c, filter |-> f, reason |-> "NoSubscriptionExisted"]

-----------------------------------------------------------------------------
(***************************************************************************)
(* sub__clean_session.  For each non-empty slot of context->subs in order: *)
(* find the client's leaf in the leaf's shared group or node list and      *)
(* unlink it (announcing a normal node's new count on $SYS), free the      *)
(* leaf, and if the node is now empty free it and every empty ancestor    *)
(* below the top level.  Then free the array.  The persistence plugin is   *)
(* told of each deletion; that has no effect on the engine.                *)
(***************************************************************************)
(* Mutant of CleanSlot: a shared leaf is unlinked without decrementing    *)
(* db.shared_subscription_count.                                          *)
CleanSlotNoSharedCount(c, st, r, out, ok) ==
    IF r = Null THEN st
    ELSE
    LET node == r.hier
        unlinked ==
            IF r.shared # NoGroup
            THEN IF r.shared \in DOMAIN st.sh[node]
                    /\ MemberIndex(st.sh[node][r.shared], c) # 0
                 THEN [st EXCEPT !.sh = RemoveSharedLeaf(st.sh, node, r.shared, c)]
                 ELSE st
            ELSE IF st.S[node][c] # NoLeaf
                 THEN LET S2 == [st.S EXCEPT ![node][c] = NoLeaf]
                      IN  [st EXCEPT !.S = S2, !.sc = @ - 1,
                                     !.sh = UpdateSubscribedTopics(st.H, S2, st.sh, node, out, ok),
                                     !.rt = RetainSubscribedCount(st.rt, S2, node, ok)]
                 ELSE st
    IN  IF NodeEmpty(unlinked.H, unlinked.S, unlinked.sh, node) /\ Len(node) >= 2
        THEN [unlinked EXCEPT !.H = CollapseUp(unlinked.H, unlinked.S, unlinked.sh, node)]
        ELSE unlinked

CleanSlot(c, st, r, out, ok) ==
    IF r = Null THEN st
    ELSE
    LET node == r.hier
        unlinked ==
            IF r.shared # NoGroup
            THEN IF r.shared \in DOMAIN st.sh[node]
                    /\ MemberIndex(st.sh[node][r.shared], c) # 0
                 THEN [st EXCEPT !.sh = RemoveSharedLeaf(st.sh, node, r.shared, c),
                                 !.ssc = @ - 1]
                 ELSE st
            ELSE IF st.S[node][c] # NoLeaf
                 THEN LET S2 == [st.S EXCEPT ![node][c] = NoLeaf]
                      IN  [st EXCEPT !.S = S2, !.sc = @ - 1,
                                     !.sh = UpdateSubscribedTopics(st.H, S2, st.sh, node, out, ok),
                                     !.rt = RetainSubscribedCount(st.rt, S2, node, ok)]
                 ELSE st
    IN  IF NodeEmpty(unlinked.H, unlinked.S, unlinked.sh, node) /\ Len(node) >= 2
        THEN [unlinked EXCEPT !.H = CollapseUp(unlinked.H, unlinked.S, unlinked.sh, node)]
        ELSE unlinked

CleanSession(c, out, oks) ==
    LET st == FoldLeft(LAMBDA acc, i : CleanSlot(c, acc, idx[c][i], out, oks[i]),
                       [H |-> hier, S |-> subs, sh |-> shared,
                        sc |-> subscriptionCount, ssc |-> sharedSubscriptionCount,
                        rt |-> retained],
                       [i \in 1..Len(idx[c]) |-> i])
    IN  /\ hier' = st.H
        /\ subs' = st.S
        /\ shared' = st.sh
        /\ subscriptionCount' = st.sc
        /\ sharedSubscriptionCount' = st.ssc
        /\ retained' = st.rt
        /\ idx' = [idx EXCEPT ![c] = <<>>]
        /\ subsCount' = [subsCount EXCEPT ![c] = 0]
        /\ pub' = NoPub
        /\ unsub' = NoUnsub
        /\ sub' = NoSub

-----------------------------------------------------------------------------
(* sub__messages_queue for a PUBLISH.  The retained-message store is       *)
(* outside the engine (retain__store); the messages queued are recorded.   *)
Publish(src, topic, qos, out) ==
    LET r == MessagesQueue(hier, subs, shared, src, topic, qos, out)
    IN  /\ shared' = r.sh
        /\ pub' = [src |-> src, topic |-> topic, qos |-> qos, out |-> out, dl |-> r.dl,
                   rc |-> r.rc]
        /\ unsub' = NoUnsub
        /\ sub' = NoSub
        /\ UNCHANGED <<hier, subs, idx, subsCount, subscriptionCount, sharedSubscriptionCount,
                       retained>>

Next ==
    \/ \E c \in Clients, f \in Filters, o \in Opts, p \in Protocols, out \in [Clients -> Outcomes],
          ok \in AnnounceResults : Subscribe(c, f, o, p, out, ok)
    \/ \E c \in Clients, f \in Filters, o \in Opts, p \in Protocols : SubscribeNoMem(c, f, o, p)
    \/ \E c \in Clients, f \in Filters, rin \in ReasonCodes, out \in [Clients -> Outcomes],
          ok \in AnnounceResults : Unsubscribe(c, f, rin, out, ok)
    \/ \E c \in Clients, out \in [Clients -> Outcomes] :
          \E oks \in [1..Len(idx[c]) -> AnnounceResults] : CleanSession(c, out, oks)
    \/ \E src \in Sources, t \in Topics, q \in PubQos, out \in [Clients -> Outcomes] :
          Publish(src, t, q, out)

Spec == Init /\ [][Next]_vars

-----------------------------------------------------------------------------
(***************************************************************************)
(* Properties.                                                             *)
(***************************************************************************)
Leaf == [client : Clients, opts : Opts]

TypeOK ==
    /\ hier \subseteq Nodes
    /\ subs \in [Nodes -> [Clients -> Opts \cup {NoLeaf}]]
    /\ DOMAIN shared = Nodes
    /\ \A n \in Nodes : DOMAIN shared[n] \subseteq Groups
                        /\ \A g \in DOMAIN shared[n] : shared[n][g] \in Seq(Leaf)
    /\ idx \in [Clients -> Seq(Refs \cup {Null})]
    /\ subsCount \in [Clients -> Nat]
    /\ subscriptionCount \in Nat /\ sharedSubscriptionCount \in Nat
    /\ retained \in [SysTopics -> STRING]

(* The leaves of client c that the trie holds, as (node, share name) refs. *)
LeavesOf(c) ==
    {[hier |-> n, shared |-> NoGroup] : n \in {x \in Nodes : subs[x][c] # NoLeaf}}
    \cup {[hier |-> x[1], shared |-> x[2]] :
            x \in {y \in Nodes \X Groups : /\ y[2] \in DOMAIN shared[y[1]]
                                           /\ MemberIndex(shared[y[1]][y[2]], c) # 0}}

Slots(c) == {i \in DOMAIN idx[c] : idx[c][i] # Null}

(* Spec section 3, invariants 2 and 3, across sub__add, sub__remove and    *)
(* sub__clean_session including their out-of-memory undo paths: every     *)
(* leaf is reachable exactly once from its client's context->subs array   *)
(* and from a live node, every array slot names a leaf that exists (so     *)
(* sub__clean_session never follows a dangling leaf, group or node),       *)
(* subs_count counts the used slots, and a client has at most one leaf in  *)
(* a shared group.                                                         *)
IndexConsistent ==
    /\ \A c \in Clients :
          /\ {idx[c][i] : i \in Slots(c)} = LeavesOf(c)
          /\ \A i, j \in Slots(c) : idx[c][i] = idx[c][j] => i = j
          /\ subsCount[c] = Cardinality(Slots(c))
          /\ \A r \in LeavesOf(c) : r.hier \in hier
    /\ \A n \in Nodes : \A g \in DOMAIN shared[n] :
          \A i, j \in DOMAIN shared[n][g] : shared[n][g][i].client = shared[n][g][j].client => i = j

(* Spec section 3, invariant 1, and the round-trip law of section 8: after *)
(* any sequence of subscribes, unsubscribes and session cleans every node  *)
(* below a top-level entry hangs from a live parent and holds a leaf, a    *)
(* shared group or a child, so the trie is exactly the paths of the live   *)
(* subscriptions.                                                          *)
TrieCanonical ==
    \A n \in hier : Len(n) >= 2 => /\ Parent(n) \in hier
                                   /\ ~NodeEmpty(hier, subs, shared, n)

(* Spec section 3, invariant 4: a share name stays in a node's hash only   *)
(* while its leaf list is non-empty, also when sub__add_shared undoes a    *)
(* failed leaf allocation or array growth for a group it just created.    *)
NoEmptySharedGroup ==
    \A n \in Nodes : \A g \in DOMAIN shared[n] : shared[n][g] # <<>>

(* The $SYS counters db.subscription_count and db.shared_subscription_count*)
(* equal the number of normal and shared leaves, whichever of sub__remove  *)
(* and sub__clean_session took each leaf away.                             *)
CountersMatch ==
    /\ subscriptionCount = Cardinality({x \in Nodes \X Clients : subs[x[1]][x[2]] # NoLeaf})
    /\ sharedSubscriptionCount =
          Cardinality({x \in Nodes \X Groups \X Clients :
                         x[2] \in DOMAIN shared[x[1]] /\ MemberIndex(shared[x[1]][x[2]], x[3]) # 0})

(* What spec sections 4.5, 4.6 and 8 say a publish does, from the filters  *)
(* themselves rather than the trie: every normal leaf whose filter matches *)
(* the topic and that no-local and the ACL let through gets exactly one    *)
(* message with QoS min(publish, subscription) (or the subscription's when *)
(* upgrade_outgoing_qos is set); every shared group whose filter matches   *)
(* sends to its head leaf, if the ACL lets it, and moves it to the tail;   *)
(* other groups keep their order.                                          *)
ExpectedDeliveries(p) ==
    LET Eff(o) == IF UpgradeOutgoingQos THEN o.qos ELSE Min({p.qos, o.qos})
        normal == {x \in Clients \X Filters :
                     LET c == x[1]  f == x[2]  o == subs[NodeOf(f)][c] IN
                     /\ f.share = NoGroup /\ o # NoLeaf
                     /\ TopicMatches(f.levels, p.topic)
                     /\ ~(o.nl /\ c = p.src)
                     /\ p.out[c] = "ok"}
        groups == {f \in Filters : /\ f.share # NoGroup
                                   /\ f.share \in DOMAIN shared[NodeOf(f)]
                                   /\ TopicMatches(f.levels, p.topic)}
        headOf(f) == Head(shared[NodeOf(f)][f.share])
    IN  {[client |-> x[1], hier |-> NodeOf(x[2]), shared |-> NoGroup,
          qos |-> Eff(subs[NodeOf(x[2])][x[1]])] : x \in normal}
        \cup {[client |-> headOf(f).client, hier |-> NodeOf(f), shared |-> f.share,
               qos |-> Eff(headOf(f).opts)] : f \in {y \in groups : p.out[headOf(y).client] = "ok"}}

ExpectedRotation(p) ==
    [n \in Nodes |->
        [g \in DOMAIN shared[n] |->
            IF \E f \in Filters : NodeOf(f) = n /\ f.share = g /\ TopicMatches(f.levels, p.topic)
            THEN Tail(shared[n][g]) \o <<Head(shared[n][g])>>
            ELSE shared[n][g]]]

(* sub__messages_queue (the recursive trie search of sub__search with its  *)
(* literal, '+' and '#' branches, subs__process and the shared rotation)   *)
(* queues exactly the messages and makes exactly the rotations above.      *)
PublishMatchesFilters ==
    [][pub' # NoPub => /\ pub'.dl = SetToBag(ExpectedDeliveries(pub'))
                       /\ shared' = ExpectedRotation(pub')]_vars

(* The refinement mapping: a normal filter's subscriptions are the normal  *)
(* leaves at its node, a shared filter's queue is its group's leaf list at *)
(* its node (empty when the group is not in the hash).                     *)
Abs == INSTANCE SubsAbstract WITH
    subscribed <- [f \in {x \in Filters : x.share = NoGroup} |-> subs[NodeOf(f)]],
    queue <- [f \in {x \in Filters : x.share # NoGroup} |->
                 IF f.share \in DOMAIN shared[NodeOf(f)] THEN shared[NodeOf(f)][f.share]
                 ELSE <<>>]

(* sub__add, sub__remove, sub__clean_session and sub__messages_queue,      *)
(* including the out-of-memory paths, the nested $SYS publishes and the    *)
(* pruning of the trie, implement the abstract engine: every step is one  *)
(* of its steps or leaves its subscriptions and queues unchanged.          *)
AbsSpec == Abs!Spec

(* The subscriptions of the trie before a publish whose filter matches its *)
(* topic: normal ones by client, shared ones by group.                     *)
MatchingSubscriptions(p) ==
    {f \in Filters :
        /\ TopicMatches(f.levels, p.topic)
        /\ IF f.share = NoGroup THEN HasNormal(subs, NodeOf(f))
           ELSE f.share \in DOMAIN shared[NodeOf(f)]}

(* When sub__messages_queue returns MOSQ_ERR_NO_SUBSCRIBERS (which the     *)
(* protocol layer turns into "no matching subscribers"), no subscription   *)
(* matched the topic: have_subscribers in sub__search and the final test   *)
(* of subs__process never miss a node's normal or shared leaves.           *)
NoSubscribersSound ==
    [][pub' # NoPub /\ pub'.rc = "NoSubscribers" => MatchingSubscriptions(pub') = {}]_vars

(* Spec section 4.5: unless delivery failed, the matcher returns Success   *)
(* if at least one deliverable subscriber was found (a matching shared     *)
(* group, or a matching normal leaf that no-local does not exclude) and   *)
(* NoSubscribers otherwise.                                                *)
PublishResultAsSpecified ==
    [][pub' # NoPub /\ pub'.rc # "Error" =>
         (pub'.rc = "Success"
            <=> \E f \in MatchingSubscriptions(pub') :
                  \/ f.share # NoGroup
                  \/ \E c \in Clients : /\ subs[NodeOf(f)][c] # NoLeaf
                                       /\ ~(subs[NodeOf(f)][c].nl /\ c = pub'.src))]_vars

(* A step that is a publish of a topic shared filter f matches.            *)
MatchingPublish(f) == pub' # NoPub /\ TopicMatches(f.levels, pub'.topic)

InGroup(c, f) ==
    f.share \in DOMAIN shared[NodeOf(f)] /\ MemberIndex(shared[NodeOf(f)][f.share], c) # 0

AtHead(c, f) ==
    f.share \in DOMAIN shared[NodeOf(f)] /\ Head(shared[NodeOf(f)][f.share]).client = c

(* Stable rotation (spec section 4.6) starves no member of a group:        *)
(* subs__shared_process moves the head to the tail whatever the ACL check  *)
(* and the queueing answered, and subscribes append behind the members     *)
(* already there.  So while publishes the group matches keep coming (an    *)
(* assumption on the publishing clients, which the engine cannot give)     *)
(* and c stays in the group, c reaches the head of the group again and     *)
(* again, whatever the other clients subscribe, leave or are denied.       *)
SharedRotationLive ==
    \A c \in Clients, f \in {x \in Filters : x.share # NoGroup} :
        []<><<MatchingPublish(f)>>_vars /\ <>[]InGroup(c, f) => []<>AtHead(c, f)

(* Spec section 4.4: sub__remove sets the reason code to Success exactly   *)
(* when the client had that subscription, and to "no subscription existed" *)
(* otherwise.                                                              *)
UnsubscribeReason ==
    [][unsub' # NoUnsub =>
         (unsub'.reason = "Success"
            <=> [hier |-> NodeOf(unsub'.filter), shared |-> unsub'.filter.share]
                  \in LeavesOf(unsub'.client))]_vars


(* Spec section 6: the subscriber count of a normal subscription's node is *)
(* published by sub__update_subscribed_topics under                        *)
(* $SYS/broker/subscribed_topics/<the filter>, the path that               *)
(* sub__build_full_topic rebuilds from the node's ancestors.               *)
SubscribedTopicsNamed ==
    \A f \in Filters :
        (f.share = NoGroup /\ HasNormal(subs, NodeOf(f)))
            => SysTopicOf(NodeOf(f)) = <<"$SYS", "broker", "subscribed_topics">> \o f.levels

(* The length arithmetic of sub__build_full_topic: for every node of the   *)
(* trie, the buffer the top frame mallocs from the lengths summed on the   *)
(* way up is large enough for every snprintf of the frames below it (no    *)
(* byte is written past it, and it holds a NUL), and the string it holds   *)
(* is the levels of the recursion joined by '/', so the announcement's     *)
(* topic (pub_topic, sized by strlen of this buffer) is SysTopicOf.        *)
FullTopicFits ==
    \A n \in hier :
        LET tb == TopicBuffer(n, 0)
        IN  /\ ~tb.ovf
            /\ \E i \in DOMAIN tb.buf : tb.buf[i] = NUL
            /\ CString(tb.buf) = JoinedBytes(BuildFullTopic(n))

(* The retained $SYS/broker/subscribed_topics/<path> message of a filter's *)
(* node always carries the number of normal leaves now at that node (spec  *)
(* section 6: updated whenever a normal leaf is added or removed there).   *)
(* sub__update_subscribed_topics counts branch->subs when it is called, so *)
(* this holds only if every caller (sub__add_leaf, sub__remove_recurse,    *)
(* sub__clean_session's loop) announces after linking or unlinking, and    *)
(* across clients, resubscriptions with new options and session cleanups   *)
(* that unlink several leaves of one node in turn.                          *)
RetainedCountCurrent ==
    \A f \in {x \in Filters : x.share = NoGroup} :
        LET n == NodeOf(f)
            r == retained[SysTopicOf(n)]
        IN  IF r = NoRetained THEN LeafCount(subs, n) = 0
            ELSE r = Payload(LeafCount(subs, n))


=============================================================================
