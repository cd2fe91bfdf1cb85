----------------------------- MODULE SubsSearch -----------------------------
(***************************************************************************)
(* The publish matcher of src/src/subs.c: sub__search, subs__process,      *)
(* subs__shared_process and subs__send.  The operators take the trie as    *)
(* arguments, so that Subs can run them for a client PUBLISH and for the   *)
(* $SYS publish that sub__update_subscribed_topics makes in the middle of  *)
(* a subscribe, an unsubscribe or a session clean.                         *)
(*                                                                         *)
(* The trie is three values:                                               *)
(*   H  : the set of nodes (paths from a top-level entry of db.subs);      *)
(*   S  : S[node][client] is that client's normal leaf options, or NoLeaf; *)
(*   sh : sh[node] maps each share name in the node's hash to its leaf     *)
(*        list, a sequence of [client, opts] in DL list order.             *)
(***************************************************************************)
EXTENDS SubsTopic, Bags

CONSTANTS
    Clients,            \* client contexts (all have an id)
    Broker,             \* source id of a message the broker makes itself
    NoSource,           \* source_id == NULL
    NoGroup,            \* leaf->shared == NULL
    NoLeaf,             \* no normal leaf of this client at this node
    UpgradeOutgoingQos  \* db.config->upgrade_outgoing_qos

(* The outcome of one subs__send for a client: mosquitto_acl_check allows  *)
(* and db__message_insert_outgoing queues it ("ok"), the ACL denies it     *)
(* ("deny"), or the ACL check or the queueing fails ("err").               *)
SendOutcomes == {"ok", "deny", "err"}

(* HASH_FIND of a child level. *)
Child(node, level) == Append(node, level)

HasChildren(H, node) == \E n \in H : Len(n) = Len(node) + 1 /\ Parent(n) = node

(* subs__send: the QoS the message is queued with. *)
MsgQos(qos, clientQos) ==
    IF UpgradeOutgoingQos THEN clientQos
    ELSE IF qos > clientQos THEN clientQos ELSE qos

(* One queued message, as db__message_insert_outgoing receives it. *)
Delivery(c, node, group, qos, opts) ==
    [client |-> c, hier |-> node, shared |-> group, qos |-> MsgQos(qos, opts.qos)]

(***************************************************************************)
(* sub__search: the nodes whose leaves are processed, in the order the     *)
(* recursion processes them.  At each node: the literal child (recursing   *)
(* first, then processing the child itself if the topic ends there), the   *)
(* '+' child likewise, and finally a childless '#' child.                  *)
(***************************************************************************)
(* Mutant of Search: the '+' branch is recursed into but never processed *)
(* itself when the topic ends there.                                       *)
RECURSIVE SearchPlusNotProcessed(_, _, _)
SearchPlusNotProcessed(H, node, tokens) ==
    LET Branch(b, last) ==
            IF b \in H
            THEN SearchPlusNotProcessed(H, b, Tail(tokens))
                 \o (IF last /\ Len(tokens) = 1 THEN <<b>> ELSE <<>>)
            ELSE <<>>
        hash == Child(node, "#")
    IN  (IF tokens # <<>>
         THEN Branch(Child(node, Head(tokens)), TRUE) \o Branch(Child(node, "+"), FALSE)
         ELSE <<>>)
        \o (IF hash \in H /\ ~HasChildren(H, hash) THEN <<hash>> ELSE <<>>)

RECURSIVE Search(_, _, _)
Search(H, node, tokens) ==
    LET Branch(b) ==
            IF b \in H
            THEN Search(H, b, Tail(tokens)) \o (IF Len(tokens) = 1 THEN <<b>> ELSE <<>>)
            ELSE <<>>
        hash == Child(node, "#")
    IN  (IF tokens # <<>>
         THEN Branch(Child(node, Head(tokens))) \o Branch(Child(node, "+"))
         ELSE <<>>)
        \o (IF hash \in H /\ ~HasChildren(H, hash) THEN <<hash>> ELSE <<>>)

(* Mutant of SharedProcess: the head leaf is moved to the tail before the  *)
(* send, so the message goes to the second leaf of the group.              *)
SharedProcessRotateFirst(sh, node, qos, out) ==
    LET groups == DOMAIN sh[node]
        rot == [g \in groups |-> Tail(sh[node][g]) \o <<Head(sh[node][g])>>]
        head(g) == Head(rot[g])
    IN  [sh  |-> [sh EXCEPT ![node] = rot],
         dl  |-> {Delivery(head(g).client, node, g, qos, head(g).opts) :
                    g \in {x \in groups : out[head(x).client] = "ok"}},
         err |-> \E g \in groups : out[head(g).client] = "err"]

(* Mutant of SharedProcess: the head is moved to the tail only when the    *)
(* message was queued for it, so a denied head keeps its turn.             *)
SharedProcessRotateOnSend(sh, node, qos, out) ==
    LET groups == DOMAIN sh[node]
        head(g) == Head(sh[node][g])
        sent == {x \in groups : out[head(x).client] = "ok"}
    IN  [sh  |-> [sh EXCEPT ![node] = [g \in groups |->
                    IF g \in sent THEN Tail(sh[node][g]) \o <<head(g)>> ELSE sh[node][g]]],
         dl  |-> {Delivery(head(g).client, node, g, qos, head(g).opts) : g \in sent},
         err |-> \E g \in groups : out[head(g).client] = "err"]

(* subs__shared_process: every shared group of the node sends to its head  *)
(* leaf and then moves that leaf to the tail, whatever the send returned.  *)
SharedProcess(sh, node, qos, out) ==
    LET groups == DOMAIN sh[node]
        head(g) == Head(sh[node][g])
    IN  [sh  |-> [sh EXCEPT ![node] = [g \in groups |-> Tail(sh[node][g]) \o <<head(g)>>]],
         dl  |-> {Delivery(head(g).client, node, g, qos, head(g).opts) :
                    g \in {x \in groups : out[head(x).client] = "ok"}},
         err |-> \E g \in groups : out[head(g).client] = "err"]

(* The normal-leaf loop of subs__process: it runs only while source_id is  *)
(* non-NULL and skips a leaf whose no-local option is set when the source  *)
(* is that client.                                                          *)
NormalProcess(S, node, src, qos, out) ==
    LET targets == IF src = NoSource THEN {}
                   ELSE {c \in Clients : S[node][c] # NoLeaf /\ ~(S[node][c].nl /\ c = src)}
    IN  [dl  |-> {Delivery(c, node, NoGroup, qos, S[node][c]) : c \in {x \in targets : out[x] = "ok"}},
         err |-> \E c \in targets : out[c] = "err"]

(* Mutant of ProcessNode: the final test looks at hier->subs only, so a    *)
(* node with only shared groups reports no subscribers.                    *)
ProcessNodeNormalOnly(S, sh, node, src, qos, out) ==
    LET a == SharedProcess(sh, node, qos, out)
        b == NormalProcess(S, node, src, qos, out)
    IN  [sh   |-> a.sh, dl |-> SetToBag(a.dl \cup b.dl), err |-> a.err \/ b.err,
         have |-> \E c \in Clients : S[node][c] # NoLeaf]

(* subs__process at one node: shared groups first, then the normal leaves. *)
(* No send error stops the node; the result says whether one happened, and *)
(* whether the node has any leaf at all (else MOSQ_ERR_NO_SUBSCRIBERS),    *)
(* whatever was sent.                                                      *)
ProcessNode(S, sh, node, src, qos, out) ==
    LET a == SharedProcess(sh, node, qos, out)
        b == NormalProcess(S, node, src, qos, out)
    IN  [sh   |-> a.sh, dl |-> SetToBag(a.dl \cup b.dl), err |-> a.err \/ b.err,
         have |-> DOMAIN sh[node] # {} \/ \E c \in Clients : S[node][c] # NoLeaf]

(* Mutant of Dispatch: MOSQ_ERR_NO_SUBSCRIBERS from a node without leaves  *)
(* is taken for an error and ends the search.                              *)
RECURSIVE DispatchStopOnEmpty(_, _, _, _, _, _, _)
DispatchStopOnEmpty(S, sh, nodes, src, qos, out, acc) ==
    IF nodes = <<>> THEN [sh |-> sh, dl |-> acc, err |-> FALSE, have |-> FALSE]
    ELSE LET r == ProcessNode(S, sh, Head(nodes), src, qos, out)
         IN  IF r.err \/ ~r.have
             THEN [sh |-> r.sh, dl |-> acc (+) r.dl, err |-> TRUE, have |-> r.have]
             ELSE LET rest == DispatchStopOnEmpty(S, r.sh, Tail(nodes), src, qos, out, acc (+) r.dl)
                  IN  [rest EXCEPT !.have = TRUE]

(* sub__search returns at once when a processed node reports an error, so  *)
(* no later node in the order is processed; otherwise have_subscribers     *)
(* records whether any processed node had a leaf.                          *)
RECURSIVE Dispatch(_, _, _, _, _, _, _)
Dispatch(S, sh, nodes, src, qos, out, acc) ==
    IF nodes = <<>> THEN [sh |-> sh, dl |-> acc, err |-> FALSE, have |-> FALSE]
    ELSE LET r == ProcessNode(S, sh, Head(nodes), src, qos, out)
         IN  IF r.err THEN [sh |-> r.sh, dl |-> acc (+) r.dl, err |-> TRUE, have |-> r.have]
             ELSE LET rest == Dispatch(S, r.sh, Tail(nodes), src, qos, out, acc (+) r.dl)
                  IN  [rest EXCEPT !.have = @ \/ r.have]

(* sub__messages_queue for a topic: tokenise, find the top-level entry,    *)
(* search below it.  The result is the new shared lists, the messages      *)
(* queued and the return code.  rc starts as MOSQ_ERR_SUCCESS and is only  *)
(* replaced by sub__search's, so a topic without a top-level entry gives   *)
(* Success.                                                                *)
MessagesQueue(H, S, sh, src, topic, qos, out) ==
    LET tokens == Tokenise(topic)
        top == <<Head(tokens)>>
        d == Dispatch(S, sh, Search(H, top, tokens), src, qos, out, EmptyBag)
    IN  IF top \in H
        THEN [sh |-> d.sh, dl |-> d.dl,
              rc |-> IF d.err THEN "Error" ELSE IF d.have THEN "Success" ELSE "NoSubscribers"]
        ELSE [sh |-> sh, dl |-> EmptyBag, rc |-> "Success"]

=============================================================================
