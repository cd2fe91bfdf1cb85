----------------------------- MODULE SubsTopic -----------------------------
(***************************************************************************)
(* Topic levels as the subscription engine of src/src/subs.c sees them.    *)
(*                                                                         *)
(* A filter or a topic is a sequence of levels; a level is a string.  The  *)
(* tokenizer (sub__topic_tokenise) is not in src/, so Tokenise is written  *)
(* from the spec (sections 3, 4.1 and 4.5): a topic that does not start    *)
(* with '$' is hung below the root level "", a '$' topic starts at its own *)
(* first level, which is how root-level wildcards never see '$' topics.    *)
(* The $share/<group>/ prefix is carried separately as the filter's share  *)
(* name.                                                                   *)
(***************************************************************************)
EXTENDS Naturals, Sequences, SequencesExt

CONSTANT DollarLevels   \* the levels of the model that begin with '$'

ASSUME "$SYS" \in DollarLevels /\ "+" \notin DollarLevels /\ "#" \notin DollarLevels

(* sub__topic_tokenise: the token array handed to sub__add, sub__remove    *)
(* and sub__messages_queue.                                                *)
Tokenise(levels) ==
    IF Head(levels) \in DollarLevels THEN levels ELSE <<"">> \o levels

(* The trie node a token array ends at.  sub__add looks up topics[0] in    *)
(* db.subs and sub__add_context then walks topics[0], topics[1], ... from  *)
(* that entry, so the first token is both the top-level entry and its      *)
(* first child.  A node is identified by its path from the top level.      *)
NodeOfTokens(tokens) == <<Head(tokens)>> \o tokens

(* The level a node stands for (subhier->topic) and its parent.            *)
NodeTopic(node) == Last(node)
Parent(node) == Front(node)

(* sub__build_full_topic: the topic path that sub__update_subscribed_topics*)
(* publishes the subscriber count of a node under.  The recursion climbs   *)
(* while the parent's topic is non-empty; the frame that stops writes its  *)
(* own topic first, every frame below appends "/" and its topic.  At level *)
(* granularity the buffer holds the levels from the stopping node down.    *)
RECURSIVE BuildFullTopic(_)
BuildFullTopic(node) ==
    IF Len(node) > 1 /\ NodeTopic(Parent(node)) # ""
    THEN BuildFullTopic(Parent(node)) \o <<NodeTopic(node)>>
    ELSE <<NodeTopic(node)>>

(***************************************************************************)
(* sub__build_full_topic at byte level: the buffer it allocates and the    *)
(* snprintf calls that fill it.  A byte is a one-character string.         *)
(***************************************************************************)
Bytes(str) == [i \in 1..Len(str) |-> SubSeq(str, i, i)]
NUL == "<NUL>"
Uninit == "<uninit>"     \* a byte of malloc'd memory not written yet

(* Stands for SIZE_MAX: len - pos in size_t when pos > len.  It is only    *)
(* compared with the lengths of level strings.                             *)
SizeMax == 2^30
SizeSub(a, b) == IF a >= b THEN a - b ELSE SizeMax

(* snprintf(buf + pos, size, ..., str): at most size - 1 bytes of str and  *)
(* a terminating NUL, nothing when size is 0.  ovf: a byte was written     *)
(* past the end of the allocation.                                         *)
Snprintf(buf, pos, size, str) ==
    LET n == IF size = 0 THEN 0 ELSE IF Len(str) < size THEN Len(str) ELSE size - 1
        written == IF size = 0 THEN {} ELSE pos + 1 .. pos + n + 1
    IN  [buf |-> [i \in DOMAIN buf |-> IF i \in pos + 1 .. pos + n THEN str[i - pos]
                                      ELSE IF i = pos + n + 1 /\ size > 0 THEN NUL
                                      ELSE buf[i]],
         ovf |-> \E i \in written : i > Len(buf)]

(* Mutant of MyLength: the separator's byte is not counted.               *)
MyLengthNoSep(node) == Len(NodeTopic(node))

(* my_length: the bytes a level takes in the buffer, its '/' or NUL        *)
(* included.                                                               *)
MyLength(node) == Len(NodeTopic(node)) + 1

(* sub__build_full_topic(branch, len) when both mallocs succeed: the       *)
(* topic_buffer's bytes, len and pos, and whether a write overflowed.      *)
RECURSIVE TopicBuffer(_, _)
TopicBuffer(node, len) ==
    IF Len(node) > 1 /\ Len(NodeTopic(Parent(node))) > 0
    THEN LET tb == TopicBuffer(Parent(node), len + MyLength(node))
             fmt == IF len = 0 THEN Bytes(NodeTopic(node))
                    ELSE Bytes(NodeTopic(node)) \o <<"/">>
             w == Snprintf(tb.buf, tb.pos, SizeSub(tb.len, tb.pos), fmt)
         IN  [tb EXCEPT !.buf = w.buf, !.pos = @ + MyLength(node), !.ovf = @ \/ w.ovf]
    ELSE LET size == len + MyLength(node)
             fmt == Bytes(NodeTopic(node)) \o <<"/">>
             w == Snprintf([i \in 1..size |-> IF i = 1 THEN NUL ELSE Uninit], 0, size, fmt)
         IN  [buf |-> w.buf, len |-> size, pos |-> Len(fmt), ovf |-> w.ovf]

(* The C string a buffer holds, and the levels joined by '/' as bytes.     *)
CString(buf) == SubSeq(buf, 1, SelectInSeq(buf, LAMBDA b : b = NUL) - 1)

JoinedBytes(levels) ==
    FoldLeft(LAMBDA acc, l : acc \o <<"/">> \o Bytes(l), Bytes(Head(levels)), Tail(levels))

(* The topic sub__update_subscribed_topics publishes to, already split.    *)
SysTopicOf(node) ==
    <<"$SYS", "broker", "subscribed_topics">> \o BuildFullTopic(node)

-----------------------------------------------------------------------------
(***************************************************************************)
(* Reference semantics of MQTT topic matching, written from the comment at *)
(* the top of subs.c and from spec sections 4.5 and 8: '+' matches exactly *)
(* one level, '#' (last level only) matches the rest including nothing,    *)
(* and a topic whose first level begins with '$' is never matched by a     *)
(* filter whose first level is a wildcard.                                 *)
(***************************************************************************)
RECURSIVE LevelsMatch(_, _)
LevelsMatch(filter, topic) ==
    CASE filter = <<>>       -> topic = <<>>
      [] Head(filter) = "#" -> TRUE
      [] OTHER              -> /\ topic # <<>>
                               /\ Head(filter) \in {"+", Head(topic)}
                               /\ LevelsMatch(Tail(filter), Tail(topic))

TopicMatches(filter, topic) ==
    /\ LevelsMatch(filter, topic)
    /\ ~(Head(topic) \in DollarLevels /\ Head(filter) \in {"+", "#"})

=============================================================================
