------------------------------- MODULE MCSubs -------------------------------
(***************************************************************************)
(* Model-checking instances of Subs.  Filters and topics are chosen so    *)
(* that every branch of sub__search meets a node: a literal level, a '+'   *)
(* level, a '#' at the root and below a level, a shared group on a literal *)
(* filter, and a '$SYS' topic that root wildcards must not see.            *)
(***************************************************************************)
EXTENDS Subs, TLC

CONSTANTS c1, c2

MCClients == {c1, c2}
MCGroups == {"g"}
MCOpts == {[qos |-> 1, nl |-> TRUE]}
MCPubQos == {0, 2}
MCProtocols == {"mqtt31", "mqtt311", "mqtt5"}
MCDollarLevels == {"$SYS"}
MCSources == {c1, c2, Broker}

Normal(levels) == [share |-> NoGroup, levels |-> levels]
Share(g, levels) == [share |-> g, levels |-> levels]

(* a/+, #, $share/g/a/b *)
MCFilters == {Normal(<<"a", "+">>), Normal(<<"#">>), Share("g", <<"a", "b">>)}

(* a/b, a, $SYS/b *)
MCTopics == {<<"a", "b">>, <<"a">>, <<"$SYS", "b">>}

(* Both option values: an update in place on resubscribe, and no-local on *)
(* and off.                                                                *)
MCOpts2 == {[qos |-> 1, nl |-> TRUE], [qos |-> 0, nl |-> FALSE]}

(* $share/g/$SYS/#, a: every new or removed normal leaf on a publishes its *)
(* count on $SYS/broker/subscribed_topics/a, which rotates the $SYS group. *)
MCFiltersSys == {Share("g", <<"$SYS", "#">>), Normal(<<"a">>)}
(* Refinement: a shared group and a normal subscription on the same node, *)
(* and a group on $SYS/# that the announcements of the normal one rotate.  *)
MCFiltersRefine == {Share("g", <<"$SYS", "#">>), Normal(<<"a">>), Share("g", <<"a">>)}

MCTopicsSys == {<<"$SYS", "b">>, <<"a">>}

(* $SYS/#, a//b, a/+: filters whose $SYS topic path is rebuilt wrongly    *)
(* and one whose path is rebuilt right.                                    *)
MCFiltersPath == {Normal(<<"$SYS", "#">>), Normal(<<"a", "", "b">>), Normal(<<"a", "+">>)}

(* A publish without a source id (source_id == NULL) as well as one with. *)
MCSourcesNull == {c1, c2, NoSource}

(* One publishing client: the liveness run keeps the history variable pub *)
(* in the state, so every source multiplies the states.                    *)
MCSourcesFair == {c1}

(* The state without the history variables pub, unsub and sub: no action *)
(* reads them, and the action properties read only their primed values.  *)
EngineView == <<hier, subs, shared, idx, subsCount, subscriptionCount, sharedSubscriptionCount,
               retained>>

(* Two clients: their ids are interchangeable. *)
ClientSymmetry == Permutations(MCClients)

=============================================================================
