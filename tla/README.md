# TLA+ models of the mosquitto subscription engine (`src/src/subs.c`)

This directory models the topic subscription engine of the broker. The engine's parts are:

- the subscription trie `db.subs`;
- the leaves hung at its nodes;
- the per-client index of those leaves;
- the publish matcher, with its shared-subscription dispatcher;
- session cleanup;
- the `$SYS/broker/subscribed_topics` announcer.

The modules model these parts, and TLC checks the properties below over every interleaving of the engine's entry points.

## 1. The system

| part (spec §2) | code | state | operations |
|---|---|---|---|
| tokenizer | `sub__topic_tokenise` (not in `src/`) | none | split a filter or topic; non-`$` topics get the root level `""` |
| trie | `sub__add_hier_entry`, the walk in `sub__add`/`sub__add_context` | `db.subs`, `children`, `parent` | create path nodes; free empty nodes |
| leaves | `sub__add_leaf`, `sub__add_normal`, `sub__add_shared`, `sub__remove_shared_leaf` | `hier->subs` list, `hier->shared` hash of leaf lists | add or update a leaf, unlink a leaf, drop an empty group |
| client index | the same functions | `context->subs[]`, `subs_count`, `subs_capacity` | fill the first hole or grow by one; free a slot |
| subscribe / unsubscribe | `sub__add`, `sub__remove`, `sub__remove_recurse`, `sub__remove_normal`, `sub__remove_shared` | all of the above, `*reason` | |
| matcher | `sub__messages_queue`, `sub__search`, `subs__process`, `subs__send` | none of its own | literal, `+` and `#` descent; no-local; ACL; QoS |
| shared dispatcher | `subs__shared_process` | order of each group's list | send to the head, rotate it to the tail |
| session cleanup | `sub__clean_session`, `tmp_remove_subs` | all of the above | unlink every leaf of a client, collapse empty ancestors |
| `$SYS` announcer | `sub__update_subscribed_topics`, `sub__build_full_topic` | none (it publishes) | counts the node's normal leaves, builds a topic path, and publishes the count, retained, through the matcher |
| `sub__tree_print` | | none | output only |

**How the parts interact.** Each of the four entry points runs to completion on the broker's single engine thread (spec §5). There is one place where the engine re-enters itself:

- a normal leaf added in `sub__add_normal`, or removed in `sub__remove_normal` or `sub__clean_session`, triggers `sub__update_subscribed_topics`;
- that call publishes through `db__messages_easy_queue`, which comes back into `sub__messages_queue` on the same trie;
- the nested publish rotates every `$SYS` shared group it matches while the outer operation is half done.

**What is hard to test** (the `hazards` of `PROJECT.json`):

- out-of-memory paths at five points of `sub__add`, each with a different undo or none;
- the early return of `sub__search` on a delivery error;
- shared rotation on denial;
- the re-entrant `$SYS` publish;
- `sub__clean_session` walking slots whose nodes earlier slots may have freed;
- the arithmetic of `sub__build_full_topic`;
- the reason code of an unsubscribe under a missing root;
- a NULL `source_id`;
- the result code of a publish (`NoSubscribers` versus `Success`);
- an allocation failure inside the `$SYS` announcement, which every caller ignores;
- the retained `$SYS` count, read from `branch->subs` whenever a caller announces;
- starvation of a shared-group member by the other members' churn or ACL denials.

## 2. Modules

- **`SubsTopic`**: levels and node paths.
  - `TopicBuffer` is `sub__build_full_topic` at byte level: the buffer the top frame mallocs, the `snprintf` calls (`Snprintf`, which truncates to the size given and writes the NUL), and the `size_t` subtraction `len - pos` (`SizeSub`).
  - `Tokenise` is written from the spec (§3, §4.1), because the tokenizer is not under `src/`.
  - `NodeOfTokens` reproduces how `sub__add` looks up `topics[0]` in `db.subs` and then walks `topics[0]` again from that entry. A node is therefore `<<Head(tokens)>> \o tokens`: for example `a/b` is the node `<<"", "", "a", "b">>`, and `$SYS/#` is `<<"$SYS", "$SYS", "#">>`.
  - `BuildFullTopic` is the recursion of `sub__build_full_topic` at level granularity.
  - `LevelsMatch` and `TopicMatches` are the reference semantics of MQTT matching. The properties use them; they do not model code.
- **`SubsSearch`**: the matcher as operators over a trie value `(H, S, sh)`, so that it can be run both for a PUBLISH and for the nested `$SYS` publish.
  - `Search` lists the processed nodes in the order of `sub__search`'s recursion.
  - `SharedProcess` and `NormalProcess` are the two halves of `subs__process`, and `ProcessNode` combines them.
  - `Dispatch` processes the nodes and stops after the first node that reports an error.
  - `MessagesQueue` is `sub__messages_queue`, with its return code. The code returns `Error` when a send failed, and `Success` when some processed node had any leaf. It returns `NoSubscribers` otherwise, but `Success` when the topic has no top-level entry.
- **`Subs`**: the engine. Its variables are:

  | variable | in the code |
  |---|---|
  | `hier` | the set of live nodes |
  | `subs[node][c]` | c's normal leaf options, or `NoLeaf` |
  | `shared[node]` | share name to leaf list, in DL order |
  | `idx[c]` | `context->subs`, with `Null` for an empty slot; its length is `subs_capacity` |
  | `subsCount` | `subs_count` |
  | `subscriptionCount`, `sharedSubscriptionCount` | the two `$SYS` counters |
  | `retained[t]` | the retained message the store keeps for each `$SYS/broker/subscribed_topics` topic `t`: the payload string `snprintf` wrote for the count, or `NoRetained` before the first announcement |
  | `pub`, `unsub`, `sub` | the inputs and outputs of the last publish, unsubscribe or subscribe, recorded for the action properties (`sub` holds what `sub__add` returned) |

  Its actions, one per entry point and each the whole function:
  - `Subscribe` is `sub__add` when every allocation succeeds. Its result, `AddResult`, is `SubExists` for a resubscription under MQTT 3.1 or 5 and `Success` otherwise; the protocol version is an input, since a client may reconnect with another one.
  - `SubscribeNoMem` is `sub__add` when an allocation fails, returning `NoMem`. It covers a path node, the group `calloc`, the leaf `calloc`, and the `realloc` of `context->subs`, each with the code's own undo.
  - `Unsubscribe` is `sub__remove` with its three outcomes: no top-level entry, leaf found, and leaf not found.
  - `CleanSession` is `sub__clean_session`, a `FoldLeft` of `CleanSlot` over the slot array.
  - `Publish` is `sub__messages_queue`.

  `UpdateSubscribedTopics` is `sub__update_subscribed_topics`. It counts the node's normal leaves (`LeafCount`, the loop over `branch->subs`), formats the count as `snprintf(payload_buf, 10, "%u", count)` does (`Payload`), runs the nested publish through the matcher, and `RetainSubscribedCount` stores the message as that topic's retained message. This is what `sub__messages_queue` does for a publish with `retain` set (lines 639-642). The callers announce after linking or unlinking the leaf.

  The announcing actions take an input `ok`, or `oks` with one value per slot for a clean. It is `FALSE` when an allocation of the `$SYS` announcement fails. That is possible only when `AnnounceFail` is true; `AllocFail` covers the allocations of `sub__add` itself.

  The ACL and queueing results of `subs__send` are an input `out \in [Clients -> {"ok","deny","err"}]`. `"err"` is allowed only when `SendErrors` is true.
- **`SubsAbstract`**: what the engine promises, written from the spec with no trie and no index.
  - `subscribed[f][c]` holds the options of each normal subscription.
  - `queue[f]` is the member queue of each shared filter.
  - A publish rotates every matching non-empty queue.
  - A normal subscribe or unsubscribe announces on `$SYS/broker/subscribed_topics/<filter>`, and that announcement rotates the queues it matches.
  - A clean drops the client's subscriptions in any order.

  `Subs` maps onto it by `Abs == INSTANCE SubsAbstract WITH subscribed <- ..., queue <- ...`, and `AbsSpec == Abs!Spec` is checked as a property. Under this mapping the out-of-memory paths of `sub__add` and the pruning of nodes are stuttering steps.
- **`MCSubs`**: instantiates `Subs` for TLC.
  - It has two clients as model values, with `SYMMETRY` over them. This is sound because every set the spec enumerates treats the two alike: the publishing sources are `{c1, c2, Broker}` (and `{c1, c2, NoSource}` in run `nosource`), so swapping the clients maps every step to a step. The fair run, whose sources are `{c1}` only, uses no symmetry.
  - `VIEW EngineView` leaves out `pub`, `unsub` and `sub`. It keeps `retained`, which an invariant reads. No action reads them, and the action properties read only their primed values.

`Subs` and `SubsSearch` also define a few operators named `...Keep`, `...Forget`, `...NoDedup` and the like. Each is a mutant, a variant of the definition that follows it with a plausible coding error. Each one is used only to confirm that a property can detect that error.

## 3. Runs

| run | cfg | what it checks | result |
|---|---|---|---|
| core | `MCSubs.cfg` | `TypeOK`, `IndexConsistent`, `TrieCanonical`, `CountersMatch`, `RetainedCountCurrent`, `PublishMatchesFilters`, `NoSubscribersSound` | passes (3 791 distinct states) |
| nomem | `MCSubs_nomem.cfg` | with `AllocFail`: `IndexConsistent`, `NoEmptySharedGroup`, `PublishMatchesFilters`, `CountersMatch` | passes (7 186 states) |
| sys | `MCSubs_sys.cfg` | shared group on `$SYS/#`, two option values: `IndexConsistent`, `FullTopicFits`, `RetainedCountCurrent`, `PublishMatchesFilters` | passes (762 states) |
| nomem_trie | `MCSubs_nomem_trie.cfg` | `TrieCanonical` under `AllocFail` | violated: a failed subscribe leaves empty path nodes |
| reason | `MCSubs_reason.cfg` | `UnsubscribeReason` | violated: under a missing root the reason is left untouched |
| senderr | `MCSubs_senderr.cfg` | `PublishMatchesFilters` with `SendErrors` | violated: one failing client stops delivery to later nodes |
| path | `MCSubs_path.cfg` | `SubscribedTopicsNamed` | violated: `$SYS/#` is announced as `.../$SYS/$SYS/#`, and `a//b` as `.../b` |
| nosource | `MCSubs_nosource.cfg` | `PublishMatchesFilters` with a NULL source | violated: normal subscribers get nothing |
| refine | `MCSubs_refine.cfg` | `AbsSpec` with `AllocFail`: filters `$share/g/$SYS/#`, `a` and `$share/g/a` | passes (6 940 states, about 2 min) |
| rc | `MCSubs_rc.cfg` | `PublishResultAsSpecified` | violated: a publish under a root nobody subscribed below returns Success |
| fair | `MCSubs_fair.cfg` | `SharedRotationLive`, filters `$share/g/$SYS/#` and `a`, no `VIEW` or `SYMMETRY` | passes (about 30 s) |
| announce | `MCSubs_announce.cfg` | `AbsSpec` with `AnnounceFail` | violated: a failed announcement skips the count and the rotation, and the subscribe still succeeds |

The properties:

- **`IndexConsistent`**: the slots of `context->subs` name exactly the client's leaves, each once, and each at a live node. `subs_count` counts the used slots, and a client has at most one leaf per group. If this fails, `sub__clean_session` follows a dangling pointer or leaks a leaf.
- **`TrieCanonical`**: every node below a top-level entry hangs from a live parent and holds something. This is the round-trip law of spec §8.
- **`NoEmptySharedGroup`**: a share name stays in a node's hash only while its leaf list is non-empty. This is spec §3, invariant 4.
- **`CountersMatch`**: the two `$SYS` counters equal the number of leaves. In run `nomem` this covers the out-of-memory undo paths. The leaf is unlinked again after a failed `realloc` of `context->subs` (lines 241-244 and 292-296), and those paths return before `db.shared_subscription_count++` (252) and `db.subscription_count++` (304).
- **`PublishMatchesFilters`**: an action property. A publish queues exactly the messages that the filters (not the trie) call for, with the right QoS, no-local and ACL outcome, and rotates exactly the matching shared groups.
- **`UnsubscribeReason`**: an action property. The reason is `Success` exactly when the client held the subscription.
- **`NoSubscribersSound`**: an action property. `NoSubscribers` is returned only when no subscription matches the topic. The protocol layer relies on this when it tells a publisher there were no matching subscribers.
- **`PublishResultAsSpecified`**: spec §4.5's "if and only if". Unless delivery failed, the result is `Success` exactly when a deliverable subscriber matched.
- **`AbsSpec`**: the refinement described under `SubsAbstract`. It checks subscribe, resubscribe, unsubscribe, clean (in the slot order of `context->subs`), publish, the nested `$SYS` rotations, and the out-of-memory undo paths against the abstract engine, all at once.
- **`SharedRotationLive`**: a liveness property. While publishes that a shared group matches keep coming and client c stays in the group, c reaches the head of the group again and again, whatever the other members do and whatever the ACL answers. This is what rotating a denied head buys (spec §9 leaves open whether that is intended); rotating only on a successful send lets one denied member starve the others.
- **`FullTopicFits`**: the length arithmetic of `sub__build_full_topic`. For every node of the trie the buffer is large enough for every `snprintf`, holds a NUL, and holds the levels joined by `/`. It checks the byte-level model against the level-granular `BuildFullTopic` that `SysTopicOf` uses.
- **`RetainedCountCurrent`**: for every normal filter's node, the retained `$SYS/broker/subscribed_topics` message carries the number of normal leaves now at that node, or there is none and the node has no leaf. This is spec §6. `sub__update_subscribed_topics` reads `branch->subs` when it is called, so the property needs every caller to announce after it links or unlinks, including a clean that unlinks several leaves of one node in turn. The runs that check it do not let the announcement fail; finding `announce` covers a failed announcement.
- **`SubscribedTopicsNamed`**: the `$SYS` topic of a node with normal subscribers is `$SYS/broker/subscribed_topics/<filter>`.

What the runs show:

- Across all interleavings of two clients, the engine keeps its three structures (trie, leaves, index) in step, including through the nested `$SYS` publish. The `realloc` and leaf-allocation undo paths are correct.
- The engine implements `SubsAbstract`, even when its own allocations fail.
- The two `$SYS` counters stay exact on the out-of-memory paths of `sub__add`.
- Stable rotation starves no member of a shared group, provided matching publishes keep coming.
- The retained subscriber count is current after every subscribe, unsubscribe and clean, whenever the announcement succeeds.
- The buffer arithmetic of `sub__build_full_topic` is exact: its topic is wrong (finding `path`) because of where the recursion stops, not because of a truncation.
- Seven behaviours of the code disagree with `spec.md`. They are the `findings` of `PROJECT.json`:
  - NOMEM leaves empty nodes;
  - the reason code is untouched under a missing root;
  - the search aborts on a delivery error;
  - the `$SYS` path is malformed;
  - a NULL source skips normal subscribers;
  - a publish under an absent root returns `Success`, not `NoSubscribers`;
  - a failed `$SYS` announcement is ignored.

## 4. Bounds

- **Clients**: two. Two is the smallest number that gives a shared group rotation, no-local against another client, and one client's error hiding another's delivery.
- **Filters and topics** are chosen so that every branch of `sub__search` happens:
  - the core run uses `a/+`, `#` and `$share/g/a/b`, with topics `a/b`, `a` and `$SYS/b`;
  - this covers the literal branch, `+` at the end, childless `#`, the `$` guard, a topic ending at an interior node, and a shared group.
- **Filters that create nested nodes**: `$SYS/#` and `a//b` in the path run.
- **Options**: one value in the core run, to keep it within minutes; the sys run adds a second, so that updating an existing leaf's options is checked.
- **Publish QoS**: {0, 2}, on both sides of the subscription QoS 1. In the fair run the two values also let two consecutive publishes differ, so that a publish that rotates nothing is not a stuttering step.
- **Protocols**: MQTT 3.1, 3.1.1 and 5, the three values `sub__add_normal` and `sub__add_shared` tell apart.

No counter needs a bound: subscriptions are idempotent per (client, filter), so the state space is finite.

## 5. Fairness

`Spec` has no fairness. The engine is a set of synchronous calls, and nothing in `subs.c` waits or retries, so nothing in the code makes any step happen. Publishes come from clients.

The one liveness property, `SharedRotationLive`, therefore carries its assumption about the environment as a hypothesis instead of a `WF_` conjunct of `Spec`: `[]<><<MatchingPublish(f)>>_vars`, that publishes the group matches keep occurring. Together with `<>[]InGroup(c, f)` this implies `[]<>AtHead(c, f)`.

The fair run drops `VIEW` and `SYMMETRY`, which TLC does not support soundly for liveness. It keeps the history variables in the state, and so uses one publishing client to stay small.

## 6. Not modelled

- **Tokenizer validation and `$share` parsing** (outside `src/`). `Tokenise` follows the spec (§3): after `$share/<group>/` the remainder is the effective filter, so `$share/g/$SYS/#` hangs at the same place as `$SYS/#`. If the tokenizer of this fork instead roots every shared filter at `""`, a shared group on a `$SYS` filter is never reached by `$SYS` topics. That would change what runs `sys`, `refine`, `announce` and `fair` say about such groups, and it cannot be decided from `src/`.
- **The return code of `sub__add` as a property.** `AddResult` models it (lines 309-315 and 256-262): `MOSQ_ERR_SUB_EXISTS` is passed on for MQTT 3.1 and 5, and 3.1.1 gets `MOSQ_ERR_SUCCESS`. The comment at 259-260 and 312-313 names MQTT 5 as well among the versions that resend retained messages, and the spec leaves the versions open (§4.4, §9). No property states which is intended.
- **The `MOSQ_ERR_INVAL` paths**: no level in the model exceeds 65535 bytes.
- **`MOSQ_ERR_INVAL` and the `context->id == NULL` path of `sub__add`.** Every client of the model has an id.
- **Heap accounting.** Every announcement leaks `topic_buffer->buffer` (line 833). This is visible without a model.
- **Payloads of client publishes, message ids, retain-as-published, and the retained store outside the `$SYS` announcements.** Client publishes in the model carry no retain flag. `retain__store` is modelled only for the announcement topics, which the engine writes itself.
- **The stack VLA `pub_topic` of `sub__update_subscribed_topics`.** Stack size is outside TLC's reach. `Payload` does model the truncation of the 10-byte payload buffer, but a count of ten digits needs a billion subscribers, so no run reaches it.
- **Two contexts sharing a client id.** `sub__add_leaf` deduplicates by id, but remove and clean match by pointer. Two live contexts share an id only during a takeover, and the connect handler that moves `context->subs` is outside `src/`.
- **`sub__tree_print`.**

## 7. Plan for later work

Done so far:
- the abstract specification and its refinement (`SubsAbstract`, run `refine`);
- the return code of `sub__messages_queue` (runs `core` and `rc`);
- the counters on the out-of-memory paths of `sub__add` (`CountersMatch`, run `nomem`);
- liveness of shared rotation (`SharedRotationLive`, run `fair`);
- the byte-level buffer of `sub__build_full_topic` (`FullTopicFits`, run `sys`);
- the retained subscriber count the announcer leaves (`RetainedCountCurrent`, runs `core` and `sys`).

Remaining:
1. Larger instances: three clients in a shared group, and a filter with an empty level in a passing run.
2. A model of the session takeover in the connect handler, to check two contexts with one client id (`sub__add_leaf` matches by id at line 161; remove and clean match by pointer).
