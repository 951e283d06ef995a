--------------------------- MODULE TemplateDecoder ---------------------------
(***************************************************************************)
(* The template state of the NetFlow v9 / IPFIX decoder                    *)
(* (internal/observability/ingest/ipfix.go): a bounded cache of templates  *)
(* with a time to live, and the data sets put aside until their template   *)
(* is announced.  One decoder serves the consumers of several listeners,   *)
(* each working through the sets of its own datagrams; looking a template  *)
(* up, putting a set aside and storing a template are three critical       *)
(* sections of Decoder.mu.                                                 *)
(*                                                                         *)
(* A template is its version, the number of announcements of its key so    *)
(* far; the content of a data set is abstracted to its key.                *)
(***************************************************************************)
EXTENDS Naturals, Sequences, FiniteSetsExt, Functions

CONSTANTS
  Consumers,        \* goroutines that share the decoder
  Keys,             \* templateKey: exporter, domain and template id
  Sets,             \* data sets, each received once
  KeyOf,            \* KeyOf[s]: the template data set s needs
  Serves,           \* Serves[c]: the keys whose sets reach consumer c
  MaxTemplates,
  TemplateTTL,
  MaxPendingSets,
  MaxAnnouncements, \* bound of the announcements of one key
  MaxTime           \* bound of the clock

(* What the constants have to be. *)
DecoderAssumption ==
  /\ IsFiniteSet(Keys) /\ IsFiniteSet(Sets) /\ IsFiniteSet(Consumers)
  /\ KeyOf \in [Sets -> Keys]
  /\ Serves \in [Consumers -> SUBSET Keys]
  /\ MaxTemplates \in Nat \ {0} /\ MaxPendingSets \in Nat
  /\ TemplateTTL \in Nat /\ MaxAnnouncements \in Nat /\ MaxTime \in Nat

VARIABLES
  clock,
  templates,   \* cached key -> version and time of its announcement
  pending,     \* pending[k]: data sets waiting for template k, in order
  pendingN,    \* the counter that limits them
  pc,          \* what a consumer does: "next", "lookup", "buffer", "decode"
  work,        \* the data sets in a consumer's hands
  layout,      \* the version it decodes them with
  unsent,      \* data sets not received yet
  announced,   \* history: announcements of each key so far
  lastAt,      \* history: the time of the last of them
  arrivedAt,   \* history: arrivedAt[s]: announced[KeyOf[s]] when s arrived
  decoded,     \* history: <<s, version>> of every data set decoded
  dropped      \* DataBeforeTemplateDropped, as the sets it counts

vars == <<clock, templates, pending, pendingN, pc, work, layout, unsent,
          announced, lastAt, arrivedAt, decoded, dropped>>

historyVars == <<unsent, announced, lastAt, arrivedAt>>

Elems(s) == {s[i] : i \in 1..Len(s)}

Init ==
  /\ clock = 0
  /\ templates = <<>>
  /\ pending = [k \in Keys |-> <<>>] /\ pendingN = 0
  /\ pc = [c \in Consumers |-> "next"]
  /\ work = [c \in Consumers |-> <<>>]
  /\ layout = [c \in Consumers |-> 0]
  /\ unsent = Sets
  /\ announced = [k \in Keys |-> 0] /\ lastAt = [k \in Keys |-> 0]
  /\ arrivedAt = [s \in Sets |-> 0]
  /\ decoded = {} /\ dropped = {}

-----------------------------------------------------------------------------
(***************************************************************************)
(* parseSets meets a data set.                                             *)
(***************************************************************************)
DataSet(c, s) ==
  /\ pc[c] = "next" /\ s \in unsent /\ KeyOf[s] \in Serves[c]
  /\ pc' = [pc EXCEPT ![c] = "lookup"]
  /\ work' = [work EXCEPT ![c] = <<s>>]
  /\ unsent' = unsent \ {s}
  /\ arrivedAt' = [arrivedAt EXCEPT ![s] = announced[KeyOf[s]]]
  /\ UNCHANGED <<clock, templates, pending, pendingN, layout, announced,
                 lastAt, decoded, dropped>>

Expired(k) == clock > templates[k].created + TemplateTTL

(***************************************************************************)
(* template(key): a version to decode with, or none; an expired template   *)
(* is removed on the way.                                                  *)
(***************************************************************************)
TemplateFound(c, k) ==
  /\ k \in DOMAIN templates /\ ~Expired(k)
  /\ layout' = [layout EXCEPT ![c] = templates[k].version]
  /\ pc' = [pc EXCEPT ![c] = "decode"]
  /\ UNCHANGED templates

TemplateMissing(c, k) ==
  /\ k \in DOMAIN templates => Expired(k)
  /\ templates' = Restrict(templates, DOMAIN templates \ {k})
  /\ pc' = [pc EXCEPT ![c] = "buffer"]
  /\ UNCHANGED layout

template(c) ==
  /\ pc[c] = "lookup"
  /\ LET k == KeyOf[work[c][1]] IN TemplateFound(c, k) \/ TemplateMissing(c, k)
  /\ UNCHANGED <<clock, pending, pendingN, work, decoded, dropped, historyVars>>

HasRoom == pendingN < MaxPendingSets

(***************************************************************************)
(* bufferPending: put the set aside for the key's next announcement, or    *)
(* drop it when too many wait already.                                     *)
(***************************************************************************)
bufferPending(c) ==
  /\ pc[c] = "buffer"
  /\ LET s == work[c][1] IN
       \/ /\ HasRoom
          /\ pending' = [pending EXCEPT ![KeyOf[s]] = Append(@, s)]
          /\ pendingN' = pendingN + 1
          /\ UNCHANGED dropped
       \/ /\ ~HasRoom
          /\ dropped' = dropped \cup {s}
          /\ UNCHANGED <<pending, pendingN>>
  /\ pc' = [pc EXCEPT ![c] = "next"]
  /\ work' = [work EXCEPT ![c] = <<>>]
  /\ UNCHANGED <<clock, templates, layout, decoded, historyVars>>

(***************************************************************************)
(* decodeDataSet for everything in hand, outside the lock.                 *)
(***************************************************************************)
decodeDataSet(c) ==
  /\ pc[c] = "decode"
  /\ decoded' = decoded \cup {<<s, layout[c]>> : s \in Elems(work[c])}
  /\ pc' = [pc EXCEPT ![c] = "next"]
  /\ work' = [work EXCEPT ![c] = <<>>]
  /\ UNCHANGED <<clock, templates, pending, pendingN, layout, dropped,
                 historyVars>>

-----------------------------------------------------------------------------
(***************************************************************************)
(* evictLocked: what it may leave of the templates t.  Over MaxTemplates   *)
(* the expired ones go, then the oldest until the size is right, any of    *)
(* those of equal age (the map is walked in random order).                 *)
(***************************************************************************)
Evicted(t) ==
  LET live == {k \in DOMAIN t : clock <= t[k].created + TemplateTTL}
      oldestFirst(K) == \A j \in live \ K, k \in K : t[j].created <= t[k].created
  IN  IF Cardinality(DOMAIN t) <= MaxTemplates THEN {t}
      ELSE IF Cardinality(live) <= MaxTemplates THEN {Restrict(t, live)}
      ELSE {Restrict(t, K) : K \in {S \in kSubset(MaxTemplates, live) : oldestFirst(S)}}

(***************************************************************************)
(* Fault: a template that is cached is not replaced.                       *)
(***************************************************************************)
WithTemplateIfNew(k, entry) ==
  [j \in DOMAIN templates \cup {k} |->
     IF j \in DOMAIN templates THEN templates[j] ELSE entry]

WithTemplate(k, entry) ==
  [j \in DOMAIN templates \cup {k} |-> IF j = k THEN entry ELSE templates[j]]

TakePending(c, k) ==
  /\ work' = [work EXCEPT ![c] = pending[k]]
  /\ pending' = [pending EXCEPT ![k] = <<>>]
  /\ pendingN' = pendingN - Len(pending[k])

(***************************************************************************)
(* parseTemplateSet meets an announcement of k, and storeTemplate: the new *)
(* version replaces the old one, the cache is trimmed, the sets waiting    *)
(* for k are taken to be decoded with it.                                  *)
(***************************************************************************)
storeTemplate(c, k) ==
  /\ pc[c] = "next" /\ k \in Serves[c] /\ announced[k] < MaxAnnouncements
  /\ LET version == announced[k] + 1
         entry == [version |-> version, created |-> clock]
     IN  /\ announced' = [announced EXCEPT ![k] = version]
         /\ templates' \in Evicted(WithTemplate(k, entry))
         /\ layout' = [layout EXCEPT ![c] = version]
  /\ lastAt' = [lastAt EXCEPT ![k] = clock]
  /\ TakePending(c, k)
  /\ pc' = [pc EXCEPT ![c] = "decode"]
  /\ UNCHANGED <<clock, unsent, arrivedAt, decoded, dropped>>

Tick ==
  /\ clock < MaxTime
  /\ clock' = clock + 1
  /\ UNCHANGED <<templates, pending, pendingN, pc, work, layout, decoded,
                 dropped, historyVars>>

parseSets(c) ==
  \/ \E s \in Sets : DataSet(c, s)
  \/ \E k \in Keys : storeTemplate(c, k)
  \/ template(c)
  \/ bufferPending(c)
  \/ decodeDataSet(c)

Next == (\E c \in Consumers : parseSets(c)) \/ Tick

Spec == Init /\ [][Next]_vars

(***************************************************************************)
(* A consumer finishes the set it has begun, and an exporter announces its *)
(* templates again and again, as RFC 7011 8.4 asks of UDP exporters.       *)
(***************************************************************************)
Fairness ==
  /\ \A c \in Consumers :
       WF_vars(template(c) \/ bufferPending(c) \/ decodeDataSet(c))
  /\ \A k \in Keys : WF_vars(\E c \in Consumers : storeTemplate(c, k))

FairSpec == Spec /\ Fairness

-----------------------------------------------------------------------------
Template == [version : 1..MaxAnnouncements, created : 0..MaxTime]

(***************************************************************************)
(* The variables keep their types and the cache its size.                  *)
(***************************************************************************)
TypeOK ==
  /\ clock \in 0..MaxTime
  /\ DOMAIN templates \subseteq Keys
  /\ Cardinality(DOMAIN templates) <= MaxTemplates
  /\ \A k \in DOMAIN templates : templates[k] \in Template
  /\ \A k \in Keys : pending[k] \in Seq(Sets)
  /\ pendingN \in 0..MaxPendingSets
  /\ pc \in [Consumers -> {"next", "lookup", "buffer", "decode"}]
  /\ \A c \in Consumers : work[c] \in Seq(Sets)
  /\ layout \in [Consumers -> 0..MaxAnnouncements]
  /\ unsent \subseteq Sets /\ dropped \subseteq Sets
  /\ announced \in [Keys -> 0..MaxAnnouncements]
  /\ lastAt \in [Keys -> 0..MaxTime]
  /\ arrivedAt \in [Sets -> 0..MaxAnnouncements]
  /\ decoded \subseteq Sets \X (1..MaxAnnouncements)

DecodedSets == {d[1] : d \in decoded}

(***************************************************************************)
(* ipfix.go:309,313 and 248-249: the counter that limits the waiting sets  *)
(* is their number, whatever order consumers put aside and release in, so  *)
(* MaxPendingSets never shuts the door on an empty room.                   *)
(***************************************************************************)
Waiting == UNION {Elems(pending[k]) : k \in Keys}
PendingCounted == pendingN = Cardinality(Waiting)

(***************************************************************************)
(* Every data set is in one place: unsent, in the hands of one consumer,   *)
(* waiting once, decoded once or dropped.                                  *)
(***************************************************************************)
EachSetOnce ==
  /\ \A s \in Sets :
       Cardinality({c \in Consumers : s \in Elems(work[c])})
       + Cardinality({k \in Keys : s \in Elems(pending[k])})
       + Cardinality({v \in 1..MaxAnnouncements : <<s, v>> \in decoded})
       + Cardinality({s} \cap unsent) + Cardinality({s} \cap dropped) = 1
  /\ \A k \in Keys : Len(pending[k]) = Cardinality(Elems(pending[k]))

(***************************************************************************)
(* storeTemplate, "sostituendo un eventuale precedente" (ipfix.go:241): no *)
(* data set is decoded with a layout that had already been replaced when   *)
(* the set arrived.                                                        *)
(***************************************************************************)
NoOutdatedLayout == \A d \in decoded : d[2] >= arrivedAt[d[1]]

(***************************************************************************)
(* evictLocked, "prima i template scaduti, poi il piu' vecchio"            *)
(* (ipfix.go:259): a template announced within its time to live is only    *)
(* missing when MaxTemplates other keys were announced since.              *)
(***************************************************************************)
RecentTemplateSurvives ==
  \A k \in Keys :
    announced[k] > 0 /\ clock <= lastAt[k] + TemplateTTL /\ k \notin DOMAIN templates
    => Cardinality({j \in Keys \ {k} : announced[j] > 0 /\ lastAt[j] >= lastAt[k]})
         >= MaxTemplates

(***************************************************************************)
(* bufferPending, "mette da parte un data set arrivato prima del suo       *)
(* template" (ipfix.go:299): no set waits for a template that is cached    *)
(* and valid.  It holds of a key whose sets come to one consumer; when two *)
(* share a key, one may store the template between the other's lookup and  *)
(* its bufferPending.                                                      *)
(***************************************************************************)
OneConsumer(k) == \A b, c \in Consumers : k \in Serves[b] \cap Serves[c] => b = c
PendingAwaitsTemplate ==
  \A k \in DOMAIN templates : OneConsumer(k) => pending[k] = <<>> \/ Expired(k)

(***************************************************************************)
(* However consumers race, a set that waits is released and decoded by the *)
(* next announcement of its template.                                      *)
(***************************************************************************)
PendingIsReleased ==
  \A s \in Sets :
    (s \in Elems(pending[KeyOf[s]]) /\ announced[KeyOf[s]] < MaxAnnouncements)
      ~> s \in DecodedSets
=============================================================================
