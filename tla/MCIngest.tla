------------------------------- MODULE MCIngest -------------------------------
(***************************************************************************)
(* The stages of the UDP ingestion, for TLC: TenantResolver, UdpListener   *)
(* and TemplateDecoder.  They share no variable, and their product would   *)
(* say nothing that they do not say one by one, so the behaviours of this  *)
(* module are those of the stages side by side: part says which one runs,  *)
(* the others stay as they begin.                                          *)
(***************************************************************************)
EXTENDS TenantResolver, Sequences

CONSTANTS c1, c2, d1, d2, d3, e1, e2, k1, k2, k3, s1, s2

(* Those of UdpListener and TemplateDecoder, with bounds of the clock of their own. *)
CONSTANTS
  Datagrams, Exporters, SourceOf, MaxRecords, IngestQueueMax, AuditInterval, ListenTime,
  Consumers, Keys, Sets, KeyOf, Serves, MaxTemplates, TemplateTTL, MaxPendingSets,
  MaxAnnouncements, DecodeTime

VARIABLES
  part,
  network, socket, reader, queue, qclosed, consumer, current, todo, stop,
  unknownAuditted, arrived, lost, handled, written, quarantined, audits,
  templates, pending, pendingN, at, work, layout, unsent, announced, lastAt,
  arrivedAt, decoded, dropped

listenerVars ==
  <<network, socket, reader, queue, qclosed, consumer, current, todo, stop,
    unknownAuditted, arrived, lost, handled, written, quarantined, audits>>
decoderVars ==
  <<templates, pending, pendingN, at, work, layout, unsent, announced, lastAt,
    arrivedAt, decoded, dropped>>
resolverVars == <<inventory, cached, pc, ip, now, answer, truth, asked>>
all == <<part, clock, resolverVars, listenerVars, decoderVars>>

TwoCallers == {c1, c2}

(* Two datagrams of one exporter, one of another, and a queue of two. *)
ThreeDatagrams == {d1, d2, d3}
Sources == [d \in ThreeDatagrams |-> IF d = d1 THEN e2 ELSE e1]

Listener == INSTANCE UdpListener WITH MaxTime <- ListenTime

(***************************************************************************)
(* One key is announced to both consumers, each of the others to one, and  *)
(* the cache holds two of the three.                                       *)
(***************************************************************************)
TwoSets == {s1, s2}
KeysOfSets == [s \in TwoSets |-> IF s = s1 THEN k1 ELSE k2]
SharedAndOwn == [c \in TwoCallers |-> IF c = c1 THEN {k1, k2} ELSE {k1, k3}]

Decoder == INSTANCE TemplateDecoder WITH pc <- at, MaxTime <- DecodeTime

ASSUME ConstantsAreRight ==
  c1 \in Callers /\ Listener!ListenerAssumption /\ Decoder!DecoderAssumption

-----------------------------------------------------------------------------
MCInit ==
  /\ part \in {"resolver", "lone", "listener", "decoder"}
  /\ Init /\ Listener!Init /\ Decoder!Init
  /\ part \notin {"resolver", "lone"} => inventory = [i \in IPs |-> Unknown]

Resolve(callers) ==
  /\ \/ \E c \in callers : TenantForIP(c)
     \/ \E i \in IPs, a \in Answers : InventoryChange(i, a)
     \/ Tick
  /\ UNCHANGED <<part, listenerVars, decoderVars>>

Listen == Listener!Next /\ UNCHANGED <<part, resolverVars, decoderVars>>

Decode == Decoder!Next /\ UNCHANGED <<part, resolverVars, listenerVars>>

MCNext ==
  \/ part = "resolver" /\ Resolve(Callers)
  \/ part = "lone" /\ Resolve({c1})
  \/ part = "listener" /\ Listen
  \/ part = "decoder" /\ Decode

(***************************************************************************)
(* The fairness of UdpListener and TemplateDecoder, for the stage that     *)
(* runs.                                                                   *)
(***************************************************************************)
MCSpec ==
  /\ MCInit /\ [][MCNext]_all
  /\ WF_listenerVars(part = "listener"
                       /\ ((socket = "closed" /\ Listener!ReadFails) \/ Listener!CloseQueue))
  /\ WF_listenerVars(part = "listener" /\ Listener!consumeLoop)
  /\ WF_listenerVars(part = "listener" /\ (Listener!StopDrained \/ Listener!StopGivesUp))
  /\ \A c \in Consumers :
       WF_decoderVars(part = "decoder" /\ (\/ Decoder!template(c) \/ Decoder!bufferPending(c)
                                          \/ Decoder!decodeDataSet(c)))
  /\ \A k \in Keys :
       WF_decoderVars(part = "decoder" /\ \E c \in Consumers : Decoder!storeTemplate(c, k))

-----------------------------------------------------------------------------
(* The properties of the stages, each where it applies. *)

(* TenantResolver: a lone caller queries for one address once per ttl. *)
LoneQueriesAreSpaced == [][part = "lone" => SpacedQueries(c1)]_<<part, asked>>

(***************************************************************************)
(* UdpListener: datagrams are dispatched in the order read, but for what a *)
(* full queue refused, and a drained Stop has dispatched all of them;      *)
(* every exporter with refused records is in the audit log, once in an     *)
(* interval.                                                               *)
(***************************************************************************)
DispatchedInOrder ==
  /\ part = "listener" => Listener!TypeOK /\ Listener!ArrivalOrder /\ Listener!DrainedMeansHandled
  /\ Listener!QuarantineIsAudited /\ Listener!AuditsAreSpaced

(***************************************************************************)
(* TemplateDecoder: every data set is in one place, those that wait are    *)
(* counted and, if their key has one consumer, wait for a template that is *)
(* not there; a recent template is evicted for enough newer ones only, and *)
(* no set is decoded with a layout replaced before it came.                *)
(***************************************************************************)
TemplatesAreKept ==
  part = "decoder" =>
    /\ Decoder!TypeOK /\ Decoder!EachSetOnce /\ Decoder!PendingCounted
    /\ Decoder!PendingAwaitsTemplate /\ Decoder!RecentTemplateSurvives
    /\ Decoder!NoOutdatedLayout

(***************************************************************************)
(* UdpListener: what was queued is dispatched, and both goroutines end     *)
(* after Stop, waited for or not.  TemplateDecoder: a waiting set is       *)
(* decoded after the next announcement of its template.                    *)
(***************************************************************************)
NothingIsStuck ==
  /\ Listener!QueuedIsHandled
  /\ Listener!GoroutinesEnd
  /\ part = "decoder" => Decoder!PendingIsReleased
=============================================================================
