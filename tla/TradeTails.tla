----------------------------- MODULE TradeTails -----------------------------
(***************************************************************************)
(* How the live arbiter (run of rust/lob-replay/src/bin/live_arbitration   *)
(* .rs) carries one lane's trades from a capture generation to the next:   *)
(* the predecessor it is bound to, the candidate on the newest generation, *)
(* a tail walker for every generation between the two, and the emission    *)
(* clamps that keep the union of TradeUnion from publishing past a         *)
(* predecessor that may still deliver.  The captures run beside the        *)
(* arbiter: `gen' is what they have made durable, and it changes between   *)
(* the steps of one pass of the arbiter's loop.                            *)
(*                                                                         *)
(* A generation captures consecutive trade IDs.  Every delivery of an ID   *)
(* carries the same digest, and the identity log answers as the cache does *)
(* (TradePublication has both).  A pass treats the two lanes in one step   *)
(* where the code treats them one after the other: their directories are   *)
(* independent.                                                            *)
(***************************************************************************)
EXTENDS TradeUnion

CONSTANTS
  LaneOrder,   \* the lanes in the order the loop serves them
  MaxId,       \* bound on trade IDs
  MaxGen       \* bound on generations of each lane

VARIABLES
  gen,         \* durable trade streams of each lane's generations, oldest first
  binding,     \* the generation each lane is bound to
  candidate,   \* the newest generation while the binding is its predecessor
  tails,       \* the lane's tail walkers, oldest first
  walked,      \* newest generation a tail walker was created for, 0 for none
  union,
  latest,      \* the newest generation of each lane when the pass began
  stopping,    \* a cooperative stop is draining
  pc,
  unseen,      \* history: IDs a binding lost to a seal between its refresh and its replacement
  overtaken    \* history: candidates of each lane while a later generation was walked

vars == <<gen, binding, candidate, tails, walked, union, latest, stopping, pc, unseen, overtaken>>

arbiter == <<binding, candidate, tails, walked, union, latest, stopping, pc, unseen, overtaken>>

-----------------------------------------------------------------------------
(* The captures.  A killed generation is one that takes no more steps: it   *)
(* never says COMPLETE.  The steps no step of a pass can tell from the same *)
(* step before the pass are taken there; becoming bindable takes a snapshot *)
(* and a first record, longer than a pass takes from the resolution of the  *)
(* newest generations to the bind of a candidate.                           *)

(* The newest generation directory.                                         *)
Newest_(l) == Len(gen[l])

Running(l) == {g \in DOMAIN gen[l] : gen[l][g].state = "LIVE"}

(* A new connection's first trade is newer than all its predecessor has     *)
(* made durable by then.                                                    *)
Open(l) ==
  /\ pc \in {"POLL", "TAILS"}
  /\ Len(gen[l]) < MaxGen[l]
  /\ \E from \in (Last(gen[l]).from + Last(gen[l]).n)..MaxId[l] :
       gen' = [gen EXCEPT ![l] = Append(@, [from |-> from, n |-> 0, ready |-> FALSE, state |-> "LIVE"])]
  /\ UNCHANGED arbiter

(* The snapshot and the root segment appear: the generation can be bound.   *)
Stage(l) ==
  /\ pc \in {"POLL", "SYNC"}
  /\ \E g \in Running(l) :
       /\ ~gen[l][g].ready
       /\ gen' = [gen EXCEPT ![l][g].ready = TRUE, ![l][g].n = 1]
  /\ UNCHANGED arbiter

Acknowledge(l) ==
  /\ pc = "POLL"
  /\ \E g \in Running(l) :
       /\ gen[l][g].ready
       /\ gen[l][g].from + gen[l][g].n <= MaxId[l]
       /\ gen' = [gen EXCEPT ![l][g].n = @ + 1]
  /\ UNCHANGED arbiter

(* The last records are synced, the streams sealed and generation.json says *)
(* COMPLETE.                                                                *)
Finish(l) ==
  /\ pc \in {"POLL", "TAILS", "SYNC", "FEED"}
  /\ \E g \in Running(l), more \in IF pc = "POLL" THEN {0} ELSE {0, 1} :
       /\ gen[l][g].ready
       /\ gen[l][g].from + gen[l][g].n + more <= MaxId[l] + 1
       /\ gen' = [gen EXCEPT ![l][g].state = "COMPLETE", ![l][g].n = @ + more]
  /\ UNCHANGED arbiter

-----------------------------------------------------------------------------
(* A source is a followed stream: the records loaded and consumed from it.  *)
Bound(l, g) == [gen |-> g, loaded |-> gen[l][g].n, used |-> 0]

Refreshed(l, s) == [s EXCEPT !.loaded = gen[l][s.gen].n]

Walked(s) == [s EXCEPT !.used = s.loaded]

stream_fully_sealed(l, s) == gen[l][s.gen].state = "COMPLETE"

consumed_sealed_terminal(l, s) ==
  gen[l][s.gen].state = "COMPLETE" /\ s.loaded = gen[l][s.gen].n

(* The first ID the source has not consumed, or the one after its last.     *)
Head_(l, s) == gen[l][s.gen].from + s.used

(* What the generation holds beyond the records loaded from it.             *)
Unloaded(l, s) ==
  (gen[l][s.gen].from + s.loaded)..(gen[l][s.gen].from + gen[l][s.gen].n - 1)

(* What the source still has to hand over, in raw order.                    *)
Pending(l, s) ==
  [k \in 1..(s.loaded - s.used) |-> [lane |-> l, id |-> Head_(l, s) + k - 1]]

observe_trade(u, d) ==
  LET t == [id |-> d.id, digest |-> "TRADE"]
      disposition == Disposition(u, t, None)
      v == Observed(u, d.lane, t, disposition)
  IN  IF disposition = "BUFFERED" THEN Drained(v) ELSE v

RECURSIVE Deliver(_, _)
Deliver(u, deliveries) ==
  IF deliveries = <<>> THEN u ELSE Deliver(observe_trade(u, Head(deliveries)), Tail(deliveries))

(* The lanes' deliveries, the first lane's before the second's.             *)
InOrder(perLane) == perLane[LaneOrder[1]] \o perLane[LaneOrder[2]]

-----------------------------------------------------------------------------
(* The head of a predecessor binding that is not sealed yet.                *)
BindingClamp(l, b, succeeded) ==
  IF succeeded /\ ~stream_fully_sealed(l, b) /\ b.loaded > 0 THEN {Head_(l, b)} ELSE {}

(* Mutant: only the tail walkers hold the emission back.                    *)
ClampOnTails(l, ts, b, succeeded) ==
  {Head_(l, ts[k]) : k \in {j \in DOMAIN ts : ~ts[j].excluded /\ ts[j].loaded > 0}}

(* The heads an emission of lane l may not pass: every walker's not         *)
(* excluded for lag, and the predecessor's until its stream is sealed.      *)
lane_emission_clamp(l, ts, b, succeeded) ==
  {Head_(l, ts[k]) : k \in {j \in DOMAIN ts : ~ts[j].excluded /\ ts[j].loaded > 0}}
  \cup BindingClamp(l, b, succeeded)

(* The union with both lanes' clamps set or cleared.                        *)
Clamped(u, ts, b, newest) ==
  LET heads == [l \in Lane |-> lane_emission_clamp(l, ts[l], b[l], newest[l] # b[l].gen)]
  IN  [u EXCEPT !.clamp = [l \in {k \in Lane : heads[k] # {}} |-> Min(heads[l])]]

retire_consumed_tail_walkers(l, ts) ==
  SelectSeq(ts, LAMBDA w : ~(consumed_sealed_terminal(l, w) /\ w.used = w.loaded))

RefreshedTails(l, ts) == [k \in DOMAIN ts |-> Refreshed(l, ts[k])]
WalkedTails(ts) == [k \in DOMAIN ts |-> Walked(ts[k])]
RECURSIVE TailTrades(_, _)
TailTrades(l, ts) == IF ts = <<>> THEN <<>> ELSE Pending(l, Head(ts)) \o TailTrades(l, Tail(ts))

-----------------------------------------------------------------------------
(* A walker that is drained and has stood still for the lag horizon stops   *)
(* holding the emission back while trades wait.                             *)
Laggards(ts) == {k \in DOMAIN ts : ~ts[k].excluded /\ ts[k].used = ts[k].loaded /\ ts[k].loaded > 0}

exclude_lagging_tail_origins(ts, stale) ==
  [k \in DOMAIN ts |-> [ts[k] EXCEPT !.excluded = @ \/ k \in stale]]

(* The lane has a generation after the one it is bound to.                  *)
Succeeded(l) == latest[l] # binding[l].gen

(* The candidate follows the newest generation as soon as it can be bound;  *)
(* until then the old candidate goes on.  The bind looks for the newest     *)
(* again; one that appeared since the pass began is not bindable yet.       *)
NextCandidate(l) ==
  IF ~Succeeded(l) THEN None
  ELSE IF candidate[l] # None /\ candidate[l].gen = latest[l] THEN Refreshed(l, candidate[l])
  ELSE IF gen[l][Newest_(l)].ready THEN Bound(l, Newest_(l))
  ELSE IF candidate[l] # None THEN Refreshed(l, candidate[l]) ELSE None

(* A pass begins: the newest generations, the clamps of the heads the last  *)
(* pass left, and everything the tail walkers can now load.                 *)
ResolveLanes ==
  /\ pc = "POLL"
  /\ latest' = [l \in Lane |-> Newest_(l)]
  /\ LET fresh == [l \in Lane |-> RefreshedTails(l, tails[l])]
     IN  /\ union' = Deliver(Clamped(union, tails, binding, latest'),
                             InOrder([l \in Lane |-> TailTrades(l, fresh[l])]))
         /\ tails' = [l \in Lane |-> WalkedTails(fresh[l])]
  /\ pc' = "TAILS"
  /\ UNCHANGED <<gen, binding, candidate, walked, stopping, unseen, overtaken>>

(* The walkers that retire or lag, and the bindings and candidates.         *)
BindLanes ==
  /\ pc = "TAILS"
  /\ LET kept == [l \in Lane |-> retire_consumed_tail_walkers(l, tails[l])]
     IN  \E stale \in [Lane -> SUBSET (1..Max({Len(kept[l]) : l \in Lane}))] :
           /\ \A l \in Lane : stale[l] \subseteq (IF union.buffer = Empty THEN {} ELSE Laggards(kept[l]))
           /\ tails' = [l \in Lane |-> exclude_lagging_tail_origins(kept[l], stale[l])]
  /\ walked' = [l \in Lane |-> IF Succeeded(l) THEN walked[l] ELSE 0]
  /\ binding' = [l \in Lane |-> Refreshed(l, binding[l])]
  /\ candidate' = [l \in Lane |-> NextCandidate(l)]
  /\ pc' = "SYNC"
  /\ UNCHANGED <<gen, union, latest, stopping, unseen, overtaken>>

(* The generations between the binding and the newest one that still need   *)
(* a walker.                                                                *)
Unwalked(l) ==
  {g \in (Max({walked[l], binding[l].gen}) + 1)..(latest[l] - 1) :
     /\ candidate[l] = None \/ candidate[l].gen # g
     /\ \A k \in DOMAIN tails[l] : tails[l][k].gen # g}

NewWalkers(l) ==
  [k \in 1..Cardinality(Unwalked(l)) |->
     Bound(l, SetToSortSeq(Unwalked(l), <)[k]) @@ [excluded |-> FALSE]]

(* While the lane has a successor: refresh and walk its tails once more,    *)
(* retire the drained ones and add the missing ones.  Then set the clamps   *)
(* to the heads now reached and publish what that releases.                 *)
sync_tail_walkers ==
  /\ pc = "SYNC"
  /\ \A l \in Lane : \A g \in Unwalked(l) : gen[l][g].ready
  /\ LET fresh == [l \in Lane |-> IF Succeeded(l) THEN RefreshedTails(l, tails[l]) ELSE tails[l]]
         added == [l \in Lane |-> NewWalkers(l)]
     IN  /\ tails' = [l \in Lane |->
              IF Succeeded(l)
              THEN retire_consumed_tail_walkers(l, WalkedTails(fresh[l])) \o WalkedTails(added[l])
              ELSE tails[l]]
         /\ union' = Drained(Clamped(
              Deliver(union, InOrder([l \in Lane |-> TailTrades(l, fresh[l] \o added[l])])),
              tails', binding, latest))
  /\ walked' = [l \in Lane |-> Max({walked[l]} \cup Unwalked(l))]
  /\ overtaken' = [l \in Lane |-> overtaken[l] \cup
       (IF candidate[l] # None /\ candidate[l].gen < walked'[l] THEN {candidate[l].gen} ELSE {})]
  /\ pc' = "FEED"
  /\ UNCHANGED <<gen, binding, candidate, latest, stopping, unseen>>

(* Such a generation did not become bindable in 15 s: the arbiter exits.    *)
WalkFails ==
  /\ pc = "SYNC"
  /\ \E l \in Lane : \E g \in Unwalked(l) : ~gen[l][g].ready
  /\ pc' = "FAILED"
  /\ UNCHANGED <<gen, binding, candidate, tails, walked, union, latest, stopping, unseen, overtaken>>

-----------------------------------------------------------------------------
(* The binding's trades, then the candidate's.                              *)
Feed(l) ==
  Pending(l, binding[l]) \o (IF candidate[l] = None THEN <<>> ELSE Pending(l, candidate[l]))

(* The predecessor is drained and sealed, and nothing else precedes the     *)
(* candidate: the lane stops bounding the watermark.                        *)
PredecessorDone(l) ==
  /\ stream_fully_sealed(l, binding[l])
  /\ tails[l] = <<>>
  /\ candidate[l] # None

(* The lane whose cursor is the smallest, the first on a tie.               *)
WatermarkHolder(u) ==
  LET holds(l) == l \in DOMAIN u.next /\ \A k \in DOMAIN u.next : u.next[l] <= u.next[k]
  IN  IF holds(LaneOrder[1]) THEN {LaneOrder[1]} ELSE {l \in Lane : holds(l)}

feed_lane_trades ==
  /\ pc = "FEED"
  /\ LET fed == Deliver(union, InOrder([l \in Lane |-> Feed(l)]))
         released == [fed EXCEPT !.next = Restrict(@, {l \in DOMAIN @ : ~PredecessorDone(l)})]
     IN  \E lag \in IF released.buffer = Empty THEN {FALSE} ELSE BOOLEAN :
           union' = IF lag
                    THEN [released EXCEPT !.next = Restrict(@, DOMAIN @ \ WatermarkHolder(released))]
                    ELSE released
  /\ binding' = [l \in Lane |-> Walked(binding[l])]
  /\ candidate' = [l \in Lane |-> IF candidate[l] = None THEN None ELSE Walked(candidate[l])]
  /\ pc' = "SWITCH"
  /\ UNCHANGED <<gen, tails, walked, latest, stopping, unseen, overtaken>>

-----------------------------------------------------------------------------
(* The depth section, which DepthArbiter has, decides which lane serves and *)
(* whether its gap is typed: any lane may serve at any time here.           *)

predecessor_drained(l) ==
  binding[l].used = binding[l].loaded /\ stream_fully_sealed(l, binding[l])

(* The serving lane's gap is typed and its candidate becomes the binding.   *)
Activate(l) ==
  /\ pc = "SWITCH"
  /\ Succeeded(l)
  /\ candidate[l] # None
  /\ predecessor_drained(l)
  /\ binding' = [binding EXCEPT ![l] = candidate[l]]
  /\ candidate' = [candidate EXCEPT ![l] = None]
  /\ unseen' = unseen \cup (IF stream_fully_sealed(l, binding[l]) THEN Unloaded(l, binding[l]) ELSE {})
  /\ pc' = "STOP"
  /\ UNCHANGED <<gen, tails, walked, union, latest, stopping, overtaken>>

-----------------------------------------------------------------------------
(* Between passes the newest generations are not known.                     *)
Unresolved == [l \in Lane |-> 0]

(* No stop was requested when the pass began.                               *)
NextPass ==
  /\ pc \in {"SWITCH", "STOP"} /\ ~stopping
  /\ pc' = "POLL" /\ latest' = Unresolved
  /\ UNCHANGED <<gen, binding, candidate, tails, walked, union, stopping, unseen, overtaken>>

Sources(l) == {binding[l]} \cup (IF candidate[l] = None THEN {} ELSE {candidate[l]})

(* Mutant: the candidate's own records are not asked for.                   *)
drain_complete_of_binding(l, ts) ==
  /\ ts = <<>>
  /\ binding[l].used = binding[l].loaded
  /\ consumed_sealed_terminal(l, binding[l])

(* Every origin of the lane was consumed to its sealed end.                 *)
lane_trade_drain_complete(l, ts) ==
  /\ ts = <<>>
  /\ latest[l] = (IF candidate[l] = None THEN binding[l].gen ELSE candidate[l].gen)
  /\ \A s \in Sources(l) : s.used = s.loaded /\ consumed_sealed_terminal(l, s)

(* The tails once more, the exhausted lanes released, and what that frees.  *)
(* The stop commits when nothing is pending, the serving lane's generation  *)
(* change included; otherwise another pass drains on.                       *)
StopDrain ==
  /\ pc \in {"SWITCH", "STOP"}
  /\ LET fresh == [l \in Lane |-> RefreshedTails(l, tails[l])]
         kept == [l \in Lane |-> retire_consumed_tail_walkers(l, WalkedTails(fresh[l]))]
         out == Deliver(union, InOrder([l \in Lane |-> TailTrades(l, fresh[l])]))
         done == {l \in Lane : lane_trade_drain_complete(l, kept[l])}
         u == Drained([out EXCEPT !.clamp = Restrict(@, DOMAIN @ \ done),
                                  !.next = Restrict(@, DOMAIN @ \ done)])
         complete == u.buffer = Empty /\ done = Lane
         current == {l \in Lane : ~Succeeded(l)}
     IN  /\ tails' = kept
         /\ union' = u
         /\ \/ (~complete \/ current # Lane) /\ pc' = "POLL" /\ latest' = Unresolved
            \/ complete /\ current # {} /\ pc' = "DONE" /\ UNCHANGED latest
  /\ stopping' = TRUE
  /\ UNCHANGED <<gen, binding, candidate, walked, unseen, overtaken>>

-----------------------------------------------------------------------------
(* A fresh start: each lane is bound to its first generation and has        *)
(* forwarded its one durable trade.                                         *)
Init ==
  /\ gen = [l \in Lane |-> <<[from |-> 1, n |-> 1, ready |-> TRUE, state |-> "LIVE"]>>]
  /\ binding = [l \in Lane |-> [gen |-> 1, loaded |-> 1, used |-> 1]]
  /\ candidate = [l \in Lane |-> None]
  /\ tails = [l \in Lane |-> <<>>]
  /\ walked = [l \in Lane |-> 0]
  /\ union = [NewUnion EXCEPT !.next = [l \in Lane |-> 2], !.floor = 1]
  /\ latest = Unresolved
  /\ stopping = FALSE
  /\ pc = "POLL"
  /\ unseen = {}
  /\ overtaken = [l \in Lane |-> {}]

Captures == \E l \in Lane : Open(l) \/ Stage(l) \/ Acknowledge(l) \/ Finish(l)

Arbiter ==
  \/ ResolveLanes \/ BindLanes \/ sync_tail_walkers \/ WalkFails \/ feed_lane_trades
  \/ \E l \in Lane : Activate(l)
  \/ NextPass \/ StopDrain

Next == Captures \/ Arbiter

Spec == Init /\ [][Next]_vars

-----------------------------------------------------------------------------
Holds(l, g) == gen[l][g].from..(gen[l][g].from + gen[l][g].n - 1)

Recorded == DOMAIN union.published \cup DOMAIN union.corrected \cup (1..union.floor)

(* A stop that commits has recorded the trades every generation of either   *)
(* lane made durable, in whatever order the generations came and went, but  *)
(* for two losses.  A binding is replaced after a check that reads the disk *)
(* and not the records loaded: what a seal made durable since its refresh   *)
(* is not read again (unseen; the comment at 3635-3641 means to rule this   *)
(* out).  A candidate that is left for a newer one gets no walker once a    *)
(* generation after it was walked (overtaken; 3176-3179 says its tail is    *)
(* preserved).                                                              *)
DrainRecordsEverything ==
  pc = "DONE" =>
    \A l \in Lane : \A g \in (1..latest[l]) \ overtaken[l] : Holds(l, g) \subseteq Recorded \cup unseen

(* While a lane bounds the watermark, no publication passes a trade that an *)
(* unsealed predecessor the arbiter follows on that lane has yet to deliver *)
(* (unless it was published itself, from another origin).  Of several       *)
(* walkers added at once only the youngest counts: they are walked one      *)
(* after the other before the clamps are set, so its records may pass the   *)
(* others' heads.  Walkers excluded for lag are out, and so is an overtaken *)
(* candidate, which no clamp covers, though it may become the binding.      *)
Predecessors(l) ==
  {tails[l][k] : k \in {j \in DOMAIN tails[l] : ~tails[l][j].excluded}}
  \cup (IF Newest_(l) # binding[l].gen /\ ~stream_fully_sealed(l, binding[l]) THEN {binding[l]} ELSE {})

SuccessorNeverSkips ==
  [][union'.last > union.last =>
       \A l \in DOMAIN union.next \cap DOMAIN union'.next :
         LET clamped == ({p.gen : p \in Predecessors(l)} \cup {walked'[l]}) \ overtaken[l]
         IN  \A p \in {q \in Predecessors(l)' : q.loaded > 0 /\ q.gen \in clamped} :
               Head_(l, p)..union'.last \subseteq DOMAIN union'.published]_vars
=============================================================================
