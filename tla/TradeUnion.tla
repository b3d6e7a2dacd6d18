----------------------------- MODULE TradeUnion -----------------------------
(***************************************************************************)
(* The exact union of the two lanes' trades: TradeUnionState of            *)
(* rust/lob-replay/src/live_arbitration.rs, as operators on its state u.   *)
(*                                                                         *)
(* Trade IDs are positive, so 0 stands for an absent last_published_id or  *)
(* consumed_floor.  A trade is its ID and its digest; the raw lineage an   *)
(* entry of the buffer collects is left out.                               *)
(***************************************************************************)
EXTENDS Integers, Sequences, SequencesExt, FiniteSets, FiniteSetsExt, Functions, TLC

CONSTANTS
  Lane,
  PublishedCap,  \* bound of the in-memory set of published identities
  None

ASSUME UnionAssumption == PublishedCap \in Nat

Empty == [x \in {} |-> None]

(* A fresh union with both lanes registered: a lane that has delivered      *)
(* nothing holds the watermark at zero.                                     *)
NewUnion ==
  [buffer |-> Empty, next |-> [l \in Lane |-> 0], last |-> 0, floor |-> 0,
   published |-> Empty, corrected |-> Empty, clamp |-> Empty]

-----------------------------------------------------------------------------
(* The lane's delivery cursor, held back by its handover clamp.             *)
LaneBound(u, l) ==
  IF l \in DOMAIN u.clamp /\ u.clamp[l] < u.next[l] THEN u.clamp[l] ELSE u.next[l]

(* The buffered IDs every live lane has passed; all of them once no lane    *)
(* is left.                                                                 *)
Final(u) == {i \in DOMAIN u.buffer : \A l \in DOMAIN u.next : i < LaneBound(u, l)}

(* The bounded identity set keeps the largest IDs.                          *)
Newest(f) == Restrict(f, {i \in DOMAIN f : Cardinality({j \in DOMAIN f : j > i}) < PublishedCap})

(* The batch drain() returns, in ID order, and the union it leaves.         *)
Batch(u) ==
  [k \in 1..Cardinality(Final(u)) |->
     LET i == SetToSortSeq(Final(u), <)[k]
     IN  [id |-> i, digest |-> u.buffer[i]]]

Drained(u) ==
  IF Final(u) = {} THEN u
  ELSE [u EXCEPT !.buffer = Restrict(@, DOMAIN @ \ Final(u)),
                 !.last = Max(Final(u)),
                 !.published = Newest(Restrict(u.buffer, Final(u)) @@ @)]

Advance(next, l, i) ==
  (l :> IF l \in DOMAIN next THEN Max({next[l], i + 1}) ELSE i + 1) @@ next

FastForward(u, l, i) ==
  [u EXCEPT !.next = Advance(@, l, i), !.floor = Max({@, i})]

-----------------------------------------------------------------------------
(* Mutant: the durable log is not consulted.                                *)
KnownCached(u, i, logged) ==
  IF i \in DOMAIN u.corrected THEN u.corrected[i]
  ELSE IF i \in DOMAIN u.published THEN u.published[i] ELSE None

(* What an already passed ID was published or corrected as; `logged' is the *)
(* answer of the durable identity log, None when it has none.               *)
KnownDigest(u, i, logged) ==
  IF i \in DOMAIN u.corrected THEN u.corrected[i]
  ELSE IF i \in DOMAIN u.published THEN u.published[i] ELSE logged

(* How observe() classifies trade t.                                        *)
Disposition(u, t, logged) ==
  IF t.id <= u.floor THEN "PRECANONICAL"
  ELSE IF t.id <= u.last
       THEN CASE KnownDigest(u, t.id, logged) = None -> "UNKNOWN"
              [] KnownDigest(u, t.id, logged) = t.digest -> "DUPLICATE"
              [] OTHER -> "CONFLICT"
  ELSE IF t.id \in DOMAIN u.buffer /\ u.buffer[t.id] # t.digest THEN "CONFLICT"
  ELSE "BUFFERED"

(* The union after observe(), before drain().                               *)
Observed(u, l, t, disposition) ==
  CASE disposition = "UNKNOWN" ->
         [u EXCEPT !.corrected = (t.id :> t.digest) @@ @]
    [] disposition = "BUFFERED" ->
         [u EXCEPT !.buffer = (t.id :> t.digest) @@ @,
                   !.next = Advance(@, l, t.id)]
    [] OTHER -> u

ExcludeLane(u, l) == [u EXCEPT !.next = Restrict(@, DOMAIN @ \ {l})]
=============================================================================
