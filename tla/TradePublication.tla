-------------------------- MODULE TradePublication --------------------------
(***************************************************************************)
(* The trade half of the canonical arbiter across crashes and restarts:    *)
(* the union of TradeUnion, the durable trade identity log and the chain   *)
(* of journal segments (rust/lob-replay/src/live_arbitration.rs and        *)
(* bin/live_arbitration.rs).                                               *)
(*                                                                         *)
(* raw[l] is the durable trade stream of lane l: the IDs it captured, in   *)
(* venue order, some of them perhaps missed.  The first base[l] of them    *)
(* are in sealed generations older than the one the arbiter binds.  The    *)
(* payload of a trade is the same on both lanes unless its ID is Disputed. *)
(* A journal segment is a sequence of events; the empty one is a segment   *)
(* file created and not written yet.  A crash is the death of the process: *)
(* what was written to a file stays.  Depth records, lag status records,   *)
(* hashes, lineage and the counters of the terminal are left out.          *)
(***************************************************************************)
EXTENDS TradeUnion

CONSTANTS
  Primary,       \* the lane the lag policy tries first
  MaxId,         \* bound: trade IDs
  Disputed,      \* IDs whose payload differs between the lanes
  CrashPoints,   \* the values of pc at which the process may die
  MaxStarts      \* bound: starts of the arbiter

ASSUME PublicationAssumption ==
  Primary \in Lane /\ MaxId \in Nat /\ Disputed \subseteq 1..MaxId /\ MaxStarts \in Nat

VARIABLES
  raw, sealed, base,   \* the lanes' durable trade streams
  consumed,            \* how much of each the arbiter has consumed
  union,               \* TradeUnionState
  known,               \* journaled_duplicate_corrections of the recovery
  batch,               \* drained trades not journaled yet
  idlog,               \* the identity log file: its records and its header's count
  handle,              \* the open TradeIdentityLog: count and last ID
  journal,             \* the segments, oldest first
  segment,             \* the segment the rebuild has reached
  pc, live,            \* live: the main loop has been entered
  starts,
  torn                 \* history: a crash left identity records no header counts
streams == <<raw, sealed, base>>
process == <<consumed, union, known, batch, handle, segment, live>>
pubVars == <<streams, process, idlog, journal, pc, starts, torn>>

-----------------------------------------------------------------------------
Trade(l, i) == [id |-> i, digest |-> IF i \in Disputed THEN l ELSE "SAME"]

Event(e, i, l, d) == [event |-> e, id |-> i, lane |-> l, digest |-> d]
Plain(e, i) == Event(e, i, None, None)

(* Append an event to the segment being written.                            *)
Wrote(e) == [journal EXCEPT ![Len(journal)] = Append(@, e)]

Trades(events) == SelectSeq(events, LAMBDA e : e.event = "TRADE")
LastTrade(events) == IF Trades(events) = <<>> THEN 0 ELSE Last(Trades(events)).id
StartupFloor(events) == Head(events).id
(* Mutant: the published position is forgotten.                             *)
StartupOnly(events) == StartupFloor(events)
(* The floor recovery declares and restores as the published position.      *)
ResumeFloor(events) == Max({LastTrade(events), StartupFloor(events)})

Idle ==
  /\ consumed = [l \in Lane |-> 0] /\ union = NewUnion /\ known = {} /\ batch = <<>>
  /\ handle = None /\ segment = 0 /\ live = FALSE

PublicationInit ==
  /\ raw = [l \in Lane |-> <<>>] /\ sealed = [l \in Lane |-> FALSE] /\ base = [l \in Lane |-> 0]
  /\ Idle
  /\ idlog = None /\ journal = <<>> /\ pc = "DOWN" /\ starts = 0 /\ torn = FALSE

-----------------------------------------------------------------------------
(* The capture lanes.                                                       *)
Capture(l) ==
  /\ ~sealed[l]
  /\ \E i \in (IF raw[l] = <<>> THEN 1 ELSE Last(raw[l]) + 1) .. MaxId :
       raw' = [raw EXCEPT ![l] = Append(@, i)]
  /\ UNCHANGED <<sealed, base, process, idlog, journal, pc, starts, torn>>

Seal(l) ==
  /\ ~sealed[l]
  /\ sealed' = [sealed EXCEPT ![l] = TRUE]
  /\ UNCHANGED <<raw, base, process, idlog, journal, pc, starts, torn>>

(* While the arbiter is down a lane starts a new generation, the one the    *)
(* next start binds.                                                        *)
Renew(l) ==
  /\ pc = "DOWN" /\ journal # <<>> /\ ~sealed[l] /\ base[l] < Len(raw[l])
  /\ base' = [base EXCEPT ![l] = Len(raw[l])]
  /\ UNCHANGED <<raw, sealed, process, idlog, journal, pc, starts, torn>>

-----------------------------------------------------------------------------
(* The identity log file.                                                   *)
EmptyLog == [records |-> <<>>, header |-> 0]

Opened(log) ==
  [count |-> log.header, last |-> IF log.header = 0 THEN 0 ELSE log.records[log.header].id]

StrictlyIncreasing(s) == \A k \in 1..Len(s)-1 : s[k].id < s[k+1].id

(* insert() of each trade of ts: records go to the end of the file.         *)
Inserted(log, ts) == [log EXCEPT !.records = @ \o [k \in DOMAIN ts |-> [id |-> ts[k].id, digest |-> ts[k].digest]]]
Counted(h, ts) == [count |-> h.count + Len(ts), last |-> Last(ts).id]
(* sync(): the header's count commits them.                                 *)
Synced(log, h) == [log EXCEPT !.header = h.count]

(* lookup(): binary search over the counted records.                        *)
Lookup(i) ==
  LET Search[lo \in 0..handle.count, hi \in 0..handle.count] ==
        IF lo >= hi THEN lo
        ELSE LET middle == lo + (hi - lo) \div 2
             IN  IF idlog.records[middle + 1].id < i THEN Search[middle + 1, hi] ELSE Search[lo, middle]
      at == Search[0, handle.count] + 1
  IN  IF at <= handle.count /\ idlog.records[at].id = i THEN idlog.records[at].digest ELSE None

-----------------------------------------------------------------------------
(* The trade rules of the journal audit every recovery runs on the chain.   *)
AuditAccepts(events) ==
  \A k \in DOMAIN events :
    LET e == events[k]
        past == SubSeq(events, 1, k - 1)
        identities(kind) == {p \in ToSet(past) : p.event = kind /\ p.id = e.id}
        prior == IF identities("TRADE") # {} THEN identities("TRADE") ELSE identities("UNKNOWN")
    IN  CASE e.event = "TRADE" -> e.id > LastTrade(past) /\ e.id > StartupFloor(events)
          [] e.event = "RESUMED" -> e.id = ResumeFloor(past)
          [] e.event \in {"DUPLICATE", "UNKNOWN"} ->
               /\ e.id <= LastTrade(past) /\ e.id > StartupFloor(events)
               /\ IF e.event = "UNKNOWN" THEN prior = {}
                  ELSE prior # {} /\ \A p \in prior : p.digest = e.digest
          [] OTHER -> TRUE

(* A start removes the segment files that were never written and creates    *)
(* its own.                                                                 *)
Chain == SelectSeq(journal, LAMBDA s : s # <<>>)

Starting ==
  /\ pc = "DOWN" /\ starts < MaxStarts
  /\ starts' = starts + 1
  /\ journal' = Append(Chain, <<>>)

Refused == pc' = "REFUSED" /\ UNCHANGED <<process, idlog>>

(* No chain: a first start, which must create the identity log itself.      *)
StartFresh ==
  /\ Starting /\ Chain = <<>>
  /\ IF idlog = None
     THEN /\ idlog' = EmptyLog /\ handle' = Opened(EmptyLog) /\ pc' = "CREATED"
          /\ UNCHANGED <<consumed, union, known, batch, segment, live>>
     ELSE Refused
  /\ UNCHANGED <<streams, torn>>

(* The lanes' present prefixes set the floor the journal declares.          *)
Forwarded(u, l, ids) == FoldLeft(LAMBDA v, i : FastForward(v, l, i), u, ids)

Begin ==
  /\ pc = "CREATED"
  /\ union' = FoldLeft(LAMBDA u, l : Forwarded(u, l, raw[l]), NewUnion, SetToSeq(Lane))
  /\ consumed' = [l \in Lane |-> Len(raw[l])]
  /\ journal' = Wrote(Plain("STARTED", union'.floor))
  /\ pc' = "UP" /\ live' = TRUE
  /\ UNCHANGED <<streams, known, batch, handle, segment, idlog, starts, torn>>

(* recover_arbitration_state_opt: audit the chain and open the identity     *)
(* log, which starts again from nothing when it is ahead of the journal.    *)
Recover ==
  /\ Starting /\ Chain # <<>>
  /\ IF AuditAccepts(FlattenSeq(Chain))
     THEN LET log == IF idlog = None \/ Opened(idlog).last > ResumeFloor(FlattenSeq(Chain))
                     THEN EmptyLog ELSE idlog
          IN  /\ idlog' = log /\ handle' = Opened(log) /\ segment' = 1 /\ pc' = "REBUILD"
              /\ UNCHANGED <<consumed, union, known, batch, live>>
     ELSE Refused
  /\ UNCHANGED <<streams, torn>>

(* rebuild_trade_identity_from_journal for one segment: insert what the log *)
(* lacks, then commit.                                                      *)
RebuildSegment ==
  /\ pc = "REBUILD" /\ segment < Len(journal)
  /\ LET missing == SelectSeq(journal[segment], LAMBDA e : e.event = "TRADE" /\ e.id > handle.last)
     IN  IF missing = <<>>
         THEN segment' = segment + 1 /\ UNCHANGED <<idlog, handle, pc>>
         ELSE /\ idlog' = Inserted(idlog, missing) /\ handle' = Counted(handle, missing)
              /\ pc' = "REBUILT" /\ UNCHANGED segment
  /\ UNCHANGED <<streams, consumed, union, known, batch, live, journal, starts, torn>>

RebuildSync ==
  /\ pc = "REBUILT"
  /\ idlog' = Synced(idlog, handle) /\ segment' = segment + 1 /\ pc' = "REBUILD"
  /\ UNCHANGED <<streams, consumed, union, known, batch, handle, live, journal, starts, torn>>

(* Validate the log, open the new segment and restore the union.            *)
Resume ==
  /\ pc = "REBUILD" /\ segment = Len(journal)
  /\ LET chain == FlattenSeq(Chain)
         kind(k) == {e \in ToSet(chain) : e.event = k}
     IN  IF StrictlyIncreasing(SubSeq(idlog.records, 1, handle.count))
         THEN /\ journal' = Wrote(Plain("RESUMED", ResumeFloor(chain)))
              /\ handle' = Opened(idlog)
              /\ union' = [NewUnion EXCEPT
                   !.last = ResumeFloor(chain), !.floor = StartupFloor(chain),
                   !.corrected = [i \in {e.id : e \in kind("UNKNOWN")} |->
                                    (CHOOSE e \in kind("UNKNOWN") : e.id = i).digest]]
              /\ known' = {<<e.id, e.lane, e.digest>> : e \in kind("DUPLICATE")}
              /\ pc' = "UP" /\ UNCHANGED <<consumed, batch, segment, live, idlog>>
         ELSE Refused /\ UNCHANGED journal
  /\ UNCHANGED <<streams, starts, torn>>

-----------------------------------------------------------------------------
(* One record of lane l.  The historical generations come first, one whole  *)
(* generation after another; then the bound one, polled.                    *)
Walking(l) ==
  /\ ~live /\ consumed[l] < base[l]
  /\ \A m \in Lane \ {l} : consumed[m] \in {0, base[m]}
Feeding(l) == live /\ consumed[l] < Len(raw[l])
Taken(l) ==
  /\ pc = "UP" /\ (Walking(l) \/ Feeding(l))
  /\ consumed' = [consumed EXCEPT ![l] = @ + 1]
NextTrade(l) == Trade(l, raw[l][consumed[l] + 1])
Class(l) == Disposition(union, NextTrade(l), Lookup(NextTrade(l).id))

(* drain() and its caller: the drained trades enter the identity log, then  *)
(* (SyncIdentity, AppendTrade) are committed there and journaled.           *)
Publishes(u) ==
  /\ union' = Drained(u) /\ batch' = Batch(u)
  /\ IF Batch(u) = <<>> THEN UNCHANGED <<idlog, handle, pc>>
     ELSE /\ idlog' = Inserted(idlog, Batch(u)) /\ handle' = Counted(handle, Batch(u))
          /\ pc' = "INSERTED"

ForwardHistory(l) ==
  /\ Taken(l) /\ ~live /\ NextTrade(l).id <= union.floor
  /\ union' = FastForward(union, l, NextTrade(l).id)
  /\ UNCHANGED <<streams, known, batch, handle, segment, live, idlog, journal, pc, starts, torn>>

SkipPrecanonical(l) ==
  /\ Taken(l) /\ live /\ Class(l) = "PRECANONICAL"
  /\ UNCHANGED <<streams, union, known, batch, handle, segment, live, idlog, journal, pc, starts, torn>>

ObserveTrade(l) ==
  /\ Taken(l) /\ Class(l) = "BUFFERED"
  /\ Publishes(Observed(union, l, NextTrade(l), "BUFFERED"))
  /\ UNCHANGED <<streams, known, segment, live, journal, starts, torn>>

(* A late trade is journaled with its kind.  The historical walk leaves out *)
(* a duplicate the recovered journal already holds.                         *)
CorrectLate(l) ==
  /\ Taken(l) /\ Class(l) \in {"UNKNOWN", "DUPLICATE"}
  /\ LET t == NextTrade(l)
         evidence == <<t.id, l, t.digest>>
         walked == ~live /\ Class(l) = "DUPLICATE"
     IN  /\ union' = Observed(union, l, t, Class(l))
         /\ known' = IF walked THEN known \cup {evidence} ELSE known
         /\ journal' = IF walked /\ evidence \in known THEN journal
                       ELSE Wrote(Event(Class(l), t.id, l, t.digest))
  /\ UNCHANGED <<streams, batch, handle, segment, live, idlog, pc, starts, torn>>

Die ==
  /\ consumed' = [l \in Lane |-> 0] /\ union' = NewUnion /\ known' = {} /\ batch' = <<>>
  /\ handle' = None /\ segment' = 0 /\ live' = FALSE

(* Two payloads for one ID: journaled, and the arbiter exits.               *)
Dispute(l) ==
  /\ pc = "UP" /\ (Walking(l) \/ Feeding(l)) /\ Class(l) = "CONFLICT"
  /\ journal' = Wrote(Event("CONFLICT", NextTrade(l).id, l, None))
  /\ pc' = "DOWN" /\ Die
  /\ UNCHANGED <<streams, idlog, starts, torn>>

SyncIdentity ==
  /\ pc = "INSERTED"
  /\ idlog' = Synced(idlog, handle) /\ pc' = "PUBLISHING"
  /\ UNCHANGED <<streams, process, journal, starts, torn>>

AppendTrade ==
  /\ pc = "PUBLISHING"
  /\ journal' = Wrote(Event("TRADE", Head(batch).id, None, Head(batch).digest))
  /\ batch' = Tail(batch)
  /\ pc' = IF Len(batch) = 1 THEN "UP" ELSE "PUBLISHING"
  /\ UNCHANGED <<streams, consumed, union, known, handle, segment, live, idlog, starts, torn>>

(* Mutant: the bound generations are consumed up to the published position. *)
BindPublished ==
  /\ pc = "UP" /\ ~live /\ \A l \in Lane : consumed[l] = base[l]
  /\ LET bound(l) == SelectSeq(SubSeq(raw[l], base[l] + 1, Len(raw[l])), LAMBDA i : i <= union.last)
     IN  /\ union' = FoldLeft(LAMBDA u, l : Forwarded(u, l, bound(l)), union, SetToSeq(Lane))
         /\ consumed' = [l \in Lane |-> base[l] + Len(bound(l))]
  /\ live' = TRUE
  /\ UNCHANGED <<streams, known, batch, handle, segment, idlog, journal, pc, starts, torn>>

(* History walked: the bound generations are consumed up to the floor and   *)
(* the main loop begins.                                                    *)
BindLive ==
  /\ pc = "UP" /\ ~live /\ \A l \in Lane : consumed[l] = base[l]
  /\ LET bound(l) == SelectSeq(SubSeq(raw[l], base[l] + 1, Len(raw[l])), LAMBDA i : i <= union.floor)
     IN  /\ union' = FoldLeft(LAMBDA u, l : Forwarded(u, l, bound(l)), union, SetToSeq(Lane))
         /\ consumed' = [l \in Lane |-> base[l] + Len(bound(l))]
  /\ live' = TRUE
  /\ UNCHANGED <<streams, known, batch, handle, segment, idlog, journal, pc, starts, torn>>

-----------------------------------------------------------------------------
(* The lag policy excludes the lane that holds the watermark; the next      *)
(* iteration's flush releases what it held.                                 *)
Holds(l) ==
  /\ l \in DOMAIN union.next
  /\ \A m \in DOMAIN union.next : union.next[l] <= union.next[m]
  /\ l # Primary => ~(Primary \in DOMAIN union.next /\ union.next[Primary] <= union.next[l])

ExcludeLagging(l) ==
  /\ pc = "UP" /\ live /\ union.buffer # Empty /\ Holds(l)
  /\ union' = ExcludeLane(union, l)
  /\ UNCHANGED <<streams, consumed, known, batch, handle, segment, live, idlog, journal, pc, starts, torn>>

Flush ==
  /\ pc = "UP" /\ live /\ Final(union) # {}
  /\ Publishes(union)
  /\ UNCHANGED <<streams, consumed, known, segment, live, journal, starts, torn>>

(* A cooperative stop: a sealed lane consumed to its end stops bounding the *)
(* watermark, and the terminal commits once nothing is pending.             *)
Exhausted(l) == sealed[l] /\ consumed[l] = Len(raw[l])

StopDrain ==
  /\ pc = "UP" /\ live /\ \E l \in DOMAIN union.next : Exhausted(l)
  /\ Publishes([union EXCEPT !.next = RestrictDomain(@, LAMBDA l : ~Exhausted(l))])
  /\ UNCHANGED <<streams, consumed, known, segment, live, journal, starts, torn>>

Terminate ==
  /\ pc = "UP" /\ live /\ \A l \in Lane : Exhausted(l)
  /\ union.buffer = Empty
  /\ journal' = Wrote(Plain("TERMINAL", 0))
  /\ pc' = "STOPPED"
  /\ UNCHANGED <<streams, process, idlog, starts, torn>>

Crash ==
  /\ pc \in CrashPoints
  /\ pc' = "DOWN" /\ Die
  /\ torn' = (torn \/ (idlog # None /\ Len(idlog.records) > idlog.header))
  /\ UNCHANGED <<streams, idlog, journal, starts>>

PublicationNext ==
  \/ \E l \in Lane : Capture(l) \/ Seal(l) \/ Renew(l)
  \/ StartFresh \/ Begin \/ Recover \/ RebuildSegment \/ RebuildSync \/ Resume
  \/ \E l \in Lane : ForwardHistory(l) \/ SkipPrecanonical(l) \/ ObserveTrade(l) \/ CorrectLate(l) \/ Dispute(l)
  \/ BindLive \/ SyncIdentity \/ AppendTrade
  \/ \E l \in Lane : ExcludeLagging(l)
  \/ Flush \/ StopDrain \/ Terminate \/ Crash

PublicationSpec == PublicationInit /\ [][PublicationNext]_pubVars

-----------------------------------------------------------------------------
Written == FlattenSeq(journal)
Kind(k) == {e \in ToSet(Written) : e.event = k}

(* Over a crash at any point and a restart the canonical journal publishes  *)
(* a trade at most once, in strictly increasing order, and never one at or  *)
(* below the floor its first segment declares.                              *)
PublishedOnce ==
  /\ StrictlyIncreasing(Trades(Written))
  /\ \A e \in Kind("TRADE") : e.id > StartupFloor(Written)

(* No trade is lost: what the arbiter has consumed of a lane is before the  *)
(* declared floor, published, corrected as unknown, buffered or in the      *)
(* batch being published; at the terminal all of it is in the journal.      *)
(* This holds after a crash at any point but one: between the appending of  *)
(* identity records and the sync of the header that counts them the crash   *)
(* leaves a tail; the next start appends behind it and comes to count it,   *)
(* and an unpublished trade found there passes for a duplicate.  Once a     *)
(* crash fell there (torn), nothing is claimed.                             *)
NothingLost ==
  LET recorded == {e.id : e \in Kind("TRADE") \cup Kind("UNKNOWN")}
      Lost(i) == i > StartupFloor(Written) /\ i \notin recorded
  IN  torn \/
      /\ pc \in {"UP", "INSERTED", "PUBLISHING"} =>
           \A l \in Lane : \A k \in 1..consumed[l] :
             Lost(raw[l][k]) =>
               \/ raw[l][k] \in DOMAIN union.buffer
               \/ \E n \in DOMAIN batch : batch[n].id = raw[l][k]
      /\ pc = "STOPPED" => \A l \in Lane : \A i \in ToSet(raw[l]) : ~Lost(i)

(* Whenever the arbiter classifies a trade, the identity log finds every    *)
(* published one with its payload, whatever the bounded cache has evicted.  *)
IdentityComplete ==
  pc = "UP" => \A e \in Kind("TRADE") : Lookup(e.id) = e.digest

(* A late correction tells the truth about the journal it is written to: an *)
(* `unknown' trade was never published nor corrected before, a `duplicate'  *)
(* repeats the payload recorded for its ID.  No second payload is accepted, *)
(* and what classifies the trades, the identity log, is complete.  The *)
(* exception is that of NothingLost: a crash before the header was synced.  *)
CorrectionsAreTrue ==
  LET written == Written
      Telling(i) == {k \in DOMAIN written : written[k].event \in {"UNKNOWN", "TRADE"} /\ written[k].id = i}
  IN  torn \/
      /\ IdentityComplete
      /\ \A j \in DOMAIN written : written[j].event = "UNKNOWN" => Telling(written[j].id) = {j}
      /\ \A j \in DOMAIN written : written[j].event = "DUPLICATE" =>
           /\ \E k \in Telling(written[j].id) : k < j
           /\ \A k \in Telling(written[j].id) : written[k].digest = written[j].digest

(* The records the identity log's header commits are in increasing order,   *)
(* as validate() requires: "a torn tail can never be read as a record".     *)
TornTailNeverRead ==
  idlog # None => StrictlyIncreasing(SubSeq(idlog.records, 1, idlog.header))

(* "Any exit is recovered with --resume": a start is never refused.         *)
AnyExitRecovered == pc # "REFUSED"
=============================================================================
