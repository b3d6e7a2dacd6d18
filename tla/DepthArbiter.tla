---------------------------- MODULE DepthArbiter ----------------------------
(***************************************************************************)
(* The depth half of the canonical arbiter (bin/live_arbitration.rs): one  *)
(* lane serves, the other stands by, and the journal carries every depth   *)
(* frame once, across generation renewals, proven switches, typed gaps,    *)
(* crashes and resumes.                                                    *)
(*                                                                         *)
(* The venue's depth frames tile the update IDs and are the same on every  *)
(* connection, so a frame is its number and a position is the number of    *)
(* the last frame.  A generation holds the frames from..upto durably, in   *)
(* segments of SegmentFrames; its book starts from a snapshot that need    *)
(* not hold every level, and equals the venue's book from frame conv on.   *)
(* Trades are what TradePublication models: here they only decide, as a    *)
(* choice, whether a sealed predecessor is drained.                        *)
(***************************************************************************)
EXTENDS Integers, Sequences, SequencesExt, FiniteSetsExt

CONSTANTS
  Frames,        \* bound: venue frames
  SegmentFrames, \* frames of a segment
  MaxGens,       \* bound: generations of each lane
  Convergence,   \* the frames from which a lane's book may be the venue's
  Budget,        \* DEPTH_SWITCH_RECORD_BUDGET
  MaxStarts,     \* bound: starts of the arbiter
  Kills          \* whether a generation may die without its terminal

ASSUME DepthAssumption ==
  /\ Frames \in Nat /\ SegmentFrames \in Nat \ {0}
  /\ MaxGens \in [{"PRIMARY", "SHADOW"} -> Nat]
  /\ Convergence \in [{"PRIMARY", "SHADOW"} -> SUBSET Nat]
  /\ Budget \in Nat \ {0} /\ MaxStarts \in Nat /\ Kills \in BOOLEAN

Lane == {"PRIMARY", "SHADOW"}
Other(l) == IF l = "PRIMARY" THEN "SHADOW" ELSE "PRIMARY"

VARIABLES
  gens,       \* the generations of each lane, oldest first
  request,    \* the stop and rebind files
  bind, cand, \* the binding of each lane; its candidate, or None
  serving, pos, stopGap,
  it,         \* what the iteration has established so far
  audit,      \* the journal, as apply_audit_record sees it
  rec,        \* the journal, as recover_arbitration_state_opt reads it
  bridged,    \* the records that continued another book's sequence
  pc, starts
memory == <<bind, cand, serving, pos, stopGap, it>>
written == <<audit, rec, bridged>>
depthVars == <<gens, request, memory, written, pc, starts>>

-----------------------------------------------------------------------------
(* Generations.                                                             *)
Now == Max({g.upto : g \in UNION {Range(gens[l]) : l \in Lane}})
NewGen(c) == [from |-> Now + 1, upto |-> Now, end |-> "RUNNING", conv |-> c]
Gen(l, b) == gens[l][b.gen]
Latest(l) == Len(gens[l])
Bindable(g) == g.upto >= g.from
Complete(g) == g.end = "COMPLETE"
Sealed(g) == Complete(g)
(* The sealed segments of a generation, and the last frame of its root      *)
(* segment once that is sealed.                                             *)
Segment(g, k) == (k - g.from) \div SegmentFrames
Seals(g) == Segment(g, g.upto) + IF Complete(g) THEN 1 ELSE 0
RootEnd(g) == Min({g.upto, g.from + SegmentFrames - 1})
Digest(l, i, k) == IF k >= gens[l][i].conv THEN <<>> ELSE <<l, i>>

(* The journal.  An event is appended to what the auditor and the recovery  *)
(* make of the records before it.                                           *)
Obs(l, i, k) == [event |-> "DEPTH_OBSERVATION", lane |-> l, gen |-> i, frame |-> k]
Mark(e, l, k) == [event |-> e, lane |-> l, gen |-> 0, frame |-> k]
ObsRange(l, i, a, b) == [j \in 1..Max({0, b - a + 1}) |-> Obs(l, i, a + j - 1)]

NoAudit == [rejected |-> "", next |-> 0, last |-> 0, gaps |-> 0, started |-> FALSE]
Checked(a, ok, why) == IF a.rejected = "" /\ ~ok THEN why ELSE a.rejected
AuditObservation(a, e) ==
  [a EXCEPT !.rejected = Checked(a, IF a.next # 0 THEN e.frame = a.next ELSE e.frame > a.last, "RANGE"),
            !.next = e.frame + 1, !.last = e.frame]
AuditGap(a, e) ==
  [a EXCEPT !.rejected = Checked(a, e.frame = a.last, IF a.last = 0 THEN "EARLY_GAP" ELSE "GAP"),
            !.next = 0, !.gaps = @ + 1]
AuditRebootstrap(a, e) ==
  [a EXCEPT !.rejected = Checked(a, a.gaps # 0 /\ a.next = 0, "REBOOTSTRAP")]
Audited(a, e) ==
  CASE e.event = "DEPTH_OBSERVATION" -> AuditObservation(a, e)
    [] e.event = "GAP" -> AuditGap(a, e)
    [] e.event = "DEPTH_REBOOTSTRAP" -> AuditRebootstrap(a, e)
    [] e.event = "ARBITRATION_STARTED" -> [a EXCEPT !.started = TRUE]
    [] OTHER -> a

NoPosition == [final |-> 0, digest |-> <<>>, floor |-> 0]
At(p, l, i, k) == [p EXCEPT !.final = k, !.digest = Digest(l, i, k)]
(* Mutant: recovery keeps the cursor a typed gap has given up.              *)
RecoveredKeepsCursor(r, e) ==
  CASE e.event = "DEPTH_OBSERVATION" ->
         [r EXCEPT !.pos = At(@, e.lane, e.gen, e.frame)]
    [] e.event = "GAP" -> [r EXCEPT !.pos.floor = e.frame]
    [] e.event \in {"DEPTH_SWITCH_PROVEN", "DEPTH_REBOOTSTRAP"} -> [r EXCEPT !.serving = e.lane]
    [] OTHER -> r
Recovered(r, e) ==
  CASE e.event = "DEPTH_OBSERVATION" ->
         [r EXCEPT !.pos = At(@, e.lane, e.gen, e.frame)]
    [] e.event = "GAP" -> [r EXCEPT !.pos = [NoPosition EXCEPT !.floor = e.frame]]
    [] e.event \in {"DEPTH_SWITCH_PROVEN", "DEPTH_REBOOTSTRAP"} -> [r EXCEPT !.serving = e.lane]
    [] OTHER -> r

(* A frame that follows the last one but belongs to a book that differs     *)
(* from the published one there.                                            *)
Bridge(e) ==
  /\ e.event = "DEPTH_OBSERVATION" /\ rec.pos.final # 0 /\ e.frame = rec.pos.final + 1
  /\ Digest(e.lane, e.gen, rec.pos.final) # rec.pos.digest
Wrote(events) ==
  LET observes == \E j \in DOMAIN events : events[j].event = "DEPTH_OBSERVATION"
      bridges == events # <<>> /\ Bridge(events[1])
  IN /\ audit' = FoldLeft(Audited, audit, events)
     /\ rec' = FoldLeft(Recovered, rec, events)
     /\ bridged' = [live |-> bridged.live \/ (bridges /\ ~bridged.resumed),
                    resumed |-> ~observes /\ (bridged.resumed \/ \E j \in DOMAIN events :
                                                 events[j].event = "ARBITRATION_RESUMED")]

-----------------------------------------------------------------------------
(* Bindings.  pending is the range low..consumed: observations enter it in  *)
(* frame order at the end and leave it at the front.                        *)
None == [gen |-> 0]
NoReplay == [on |-> FALSE, at |-> 0, target |-> 0]
Pending(b) == b.low..b.consumed

Refresh(l, b) == [b EXCEPT !.loaded = Gen(l, b).upto]

(* bootstrap_depth: seals the follower has not passed are loaded first.     *)
(* Frames of a sealed root segment, or of one in flight, are consumed; what *)
(* follows a sealed root is the trail.                                      *)
Synced(l, b) == IF Seals(Gen(l, b)) > Segment(Gen(l, b), b.loaded) THEN Refresh(l, b) ELSE b
BootstrapDepth(l, b) ==
  LET s == Synced(l, b) IN
  [gen |-> s.gen, loaded |-> s.loaded, consumed |-> s.loaded,
   low |-> (IF Seals(Gen(l, b)) > 0 THEN RootEnd(Gen(l, b)) ELSE s.loaded) + 1,
   witness |-> 0, replay |-> NoReplay, unproven |-> FALSE]

Opened(l) == [gen |-> Latest(l), loaded |-> gens[l][Latest(l)].upto]
Bind(l) == BootstrapDepth(l, Opened(l))

ApplyNewDepth(b, n) == [b EXCEPT !.consumed = Min({b.loaded, @ + n})]

Trimmed(b, k) == [b EXCEPT !.low = Min({b.consumed + 1, Max({@, k + 1})})]

TrimDepthHistory(b, p) ==
  LET w == IF p.final # 0 /\ p.final \in Pending(b) THEN p.final
           ELSE IF b.witness = p.final THEN b.witness ELSE 0
  IN Trimmed(Trimmed([b EXCEPT !.witness = IF w <= p.floor THEN 0 ELSE w], p.final), p.floor)

(* publish_pending_depth: of the first n pending frames those at or below   *)
(* the position or the floor are dropped and the others are journaled.      *)
(* A first frame beyond the next one is missing updates: nothing changes.   *)
Missing(b, p) == p.final # 0 /\ Pending(b) # {} /\ b.low > p.final + 1
PublishFrom(b, p) == Max({b.low, p.final + 1, p.floor + 1})
Publishes(b, p, n) ==
  [from |-> PublishFrom(b, p),
   to |-> IF Missing(b, p) THEN 0 ELSE Min({b.consumed, b.low + n - 1})]
Shrunk(b, r) == [b EXCEPT !.low = Max({@, r.to + 1})]
Moved(p, l, i, r) == IF r.from <= r.to THEN At(p, l, i, r.to) ELSE p

-----------------------------------------------------------------------------
(* The switch proof.                                                        *)
Converged(l, b, p, k) == k = p.final /\ Digest(l, b.gen, k) = p.digest

(* Mutant: the right frame is taken for the right book.                     *)
WitnessedByNumber(l, b, p) == b.witness = p.final \/ p.final \in Pending(b)
Witnessed(l, b, p) == \E k \in {b.witness} \cup Pending(b) : Converged(l, b, p, k)

(* replay_sibling_slice: the generation replayed from its snapshot, up to   *)
(* n records past the slice before, stopping once a budget of frames beyond *)
(* the target is at hand.                                                   *)
Replayed(l, b, p, n) ==
  LET old == b.replay
      r == IF old.on /\ old.target <= p.final THEN old
           ELSE [on |-> TRUE, at |-> Gen(l, b).from - 1, target |-> p.final]
      at == Min({b.loaded, r.at + n, Max({r.at, p.final + Budget, Gen(l, b).from + Budget - 1})})
  IN [on |-> TRUE, at |-> at, target |-> p.final]
ReplayTail(l, b, r) == Max({r.target + 1, Gen(l, b).from})..r.at
ReplayProves(l, b, p, r) ==
  /\ p.final \in Gen(l, b).from..r.at /\ Converged(l, b, p, p.final)
  /\ ReplayTail(l, b, r) # {}

(* evaluate_depth_switch_with_fallback: the sibling after the evaluation    *)
(* and the frames it offers.                                                *)
Evaluated(l, b, p, n) ==
  IF Witnessed(l, b, p)
  THEN [b |-> [b EXCEPT !.unproven = FALSE],
        tail |-> {k \in Pending(b) : k > p.final /\ k < PublishFrom(b, p) + Budget}]
  ELSE LET r == Replayed(l, b, p, n) IN
       IF ReplayProves(l, b, p, r)
       THEN [b |-> [b EXCEPT !.consumed = r.at, !.low = Min(ReplayTail(l, b, r)),
                             !.witness = p.final, !.replay = NoReplay, !.unproven = FALSE],
             tail |-> ReplayTail(l, b, r)]
       ELSE [b |-> [b EXCEPT !.replay = r,
                             !.unproven = ReplayTail(l, b, r) = {} /\ r.at < b.loaded],
             tail |-> {}]
Bridges(tail, p) == tail # {} /\ Min(tail) = p.final + 1

(* gap_and_bootstrap_depth: what it makes of a binding, and what it writes. *)
Vacuous(l, b) == Pending(b) = {} /\ Sealed(Gen(l, b))
GapBootstrap(l, b, p, n) ==
  LET c == Trimmed(BootstrapDepth(l, b), p.final)
      q == [NoPosition EXCEPT !.floor = p.final]
      r == Publishes(c, q, n)
  IN IF Vacuous(l, c) THEN [b |-> c, pos |-> p, events |-> <<>>]
     ELSE [b |-> Shrunk(c, r), pos |-> Moved(q, l, b.gen, r),
           events |-> <<Mark("GAP", l, p.final), Mark("DEPTH_REBOOTSTRAP", l, 0)>>
                        \o ObsRange(l, b.gen, r.from, r.to)]

-----------------------------------------------------------------------------
(* The captures: the environment of the arbiter.                            *)
Renew(l) ==
  /\ Latest(l) < MaxGens[l]
  /\ \E c \in Convergence[l] : gens' = [gens EXCEPT ![l] = Append(@, NewGen(c))]
CaptureFrame(l, i) ==
  /\ gens[l][i].end = "RUNNING" /\ gens[l][i].upto < Frames
  /\ gens' = [gens EXCEPT ![l][i].upto = @ + 1]
EndGeneration(l, i) ==
  /\ gens[l][i].end = "RUNNING" /\ Bindable(gens[l][i])
  /\ \E how \in {"COMPLETE"} \cup IF Kills THEN {"KILLED"} ELSE {} :
       gens' = [gens EXCEPT ![l][i].end = how]
Captures ==
  /\ pc \notin {"DONE", "HANDOFF", "FAILED"}
  /\ \E l \in Lane : \/ Renew(l)
                     \/ \E i \in DOMAIN gens[l] : CaptureFrame(l, i) \/ EndGeneration(l, i)
  /\ UNCHANGED <<request, memory, written, pc, starts>>

-----------------------------------------------------------------------------
(* Starting.                                                                *)
Idle == [changed |-> FALSE, gap |-> FALSE, stale |-> FALSE, stop |-> "NONE"]

StartFresh ==
  /\ pc = "DOWN" /\ starts < MaxStarts /\ ~audit.started
  /\ \A l \in Lane : Bindable(gens[l][Latest(l)])
  /\ LET p == Bind("PRIMARY") IN
     /\ pos' = IF Pending(p) = {} THEN NoPosition ELSE At(NoPosition, "PRIMARY", p.gen, p.consumed)
     /\ bind' = [l \in Lane |-> [Bind(l) EXCEPT !.low = Bind(l).consumed + 1]]
  /\ cand' = [l \in Lane |-> None] /\ serving' = "PRIMARY"
  /\ Wrote(<<Mark("ARBITRATION_STARTED", "PRIMARY", 0)>>)
  /\ stopGap' = FALSE /\ it' = Idle /\ pc' = "POLL" /\ starts' = starts + 1
  /\ UNCHANGED <<gens, request>>

(* resume_depth_transition on the bindings b: the bindings, the position,   *)
(* the serving lane and the records it leaves.                              *)
ResumeTransition(b, n) ==
  LET l == rec.serving
      o == Other(l)
      p == rec.pos
      e == Evaluated(o, b[o], p, n)
      r == [from |-> p.final + 1, to |-> Max(e.tail)]
      g == GapBootstrap(l, b[l], p, n)
  IN IF p.final = 0 \/ (Pending(b[l]) # {} /\ b[l].low = p.final + 1)
     THEN [bind |-> b, pos |-> p, serving |-> l, events |-> <<>>]
     ELSE IF Bridges(e.tail, p)
     THEN [bind |-> [b EXCEPT ![o] = e.b], pos |-> Moved(p, o, b[o].gen, r), serving |-> o,
           events |-> Append(ObsRange(o, b[o].gen, r.from, r.to), Mark("DEPTH_SWITCH_PROVEN", o, 0))]
     ELSE IF e.b.unproven
     THEN [bind |-> [b EXCEPT ![o] = e.b], pos |-> p, serving |-> l, events |-> <<>>]
     ELSE [bind |-> [b EXCEPT ![o] = e.b, ![l] = g.b], pos |-> g.pos, serving |-> l,
           events |-> g.events]

(* A step writes its records one by one: the process may die after any of   *)
(* them.                                                                    *)
Dies(events) ==
  /\ \E k \in 0..Len(events) : Wrote(SubSeq(events, 1, k))
  /\ pc' = "DOWN" /\ it' = Idle /\ stopGap' = FALSE
  /\ bind' = [l \in Lane |-> None] /\ cand' = [l \in Lane |-> None]
  /\ pos' = NoPosition /\ serving' = "PRIMARY"

Resume ==
  /\ pc = "DOWN" /\ starts < MaxStarts /\ audit.started /\ audit.rejected = ""
  /\ \A l \in Lane : Bindable(gens[l][Latest(l)])
  /\ \E n \in 1..Budget :
       LET t == ResumeTransition([l \in Lane |-> Bind(l)], n)
           events == <<Mark("ARBITRATION_RESUMED", rec.serving, 0)>> \o t.events
       IN
       \/ /\ bind' = t.bind /\ pos' = t.pos /\ serving' = t.serving
          /\ cand' = [l \in Lane |-> None] /\ stopGap' = FALSE /\ it' = Idle
          /\ Wrote(events)
          /\ pc' = "POLL"
       \/ Dies(events)
  /\ starts' = starts + 1
  /\ UNCHANGED <<gens, request>>

-----------------------------------------------------------------------------
(* One iteration of the main loop.                                          *)
(* The candidate of a lane whose latest generation is not the bound one.    *)
Candidate(l) ==
  IF Latest(l) = bind[l].gen THEN None
  ELSE IF cand[l] # None /\ cand[l].gen = Latest(l) THEN Refresh(l, cand[l])
  ELSE IF Bindable(gens[l][Latest(l)]) THEN Opened(l)
  ELSE IF cand[l] # None THEN Refresh(l, cand[l]) ELSE None

(* Resolve the generations, refresh, publish from the serving lane.         *)
PollPublishes(n) ==
  LET s == serving
      o == Other(s)
      b0 == [l \in Lane |-> Refresh(l, bind[l])]
      b1 == TrimDepthHistory(ApplyNewDepth(b0[s], n), pos)
      r == Publishes(b1, pos, n)
      p == Moved(pos, s, b1.gen, r)
      b2 == TrimDepthHistory(ApplyNewDepth(b0[o], n), p)
  IN [bind |-> [bind EXCEPT ![s] = Shrunk(b1, r), ![o] = b2], pos |-> p,
      events |-> ObsRange(s, b1.gen, r.from, r.to),
      gap |-> Missing(b1, pos), progress |-> b1.consumed > b0[s].consumed \/ r.from <= r.to]

Poll ==
  /\ pc = "POLL"
  /\ \E n \in 1..Budget :
       LET t == PollPublishes(n) IN
       \/ /\ bind' = t.bind /\ pos' = t.pos
          /\ cand' = [l \in Lane |-> Candidate(l)]
          /\ request' \in IF request = "NONE" THEN {"NONE", "STOP", "REBIND"} ELSE {request}
          /\ \E stale \in BOOLEAN :
               /\ stale => ~t.progress
               /\ it' = [changed |-> Latest(serving) # bind[serving].gen, gap |-> t.gap,
                         stale |-> stale, stop |-> request']
          /\ Wrote(t.events)
          /\ pc' = "SWITCH"
          /\ UNCHANGED <<serving, stopGap>>
       \/ Dies(t.events) /\ UNCHANGED request
  /\ UNCHANGED <<gens, starts>>

Unproven == \E l \in Lane : bind[l].unproven
SwitchDue == pos.final # 0 /\ (it.changed \/ it.gap \/ it.stale \/ Unproven)

(* Mutant: an unfinished proof is taken for a failed one.                   *)
GapDueUnproven(e) == it.changed \/ it.gap
GapDue(e) == ~e.b.unproven /\ (it.changed \/ it.gap)

Activates(l) == cand[l] # None /\ Sealed(Gen(l, bind[l]))

(* The switch resolution: a proven switch to the sibling, or a typed gap    *)
(* and the candidate of the serving lane, once the predecessor's trades are *)
(* drained and its streams sealed.                                          *)
SwitchResolved(n, drained) ==
  LET s == serving
      o == Other(s)
      e == Evaluated(o, bind[o], pos, n)
      r == [from |-> pos.final + 1, to |-> Max(e.tail)]
      g == GapBootstrap(s, cand[s], pos, n)
  IN IF ~SwitchDue THEN [bind |-> bind, cand |-> cand, pos |-> pos, serving |-> s, events |-> <<>>]
     ELSE IF Bridges(e.tail, pos)
     THEN [bind |-> [bind EXCEPT ![o] = e.b], cand |-> cand, pos |-> Moved(pos, o, bind[o].gen, r),
           serving |-> o,
           events |-> Append(ObsRange(o, bind[o].gen, r.from, r.to), Mark("DEPTH_SWITCH_PROVEN", o, 0))]
     ELSE IF GapDue(e) /\ Activates(s) /\ drained
     THEN [bind |-> [bind EXCEPT ![o] = e.b, ![s] = g.b], cand |-> [cand EXCEPT ![s] = None],
           pos |-> g.pos, serving |-> s, events |-> g.events]
     ELSE [bind |-> [bind EXCEPT ![o] = e.b], cand |-> cand, pos |-> pos, serving |-> s,
           events |-> <<>>]

Switch ==
  /\ pc = "SWITCH"
  /\ \E n \in 1..Budget, drained \in BOOLEAN :
       LET t == SwitchResolved(n, drained) IN
       \/ /\ bind' = t.bind /\ cand' = t.cand /\ pos' = t.pos /\ serving' = t.serving
          /\ Wrote(t.events)
          /\ pc' = IF it.stop = "NONE" THEN "POLL" ELSE "DRAIN"
          /\ it' = IF it.stop = "NONE" THEN Idle ELSE it
          /\ UNCHANGED stopGap
       \/ t.events # <<>> /\ Dies(t.events)
  /\ UNCHANGED <<gens, request, starts>>

-----------------------------------------------------------------------------
(* The stop drain.                                                          *)
SealedTerminalConsumed(l, b) == Complete(Gen(l, b)) /\ b.loaded = Gen(l, b).upto
(* Mutant: a sealed generation is done once its records are loaded.         *)
ConvergedOnLoaded(l, b) == Complete(Gen(l, b)) => SealedTerminalConsumed(l, b)
ServingDepthConverged(l, b) ==
  Complete(Gen(l, b)) =>
    /\ SealedTerminalConsumed(l, b)
    /\ b.consumed = b.loaded /\ Pending(b) = {}

FrontContinues(b) == pos.final # 0 /\ Pending(b) # {} /\ b.low = pos.final + 1
StopGapReady(l, b) ==
  SealedTerminalConsumed(l, b) /\ b.consumed = b.loaded /\ Pending(b) # {}

Ends(how) ==
  /\ pc' = how /\ it' = Idle
  /\ UNCHANGED <<bind, cand, serving, pos, stopGap>>
Again == pc' = "POLL" /\ it' = Idle

(* trades: the trade half still has work of its own.                        *)
Drain ==
  /\ pc = "DRAIN"
  /\ LET s == serving
         rebind == it.stop = "REBIND"
         new == \E l \in Lane : bind[l].loaded < Gen(l, bind[l]).upto
         fresh == [l \in Lane |-> Refresh(l, bind[l])]
     IN \E trades \in BOOLEAN :
        LET early == ~rebind /\ (it.changed \/ Unproven \/ trades)
            b == IF early THEN bind ELSE fresh
            pending == early \/ new
            converged == rebind \/ ServingDepthConverged(s, b[s])
        IN \/ /\ pending
              /\ \/ Again /\ bind' = b /\ UNCHANGED <<cand, serving, pos, stopGap, written>>
                 \/ Ends("FAILED") /\ UNCHANGED written
           \/ /\ ~pending /\ converged
              /\ Ends(IF rebind THEN "HANDOFF" ELSE "DONE") /\ UNCHANGED written
           \/ /\ ~pending /\ ~converged /\ ~stopGap /\ FrontContinues(b[s])
              /\ \E n \in 1..Budget :
                   LET r == Publishes(b[s], pos, n) IN
                   \/ /\ bind' = [b EXCEPT ![s] = Shrunk(b[s], r)]
                      /\ pos' = Moved(pos, s, b[s].gen, r)
                      /\ Wrote(ObsRange(s, b[s].gen, r.from, r.to))
                      /\ Again /\ UNCHANGED <<cand, serving, stopGap>>
                   \/ Dies(ObsRange(s, b[s].gen, r.from, r.to))
           \/ /\ ~pending /\ ~converged /\ ~stopGap /\ ~FrontContinues(b[s])
              /\ StopGapReady(s, b[s])
              /\ \E n \in 1..Budget :
                   LET g == GapBootstrap(s, b[s], pos, n) IN
                   \/ /\ bind' = [b EXCEPT ![s] = g.b] /\ pos' = g.pos /\ stopGap' = TRUE
                      /\ Wrote(g.events)
                      /\ Again /\ UNCHANGED <<cand, serving>>
                   \/ Dies(g.events)
           \/ /\ ~pending /\ ~converged
              /\ stopGap \/ (~FrontContinues(b[s]) /\ ~StopGapReady(s, b[s]))
              /\ \/ Again /\ bind' = b /\ UNCHANGED <<cand, serving, pos, stopGap, written>>
                 \/ Ends("FAILED") /\ UNCHANGED written
  /\ UNCHANGED <<gens, request, starts>>

(* The service starts the sidecar again after it failed, and after a rebind *)
(* it chains the successor to it.                                           *)
Restart ==
  /\ pc \in {"FAILED", "HANDOFF"}
  /\ starts < MaxStarts
  /\ request' = "NONE"
  /\ Dies(<<>>)
  /\ UNCHANGED <<gens, starts>>

-----------------------------------------------------------------------------
Init ==
  /\ request = "NONE"
  /\ \E c \in [Lane -> UNION {Convergence[l] : l \in Lane}] :
       /\ \A l \in Lane : c[l] \in Convergence[l]
       /\ gens = [l \in Lane |-> <<[from |-> 1, upto |-> 1, end |-> "RUNNING", conv |-> c[l]]>>]
  /\ bind = [l \in Lane |-> None] /\ cand = [l \in Lane |-> None]
  /\ serving = "PRIMARY" /\ pos = NoPosition /\ stopGap = FALSE /\ it = Idle
  /\ audit = NoAudit /\ bridged = [live |-> FALSE, resumed |-> FALSE] /\ rec = [pos |-> NoPosition, serving |-> "PRIMARY"]
  /\ pc = "DOWN" /\ starts = 0

Arbiter == StartFresh \/ Resume \/ Poll \/ Switch \/ Drain
Next == Captures \/ Restart \/ Arbiter
Spec == Init /\ [][Next]_depthVars

-----------------------------------------------------------------------------
Running == pc \in {"POLL", "SWITCH", "DRAIN"}

(* The journal the arbiter writes is one its own auditor accepts: depth     *)
(* ranges are contiguous, never regress, and a gap declares the real cursor *)
(* (apply_audit_record, the scan that every resume starts with).            *)
AuditAccepts == audit.rejected = ""

(* While it runs, the arbiter never continues the sequence of one book with *)
(* another that differs at the boundary: a switch is proven by the digest,  *)
(* anything else is a typed gap (publish_pending_depth, the switch          *)
(* resolution, gap_and_bootstrap_depth).                                    *)
LiveNeverBridges == ~bridged.live

(* A crash after any record is recovered: the journal is one the auditor    *)
(* accepts (but for a gap before the first depth record), and once something *)
(* is published the cursor, digest, gap floor and serving lane recovered    *)
(* from it are the ones the process holds.                                  *)
JournalRecovers ==
  /\ audit.rejected \in {"", "EARLY_GAP"}
  /\ Running /\ rec.pos.final # 0 => rec.pos = pos /\ rec.serving = serving

(* A stop commits its terminal only when the canonical depth has reached    *)
(* the end of the serving generation's sealed evidence (the stop drain and  *)
(* serving_depth_converged).                                                *)
TerminalReachesEnd ==
  pc = "DONE" /\ Complete(Gen(serving, bind[serving])) /\ pos.final # 0 =>
    pos.final >= Gen(serving, bind[serving]).upto

(* The same, but for a generation that ended within its root segment.       *)
TerminalReachesTrail ==
  pc = "DONE" /\ Complete(Gen(serving, bind[serving])) /\ pos.final # 0 =>
    \/ pos.final >= Gen(serving, bind[serving]).upto
    \/ RootEnd(Gen(serving, bind[serving])) = Gen(serving, bind[serving]).upto

(* A gap is typed at a renewal only if the sibling's loaded evidence cannot *)
(* prove the continuation: its replay is sliced, and an unfinished slice is *)
(* not a failed proof (depth_switch_pending, replay_sibling_slice).         *)
GapIsForced ==
  [][LET o == Other(serving)
         b == bind[o]
     IN pc = "SWITCH" /\ audit'.gaps > audit.gaps =>
          ~(/\ pos.final \in Gen(o, b).from..(b.loaded - 1)
            /\ Digest(o, b.gen, pos.final) = pos.digest)]_depthVars

(* The same where the standing witness, if there is one, has applied frames *)
(* after it: a replay cut by its quota never authorizes a gap.              *)
GapForcedOnceApplied ==
  [][LET o == Other(serving)
         b == bind[o]
     IN pc = "SWITCH" /\ audit'.gaps > audit.gaps =>
          ~(/\ pos.final \in Gen(o, b).from..(b.loaded - 1)
            /\ Digest(o, b.gen, pos.final) = pos.digest
            /\ b.witness = pos.final => b.consumed > pos.final)]_depthVars
=============================================================================
