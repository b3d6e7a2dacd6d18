-------------------------- MODULE RawCampaignProofs --------------------------
(***************************************************************************)
(* Proofs about the raw capture campaign, for every number of generations, *)
(* every slot arithmetic the command line accepts and every interleaving   *)
(* of the children, their journals and the supervisor's polls.             *)
(* CampaignInv relates the loop's own records (children, slots, proofs) to *)
(* the lifecycle of the supervisor it drives; each action of the loop has  *)
(* one lemma that shows it keeps CampaignInv and takes an abstract step.   *)
(***************************************************************************)
EXTENDS RawCampaign, GenerationSupervisorProofs

Phase == {"poll", "shutdowns", "disconnects", "prove", "evaluate", "precommit",
          "committed", "failed", "aborted"}

Child ==
  [launch : Nat, duration : Nat, proc : {"RUN", "OK", "FAIL"}, ended : Nat \union {None},
   seen : SUBSET Line, terminal : {"COMPLETE", "FAILED", None}, exit : {"OK", "FAIL", None},
   journaled : BOOLEAN, registered : BOOLEAN, reported : BOOLEAN, requests : Int,
   unpromoted : BOOLEAN]

Launches == Cardinality(Known)
Holder == Cardinality(proven)

(* How many generations there are among 0..(n-1).  A theorem on finite sets *)
(* says so (Counting, below); the invariant carries the fact to the steps.  *)
Counts == \A n \in Nat : Cardinality(0..(n - 1)) = n

(* Generations are numbered in the order of their launch, and authority has *)
(* passed along them without a jump.                                        *)
CampaignTypeOK ==
  /\ Counts
  /\ clock \in Times /\ pc \in Phase /\ supervised \in BOOLEAN /\ failure \in BOOLEAN
  /\ Launches \in Nat /\ Known = 0..(Launches - 1) /\ Known \subseteq Identity
  /\ children \in [Known -> Child]
  /\ Holder \in Nat /\ proven = 0..(Holder - 1) /\ Holder < Launches
  /\ nextSlot \in Nat \ {0}
  /\ proofRx \in Seq(Nat \X BOOLEAN)
  /\ Current \in Life

(* Who may be registered: the holder and those before it, at most the next  *)
(* generation, which is then the pending candidate, and nobody after.       *)
RolesInv ==
  /\ ~supervised => active = None /\ candidate = None /\ Holder = 0 /\ lastMono = 0
  /\ active # None => active.id = Holder
  /\ candidate # None => /\ candidate.id = Holder + 1 /\ pendingCandidate = Holder + 1
                         /\ children[Holder + 1].registered

RegisteredInv ==
  /\ \A g \in Known : g <= Holder => children[g].registered
  /\ \A g \in Known : g > Holder + 1 => ~children[g].registered
  /\ pendingCandidate = None => \A g \in Known : g > Holder => ~children[g].registered
  /\ pendingCandidate # None => pendingCandidate = Holder + 1 /\ Holder + 1 \in Known

PhaseInv ==
  /\ pc = "shutdowns" /\ pendingCandidate = None => Unregistered = {}
  /\ pc \in {"precommit", "committed"} => HandoversComplete

AuthorityInv == RolesInv /\ RegisteredInv /\ PhaseInv

(* What the coverage of a committed campaign rests on.                      *)
Sound(c) ==
  /\ c.proc # "RUN" => c.ended \in Nat
  /\ c.proc = "OK" => c.ended >= c.launch + c.duration
  /\ c.exit = "OK" => c.proc = "OK"

LaunchInv ==
  /\ \A g \in Known : Sound(children[g]) /\ children[g].launch <= clock
  /\ children[0].launch = 0
  /\ \A g, h \in Known : g <= h => children[g].launch <= children[h].launch

Meets(known, p) ==
  /\ p \in DOMAIN known /\ p + 1 \in DOMAIN known
  /\ known[p].proc # "RUN" /\ known[p + 1].launch < known[p].ended

ProofInv ==
  /\ \A p \in DOMAIN proofStarted : p \in Known /\ p + 1 \in Known /\ children[p].exit = "OK"
  /\ \A k \in 1..Len(proofRx) : proofRx[k][2] => Meets(children, proofRx[k][1])

Captured(g, t) ==
  children[g].proc # "RUN" /\ children[g].launch <= t /\ t < children[g].ended

(* Up to the launch of the holder nothing is missing.                       *)
HeldInv ==
  \A t \in Nat : t < children[Holder].launch => \E g \in Known : Captured(g, t)

(* The generation of the last slot taken was asked to reach the end, or as  *)
(* far as a generation may.                                                 *)
Reaches(c, slot) ==
  /\ c.launch >= SlotStart(slot)
  /\ c.duration >= Shorter(Total - SlotStart(slot), MaximumGeneration)

SlotInv ==
  /\ \E g \in Known : Reaches(children[g], nextSlot - 1)
  /\ pc = "prove" /\ ~failure =>
       \/ clock < SlotStart(nextSlot)
       \/ Total - SlotStart(nextSlot) < Overlap
       \/ \E g \in Known : children[g].exit = None
  /\ pc \in {"evaluate", "precommit", "committed"} =>
       /\ \A g \in Known : children[g].exit = "OK"
       /\ Total - SlotStart(nextSlot) < Overlap

CoverInv == LaunchInv /\ ProofInv /\ HeldInv /\ SlotInv

CampaignInv == CampaignTypeOK /\ AuthorityInv /\ CoverInv

-----------------------------------------------------------------------------
LEMMA CampaignFacts ==
  /\ MaxGenerations \in Nat \ {0} /\ Identity = 0..(MaxGenerations - 1)
  /\ Total \in Nat /\ Rotation \in Nat /\ Overlap \in Nat /\ FinalTail \in Nat
  /\ ProofDeadline \in Nat /\ MaxTime \in Nat /\ Guard \in Nat /\ Guard >= 1 /\ Guard < Overlap
  /\ MaximumGeneration \in Nat /\ MaximumGeneration = Rotation + Overlap - Guard
  /\ None \notin {"OK", "FAIL", "COMPLETE", "FAILED"} /\ None \notin Nat
  BY CampaignAssumption, SupervisorAssumption DEF MaximumGeneration

(* What no step does to a child: it keeps its launch and duration, and once *)
(* it has ended, or its exit is known, that does not change.                *)
Kept(c, d) ==
  /\ d \in Child
  /\ d.launch = c.launch /\ d.duration = c.duration
  /\ c.proc # "RUN" => d.proc = c.proc /\ d.ended = c.ended

LEMMA KeptEnds ==
  ASSUME NEW c \in Child, NEW status \in {"OK", "FAIL"}, clock \in Nat
  PROVE  /\ c.proc = "RUN" => Kept(c, EndedAs(c, status))
         /\ EndedAs(c, status).proc = status /\ EndedAs(c, status).ended = clock
         /\ EndedAs(c, status).exit = c.exit /\ EndedAs(c, status).registered = c.registered
  BY Zenon DEF Child, EndedAs, Kept

LEMMA KeptHandled ==
  ASSUME NEW c \in Child, NEW line \in Line
  PROVE  /\ Kept(c, Handled(c, line)) /\ Handled(c, line).exit = c.exit
         /\ Handled(c, line).registered = c.registered
         /\ Handled(c, line).proc = c.proc /\ Handled(c, line).ended = c.ended
<1> DEFINE lines == c.seen \union {line}
           asked == c.requests + (IF line = "SHUTDOWN" THEN 1 ELSE 0)
<1>1. lines \in SUBSET Line /\ asked \in Int
  BY DEF Child
<1>2. Handled(c, line) = [c EXCEPT !.seen = lines, !.requests = asked]
  BY DEF Handled
<1> HIDE DEF lines, asked
<1> QED
  BY <1>1, <1>2, Zenon DEF Child, Kept

LEMMA KeptEnded ==
  ASSUME NEW c \in Child, NEW line \in {"COMPLETE", "FAILED"}, NEW g \in Nat
  PROVE  /\ Kept(c, Ended(c, g, line)) /\ Ended(c, g, line).exit = c.exit
         /\ Ended(c, g, line).registered = c.registered
         /\ Ended(c, g, line).proc = c.proc /\ Ended(c, g, line).ended = c.ended
<1> DEFINE late == g # 0 /\ g - 1 \notin proven
<1>1. late \in BOOLEAN
  OBVIOUS
<1>2. Ended(c, g, line) = [c EXCEPT !.terminal = line, !.unpromoted = late]
  BY Zenon DEF Ended
<1> HIDE DEF late
<1> QED
  BY <1>1, <1>2, Zenon DEF Child, Kept

LEMMA KeptWaited ==
  ASSUME NEW c \in Child, NEW due \in BOOLEAN
  PROVE  /\ Kept(c, Waited(c, due)) /\ Waited(c, due).exit = ExitSeen(c)
         /\ Waited(c, due).registered = c.registered
         /\ Waited(c, due).proc = c.proc /\ Waited(c, due).ended = c.ended
<1> DEFINE known == c.journaled \/ due
<1>1. known \in BOOLEAN /\ ExitSeen(c) \in {"OK", "FAIL", None}
  BY DEF Child, ExitSeen
<1>2. Waited(c, due) = [c EXCEPT !.exit = ExitSeen(c), !.journaled = known]
  BY Zenon DEF Waited
<1> HIDE DEF known
<1> QED
  BY <1>1, <1>2, Zenon DEF Child, Kept

LEMMA KeptAnswered ==
  ASSUME NEW c \in Child
  PROVE  /\ Kept(c, Answered(c)) /\ Answered(c).exit = c.exit
         /\ Answered(c).registered = c.registered
         /\ Answered(c).proc = c.proc /\ Answered(c).ended = c.ended
<1>1. c.requests - 1 \in Int
  BY DEF Child
<1>2. Answered(c) = [c EXCEPT !.requests = c.requests - 1]
  BY Zenon DEF Answered
<1> QED
  BY <1>1, <1>2, Zenon DEF Child, Kept

LEMMA KeptMarked ==
  ASSUME NEW c \in Child
  PROVE  /\ Kept(c, Registered(c)) /\ Registered(c).exit = c.exit /\ Registered(c).registered
         /\ Registered(c).proc = c.proc /\ Registered(c).ended = c.ended
         /\ Kept(c, Reported(c)) /\ Reported(c).exit = c.exit
         /\ Reported(c).registered = c.registered
         /\ Reported(c).proc = c.proc /\ Reported(c).ended = c.ended
  BY Zenon DEF Child, Kept, Registered, Reported

LEMMA NewChildFacts ==
  ASSUME clock \in Nat, NEW g \in Nat, NEW duration \in Nat
  PROVE  LET c == NewChild(g, duration) IN
           /\ c \in Child /\ c.launch = clock /\ c.duration = duration /\ c.proc = "RUN"
           /\ c.exit = None /\ c.registered = (g = 0)
<1>1. (g = 0) \in BOOLEAN /\ {} \in SUBSET Line /\ 0 \in Int
  OBVIOUS
<1> QED
  BY <1>1, Zenon DEF NewChild, Child

-----------------------------------------------------------------------------
(* A step on the children: every known one is kept, and at most one is      *)
(* added, launched now.                                                     *)
Grows ==
  /\ DOMAIN children' \in {Known, 0..Launches}
  /\ children' \in [DOMAIN children' -> Child]
  /\ \A g \in Known : /\ Kept(children[g], children'[g])
                      /\ children[g].exit = "OK" => children'[g].exit = "OK"
  /\ \A g \in DOMAIN children' : g \notin Known => children'[g].launch = clock
  /\ \A g \in DOMAIN children' : Sound(children'[g])
  /\ clock' \in Times /\ clock <= clock'

LEMMA ClockNat ==
  ASSUME NEW t \in Times
  PROVE  t \in Nat
  BY SupervisorAssumption

LEMMA GrowsKnown ==
  ASSUME CampaignTypeOK, Grows
  PROVE  /\ Known' = 0..(Launches' - 1) /\ Known \subseteq Known'
         /\ Launches' = Launches \/ Launches' = Launches + 1
         /\ Launches' \in Nat /\ children' \in [Known' -> Child]
         /\ Known' = Known => Launches' = Launches
<1>1. Launches \in Nat /\ Known = 0..(Launches - 1) /\ Counts
  BY Zenon DEF CampaignTypeOK
<1>2. CASE DOMAIN children' = Known
  BY <1>1, <1>2, Zenon DEF Grows, Known, Launches
<1>3. CASE DOMAIN children' = 0..Launches
  <2>1. 0..Launches = 0..((Launches + 1) - 1)
    BY <1>1
  <2>2. Launches' = Launches + 1
    BY <1>1, <1>3, <2>1 DEF Counts, Known, Launches
  <2> QED
    BY <1>1, <1>3, <2>1, <2>2 DEF Grows, Known
<1> QED
  BY <1>2, <1>3 DEF Grows

LEMMA GrowsLaunch ==
  ASSUME CampaignTypeOK, LaunchInv, Grows
  PROVE  LaunchInv'
<1> USE DEF Kept
<1>1. /\ Known' = 0..(Launches' - 1) /\ Known \subseteq Known' /\ Launches \in Nat
      /\ Known' \subseteq 0..Launches /\ Known = 0..(Launches - 1) /\ 0 \in Known
      /\ clock \in Nat /\ clock' \in Nat /\ clock <= clock'
  BY GrowsKnown, ClockNat DEF CampaignTypeOK, Grows
<1>2. \A g \in Known : children'[g].launch = children[g].launch
  BY DEF Grows
<1>3. \A g \in Known' : children'[g].launch \in Nat
  BY GrowsKnown DEF Child
<1>4. \A g \in Known : children[g].launch <= clock
  BY DEF LaunchInv
<1>5. \A g \in Known' : g \notin Known => children'[g].launch = clock
  BY DEF Grows, Known
<1>6. \A g \in Known' : children'[g].launch <= clock
  BY <1>2, <1>4, <1>5, <1>1
<1>7. \A g \in Known' : Sound(children'[g]) /\ children'[g].launch <= clock'
  BY <1>6, <1>3, <1>1 DEF Grows, Known
<1>8. \A g, h \in Known' : g <= h => children'[g].launch <= children'[h].launch
  <2> SUFFICES ASSUME NEW g \in Known', NEW h \in Known', g <= h
               PROVE  children'[g].launch <= children'[h].launch
    OBVIOUS
  <2>1. CASE h \in Known
    <3>1. g \in Known
      BY <2>1, <1>1
    <3> QED
      BY <2>1, <3>1, <1>2, Zenon DEF LaunchInv
  <2>2. CASE h \notin Known
    BY <2>2, <1>5, <1>6, Zenon
  <2> QED
    BY <2>1, <2>2
<1>9. children'[0].launch = 0
  BY <1>1, <1>2, Zenon DEF LaunchInv
<1> QED
  BY <1>7, <1>8, <1>9, Zenon DEF LaunchInv, Sound, Known

LEMMA GrowsMeets ==
  ASSUME CampaignTypeOK, Grows, NEW p, Meets(children, p)
  PROVE  Meets(children', p)
<1>1. p \in Known' /\ p + 1 \in Known'
  BY GrowsKnown DEF Meets, Known
<1>2. /\ children'[p].proc # "RUN" /\ children'[p].ended = children[p].ended
      /\ children'[p + 1].launch = children[p + 1].launch
  BY DEF Grows, Meets, Kept, Known
<1> QED
  BY <1>1, <1>2 DEF Meets, Known

LEMMA GrowsHeld ==
  ASSUME CampaignTypeOK, HeldInv, Grows, proven' = proven
  PROVE  HeldInv'
<1>1. Holder \in Known /\ Holder' = Holder
  BY DEF CampaignTypeOK, Holder
<1>2. children'[Holder'].launch = children[Holder].launch
  BY <1>1, Zenon DEF Grows, Kept
<1>3. ASSUME NEW g \in Known, NEW t, Captured(g, t)
      PROVE  Captured(g, t)' /\ g \in Known'
  BY <1>3, GrowsKnown DEF Captured, Grows, Kept
<1> QED
  BY <1>2, <1>3, Zenon DEF HeldInv

(* What the coverage needs of a step that leaves the proofs alone.          *)
LEMMA GrowsCover ==
  ASSUME CampaignTypeOK, CoverInv, Grows,
         UNCHANGED <<proven, proofStarted, proofRx>>
  PROVE  LaunchInv' /\ ProofInv' /\ HeldInv'
<1>1. LaunchInv' /\ HeldInv'
  BY GrowsLaunch, GrowsHeld, Zenon DEF CoverInv
<1>2. \A p \in DOMAIN proofStarted' : p \in Known' /\ p + 1 \in Known' /\ children'[p].exit = "OK"
  BY GrowsKnown DEF CoverInv, ProofInv, Grows
<1>3. \A k \in 1..Len(proofRx') : proofRx'[k][2] => Meets(children', proofRx'[k][1])
  <2>1. \A k \in 1..Len(proofRx) : proofRx[k][2] => Meets(children, proofRx[k][1])
    BY DEF CoverInv, ProofInv
  <2>2. \A p : Meets(children, p) => Meets(children', p)
    BY GrowsMeets
  <2> HIDE DEF Meets
  <2> QED
    BY <2>1, <2>2, Zenon
<1> QED
  BY <1>1, <1>2, <1>3, Zenon DEF ProofInv

-----------------------------------------------------------------------------
(* The ways a step changes the children.                                    *)
LEMMA SameGrows ==
  ASSUME CampaignTypeOK, LaunchInv, children' = children, clock' \in Times, clock <= clock'
  PROVE  Grows
<1>1. children \in [Known -> Child]
  BY DEF CampaignTypeOK
<1>2. \A g \in Known : Sound(children[g])
  BY DEF LaunchInv
<1> QED
  BY <1>1, <1>2, Zenon DEF Grows, Kept, Known

SameRegistered ==
  /\ DOMAIN children' = Known
  /\ \A g \in Known : children'[g].registered = children[g].registered

LEMMA UpdateGrows ==
  ASSUME CampaignTypeOK, LaunchInv, NEW g \in Known, NEW d, Kept(children[g], d), Sound(d),
         children[g].exit = "OK" => d.exit = "OK",
         children' = [children EXCEPT ![g] = d], clock' = clock
  PROVE  /\ Grows /\ DOMAIN children' = Known
         /\ d.registered = children[g].registered => SameRegistered
         /\ children'[g] = d /\ \A h \in Known : h # g => children'[h] = children[h]
<1>1. children \in [Known -> Child] /\ d \in Child /\ clock \in Times /\ clock <= clock
  BY ClockNat DEF CampaignTypeOK, Kept
<1>2. /\ DOMAIN children' = Known /\ children'[g] = d
      /\ \A h \in Known : h # g => children'[h] = children[h]
  BY <1>1
<1>3. \A h \in Known : Sound(children[h]) /\ Kept(children[h], children[h])
  BY <1>1 DEF LaunchInv, Kept
<1>4. children' \in [Known -> Child]
  BY <1>1
<1>5. \A h \in Known : /\ Sound(children'[h]) /\ Kept(children[h], children'[h])
                       /\ children[h].exit = "OK" => children'[h].exit = "OK"
  BY <1>2, <1>3, Zenon
<1>6. Grows
  BY <1>1, <1>2, <1>4, <1>5, Zenon DEF Grows
<1> QED
  BY <1>2, <1>6, Zenon DEF SameRegistered

LEMMA StoppedGrows ==
  ASSUME CampaignTypeOK, LaunchInv, children' = Stopped, clock' = clock
  PROVE  Grows /\ SameRegistered /\ \A g \in Known : children'[g].exit = children[g].exit
<1>1. children \in [Known -> Child] /\ clock \in Times /\ clock \in Nat /\ clock <= clock
  BY ClockNat DEF CampaignTypeOK
<1>2. DOMAIN children' = Known
  BY DEF Stopped
<1>3. ASSUME NEW g \in Known
      PROVE  /\ Kept(children[g], children'[g]) /\ Sound(children'[g])
             /\ children'[g].exit = children[g].exit
             /\ children'[g].registered = children[g].registered
  <2>1. children[g] \in Child /\ Sound(children[g])
    BY <1>1, Zenon DEF LaunchInv
  <2>2. CASE children[g].proc = "RUN"
    <3>1. children'[g] = EndedAs(children[g], "FAIL")
      BY <2>2 DEF Stopped
    <3>2. children[g].exit # "OK"
      BY <2>1, <2>2, Zenon DEF Sound
    <3> QED
      BY <2>1, <2>2, <3>1, <3>2, <1>1, KeptEnds, Zenon DEF Sound
  <2>3. CASE children[g].proc # "RUN"
    <3>1. children'[g] = children[g]
      BY <2>3 DEF Stopped
    <3> QED
      BY <2>1, <3>1, Zenon DEF Kept
  <2> QED
    BY <2>2, <2>3, Zenon
<1>4. children' \in [Known -> Child]
  <2>1. children' = [g \in Known |-> children'[g]]
    BY DEF Stopped
  <2>2. \A g \in Known : children'[g] \in Child
    BY <1>3, Zenon DEF Kept
  <2> QED
    BY <2>1, <2>2, Zenon
<1> QED
  BY <1>1, <1>2, <1>3, <1>4, Zenon DEF Grows, SameRegistered

(* A launch numbers the new generation after all the others.                *)
LEMMA LaunchGrows ==
  ASSUME CampaignTypeOK, LaunchInv, NEW cs \in [Known -> Child], NEW duration \in Nat,
         \A g \in Known : /\ Kept(children[g], cs[g]) /\ Sound(cs[g])
                          /\ children[g].exit = "OK" => cs[g].exit = "OK",
         children' = WithChild(cs, Launches, duration), clock' = clock
  PROVE  /\ Grows /\ Known' = 0..Launches /\ Launches' = Launches + 1
         /\ \A g \in Known : children'[g] = cs[g]
         /\ children'[Launches].launch = clock /\ children'[Launches].duration = duration
         /\ children'[Launches].exit = None
         /\ children'[Launches].registered = (Launches = 0)
<1>1. /\ Launches \in Nat /\ Known = 0..(Launches - 1) /\ clock \in Times /\ clock \in Nat
      /\ clock <= clock
  BY ClockNat DEF CampaignTypeOK
<1> DEFINE c == NewChild(Launches, duration)
<1>2. /\ c \in Child /\ c.launch = clock /\ c.duration = duration /\ c.proc = "RUN"
      /\ c.exit = None /\ c.registered = (Launches = 0)
  BY <1>1, NewChildFacts, Zenon
<1>3. Sound(c)
  BY <1>2, CampaignFacts, Zenon DEF Sound
<1>4. Launches \notin Known /\ Known \union {Launches} = 0..Launches
  BY <1>1
<1>5. children' = [g \in Known \union {Launches} |-> IF g = Launches THEN c ELSE cs[g]]
  <2>1. DOMAIN cs = Known
    OBVIOUS
  <2> QED
    BY <2>1, Zenon DEF WithChild
<1> HIDE DEF c
<1>6. /\ DOMAIN children' = 0..Launches /\ children'[Launches] = c
      /\ \A g \in Known : children'[g] = cs[g]
      /\ \A g \in 0..Launches : g \in Known \/ g = Launches
  BY <1>4, <1>5, <1>1, Zenon
<1>7. children' \in [0..Launches -> Child]
  BY <1>2, <1>4, <1>5, Zenon
<1>8. Grows
  BY <1>1, <1>2, <1>3, <1>4, <1>6, <1>7, Zenon DEF Grows
<1>9. Known' = 0..Launches /\ Launches' = Launches + 1
  BY <1>1, <1>4, <1>6, <1>8, GrowsKnown, Zenon DEF Known
<1> QED
  BY <1>2, <1>6, <1>8, <1>9, Zenon

-----------------------------------------------------------------------------
Outcome == IF Running THEN "RUNNING" ELSE IF pc = "committed" THEN "COMPLETE" ELSE "ENDED"

AuthorityStep == Authority!Next \/ UNCHANGED <<Launches, Holder, Outcome>>

CampaignStep == CampaignInv' /\ AuthorityStep /\ AgeBounded'

LEMMA TypeKept ==
  ASSUME CampaignTypeOK, Grows, proven' = proven, Known' \subseteq Identity, pc' \in Phase,
         supervised' \in BOOLEAN, failure' \in BOOLEAN, nextSlot' \in Nat \ {0},
         proofRx' \in Seq(Nat \X BOOLEAN), Current' \in Life
  PROVE  CampaignTypeOK'
<1>1. /\ Launches' \in Nat /\ Known' = 0..(Launches' - 1) /\ children' \in [Known' -> Child]
      /\ clock' \in Times
  BY GrowsKnown DEF Grows
<1>2. Holder' = Holder
  BY Zenon DEF Holder
<1>3. Holder' \in Nat /\ proven' = 0..(Holder' - 1) /\ Holder' < Launches'
  BY <1>2, GrowsKnown DEF CampaignTypeOK
<1> QED
  BY <1>1, <1>3, Zenon DEF CampaignTypeOK, Counts

LEMMA AuthorityKept ==
  ASSUME CampaignTypeOK, AuthorityInv, SameRegistered,
         UNCHANGED <<proven, pendingCandidate, supervised>>,
         active' \in {active, None},
         candidate' # None => candidate # None /\ candidate'.id = candidate.id,
         ~supervised => lastMono' = lastMono,
         pc' = "shutdowns" => pc = "shutdowns",
         pc' \in {"precommit", "committed"} => HandoversComplete
  PROVE  AuthorityInv'
<1>1. Known' = Known /\ Holder' = Holder /\ Launches' = Launches
  BY Zenon DEF SameRegistered, Known, Holder, Launches
<1>2. \A g \in Known : children'[g].registered = children[g].registered
  BY Zenon DEF SameRegistered
<1>3. RegisteredInv'
  BY <1>1, <1>2, Zenon DEF RegisteredInv, AuthorityInv
<1>4. RolesInv'
  <2>1. candidate # None => Holder + 1 \in Known
    BY CampaignFacts DEF AuthorityInv, RolesInv, RegisteredInv, CampaignTypeOK
  <2> QED
    BY <1>1, <1>2, <2>1, Zenon DEF RolesInv, AuthorityInv
<1>5. PhaseInv'
  <2>1. Unregistered' = Unregistered
    BY <1>1, <1>2, Zenon DEF Unregistered
  <2>2. HandoversComplete => HandoversComplete'
    BY <1>1, Zenon DEF HandoversComplete, Launches, Holder
  <2> QED
    BY <2>1, <2>2, Zenon DEF PhaseInv, AuthorityInv
<1> QED
  BY <1>3, <1>4, <1>5, Zenon DEF AuthorityInv

LEMMA ReachKept ==
  ASSUME CampaignTypeOK, SlotInv, Grows, nextSlot' = nextSlot
  PROVE  \E g \in Known' : Reaches(children'[g], nextSlot' - 1)
<1>1. PICK g \in Known : Reaches(children[g], nextSlot - 1)
  BY Zenon DEF SlotInv
<1>2. Reaches(children'[g], nextSlot - 1)
  BY <1>1, Zenon DEF Grows, Kept, Reaches
<1> QED
  BY <1>2, GrowsKnown, Zenon

LEMMA QuietAuthority ==
  ASSUME DOMAIN children' = Known, proven' = proven, Running, pc' # "committed"
  PROVE  AuthorityStep
<1>1. Launches' = Launches /\ Holder' = Holder
  BY Zenon DEF Launches, Holder, Known
<1>2. Outcome = "RUNNING" /\ Outcome' \in {"RUNNING", "ENDED"}
  BY Zenon DEF Outcome, Running
<1>3. CASE Outcome' = "RUNNING"
  BY <1>1, <1>2, <1>3, Zenon DEF AuthorityStep
<1>4. CASE Outcome' = "ENDED"
  <2>1. Authority!End
    BY <1>1, <1>2, <1>4, Zenon DEF Authority!End, Outcome, Launches, Holder
  <2> QED
    BY <2>1, Zenon DEF AuthorityStep, Authority!Next
<1> QED
  BY <1>2, <1>3, <1>4, Zenon

LEMMA SameLife ==
  ASSUME CampaignTypeOK, AgeBounded, UNCHANGED vars
  PROVE  /\ Current' \in Life /\ AgeBounded' /\ active' = active /\ candidate' = candidate
         /\ lastMono' = lastMono
<1>1. Current' = Current /\ active' = active /\ candidate' = candidate /\ lastMono' = lastMono
  BY Zenon DEF vars, life, clocks, Current
<1> QED
  BY <1>1, Zenon DEF CampaignTypeOK, AgeBounded

(* A step that leaves the supervisor, the proofs and the slots alone.       *)
LEMMA QuietStep ==
  ASSUME CampaignInv, AgeBounded, Grows, SameRegistered,
         UNCHANGED <<vars, pendingCandidate, supervised, nextSlot, proven, proofStarted, proofRx>>,
         failure' \in BOOLEAN, Running, pc' \in Phase \ {"committed"},
         pc' = "shutdowns" => pc = "shutdowns",
         pc' = "precommit" => HandoversComplete,
         pc' = "prove" => UNCHANGED <<pc, clock, children>> /\ (failure => failure'),
         pc' \in {"evaluate", "precommit"} =>
           /\ \A g \in Known : children'[g].exit = "OK"
           /\ Total - SlotStart(nextSlot) < Overlap
  PROVE  CampaignStep
<1>0. CampaignTypeOK /\ AuthorityInv /\ CoverInv /\ SlotInv
  BY Zenon DEF CampaignInv, CoverInv
<1>1. /\ Current' \in Life /\ AgeBounded' /\ active' = active /\ candidate' = candidate
      /\ lastMono' = lastMono
  BY <1>0, SameLife, Zenon
<1>2. Known' = Known
  BY Zenon DEF SameRegistered, Known
<1>3. CampaignTypeOK'
  BY <1>0, <1>1, <1>2, TypeKept, Zenon DEF CampaignTypeOK
<1>4. AuthorityInv'
  BY <1>0, <1>1, AuthorityKept, Zenon
<1>5. LaunchInv' /\ ProofInv' /\ HeldInv'
  BY <1>0, GrowsCover, Zenon
<1>6. SlotInv'
  <2>1. \E g \in Known' : Reaches(children'[g], nextSlot' - 1)
    BY <1>0, ReachKept, Zenon
  <2>2. pc' = "prove" /\ ~failure' =>
          \/ clock' < SlotStart(nextSlot')
          \/ Total - SlotStart(nextSlot') < Overlap
          \/ \E g \in Known' : children'[g].exit = None
    BY <1>0, <1>2, Zenon DEF SlotInv
  <2> QED
    BY <1>2, <2>1, <2>2, Zenon DEF SlotInv, Reaches, SlotStart
<1>7. AuthorityStep
  BY QuietAuthority, Zenon DEF SameRegistered
<1> QED
  BY <1>1, <1>3, <1>4, <1>5, <1>6, <1>7, Zenon DEF CampaignStep, CampaignInv, CoverInv

-----------------------------------------------------------------------------
(* The world and the pipes.                                                 *)
LEMMA Opened ==
  ASSUME CampaignInv
  PROVE  /\ CampaignTypeOK /\ AuthorityInv /\ CoverInv /\ LaunchInv /\ SlotInv /\ Counts
         /\ clock \in Times /\ clock \in Nat /\ clock <= clock
         /\ children \in [Known -> Child] /\ failure \in BOOLEAN
         /\ Launches \in Nat /\ Known = 0..(Launches - 1) /\ Known \subseteq Identity
         /\ Holder \in Nat /\ Holder < Launches /\ Holder \in Known /\ 0 \in Known
<1>1. /\ CampaignTypeOK /\ AuthorityInv /\ CoverInv /\ LaunchInv /\ SlotInv /\ Counts
      /\ clock \in Times /\ children \in [Known -> Child] /\ failure \in BOOLEAN
      /\ Launches \in Nat /\ Known = 0..(Launches - 1) /\ Known \subseteq Identity
      /\ Holder \in Nat /\ Holder < Launches
  BY Zenon DEF CampaignInv, CoverInv, CampaignTypeOK
<1>2. clock \in Nat /\ clock <= clock
  BY <1>1, ClockNat
<1>3. Holder \in Known /\ 0 \in Known
  BY <1>1
<1> QED
  BY <1>1, <1>2, <1>3, Zenon

LEMMA UnchangedRegistered ==
  ASSUME children' = children
  PROVE  SameRegistered
  BY Zenon DEF SameRegistered, Known

LEMMA TickStep ==
  ASSUME CampaignInv, AgeBounded, Tick
  PROVE  CampaignStep
<1>1. /\ children' = children /\ pc = "poll" /\ pc' = "poll" /\ failure' = failure
      /\ clock' = clock + 1 /\ clock < MaxTime
      /\ UNCHANGED <<vars, pendingCandidate, supervised, nextSlot, proven, proofStarted, proofRx>>
  BY Zenon DEF Tick, loop
<1>2. clock' \in Times /\ clock <= clock'
  <2>1. clock \in Nat
    BY Opened, Zenon
  <2> QED
    BY <1>1, <2>1, CampaignAssumption
<1>3. Grows /\ SameRegistered
  BY <1>1, <1>2, Opened, SameGrows, UnchangedRegistered
<1>4. Running /\ pc' \in Phase \ {"committed", "shutdowns"} /\ failure' \in BOOLEAN
  BY <1>1, Opened, Zenon DEF Running, Phase
<1> QED
  BY <1>1, <1>3, <1>4, QuietStep, Zenon

LEMMA ChildEndsStep ==
  ASSUME CampaignInv, AgeBounded, NEW g \in Known, NEW status \in {"OK", "FAIL"},
         ChildEnds(g, status)
  PROVE  CampaignStep
<1>1. /\ pc = "poll" /\ pc' = "poll" /\ failure' = failure /\ clock' = clock
      /\ children[g].proc = "RUN"
      /\ children' = [children EXCEPT ![g] = EndedAs(children[g], status)]
      /\ UNCHANGED <<vars, pendingCandidate, supervised, nextSlot, proven, proofStarted, proofRx>>
      /\ status = "OK" => clock >= children[g].launch + children[g].duration
  BY Zenon DEF ChildEnds, loop
<1> DEFINE d == EndedAs(children[g], status)
<1>2. /\ Kept(children[g], d) /\ d.proc = status /\ d.ended = clock
      /\ d.exit = children[g].exit /\ d.registered = children[g].registered
  BY <1>1, Opened, KeptEnds, Zenon
<1>3. Sound(children[g]) /\ children[g].exit # "OK"
  BY <1>1, Opened, Zenon DEF LaunchInv, Sound
<1> HIDE DEF d
<1>4. Sound(d)
  BY <1>1, <1>2, <1>3, Opened, Zenon DEF Sound, Kept
<1>5. Grows /\ SameRegistered
  BY <1>1, <1>2, <1>4, Opened, UpdateGrows, Zenon DEF d
<1>6. Running /\ pc' \in Phase \ {"committed", "shutdowns"} /\ failure' \in BOOLEAN
  BY <1>1, Opened DEF Running, Phase
<1> QED
  BY <1>1, <1>5, <1>6, QuietStep, Zenon

LEMMA DrainLineStep ==
  ASSUME CampaignInv, AgeBounded, NEW g \in Known, NEW line \in Line, DrainLine(g, line)
  PROVE  CampaignStep
<1> DEFINE d == IF line \in {"COMPLETE", "FAILED"} THEN Ended(children[g], g, line)
                                                   ELSE Handled(children[g], line)
<1>1. /\ pc = "poll" /\ pc' = "poll" /\ failure' = failure /\ clock' = clock
      /\ children' = [children EXCEPT ![g] = d]
      /\ UNCHANGED <<vars, pendingCandidate, supervised, nextSlot, proven, proofStarted, proofRx>>
  BY Zenon DEF DrainLine, loop
<1>2. /\ Kept(children[g], d) /\ d.exit = children[g].exit
      /\ d.registered = children[g].registered
      /\ d.proc = children[g].proc /\ d.ended = children[g].ended
  <2>1. children[g] \in Child /\ g \in Nat
    BY Opened
  <2> QED
    BY <2>1, KeptHandled, KeptEnded, Zenon
<1>3. Sound(children[g])
  BY Opened DEF LaunchInv
<1> HIDE DEF d
<1>4. Sound(d)
  BY <1>2, <1>3, Zenon DEF Sound, Kept
<1>5. Grows /\ SameRegistered
  BY <1>1, <1>2, <1>4, Opened, UpdateGrows, Zenon
<1>6. Running /\ pc' \in Phase \ {"committed", "shutdowns"} /\ failure' \in BOOLEAN
  BY <1>1, Opened DEF Running, Phase
<1> QED
  BY <1>1, <1>5, <1>6, QuietStep, Zenon

LEMMA FaultyStep ==
  ASSUME CampaignInv, AgeBounded, NEW g \in Known, Faulty(g)
  PROVE  CampaignStep
<1>1. /\ children' = children /\ pc = "poll" /\ pc' = "poll" /\ clock' = clock
      /\ failure' \in BOOLEAN
      /\ UNCHANGED <<vars, pendingCandidate, supervised, nextSlot, proven, proofStarted, proofRx>>
  BY Zenon DEF Faulty, Fail, loop
<1>2. Grows /\ SameRegistered
  BY <1>1, Opened, SameGrows, UnchangedRegistered, Zenon
<1>3. Running /\ pc' \in Phase \ {"committed", "shutdowns"}
  BY <1>1 DEF Running, Phase
<1> QED
  BY <1>1, <1>2, <1>3, QuietStep, Zenon

(* A completion in the channel that says yes is of captures that met.       *)
LEMMA ProofFinishesStep ==
  ASSUME CampaignInv, AgeBounded, NEW p \in DOMAIN proofStarted, NEW ok \in BOOLEAN,
         ProofFinishes(p, ok)
  PROVE  CampaignStep
<1>1. /\ children' = children /\ pc \in {"poll", "prove"} /\ pc' = pc /\ clock' = clock
      /\ failure' = failure /\ proofRx' = Append(proofRx, <<p, ok>>)
      /\ ok => Overlapped(p)
      /\ UNCHANGED <<vars, pendingCandidate, supervised, nextSlot, proven, proofStarted>>
  BY Zenon DEF ProofFinishes
<1>2. Grows /\ SameRegistered
  BY <1>1, Opened, SameGrows, UnchangedRegistered, Zenon
<1>3. Running /\ pc' \in Phase \ {"committed", "shutdowns"}
  BY <1>1, Zenon DEF Running, Phase
<1>4. /\ Current' \in Life /\ AgeBounded' /\ active' = active /\ candidate' = candidate
      /\ lastMono' = lastMono
  BY <1>1, Opened, SameLife, Zenon
<1>5. p \in Known /\ p + 1 \in Known /\ p \in Nat /\ children[p].exit = "OK"
  BY Opened DEF CoverInv, ProofInv
<1>6. ok => Meets(children, p)
  <2>1. children[p].proc # "RUN"
    BY <1>5, Opened, Zenon DEF LaunchInv, Sound
  <2> QED
    BY <1>1, <1>5, <2>1, Zenon DEF Meets, Overlapped, Known
<1>7. /\ proofRx \in Seq(Nat \X BOOLEAN) /\ <<p, ok>> \in Nat \X BOOLEAN
      /\ <<p, ok>>[1] = p /\ <<p, ok>>[2] = ok
  BY <1>5, Opened, Zenon DEF CampaignTypeOK
<1>8. /\ proofRx' \in Seq(Nat \X BOOLEAN) /\ Len(proofRx') = Len(proofRx) + 1
      /\ \A k \in 1..Len(proofRx) : proofRx'[k] = proofRx[k]
      /\ proofRx'[Len(proofRx) + 1] = <<p, ok>>
  BY <1>1, <1>7
<1>9. \A k \in 1..Len(proofRx') : k \in 1..Len(proofRx) \/ k = Len(proofRx) + 1
  BY <1>7, <1>8
<1>10. \A k \in 1..Len(proofRx') : proofRx'[k][2] => Meets(children', proofRx'[k][1])
  <2>1. \A k \in 1..Len(proofRx) : proofRx[k][2] => Meets(children, proofRx[k][1])
    BY Opened, Zenon DEF CoverInv, ProofInv
  <2>2. ASSUME NEW k \in 1..Len(proofRx)
        PROVE  proofRx'[k][2] => Meets(children', proofRx'[k][1])
    BY <1>1, <1>8, <2>1, <2>2, Zenon
  <2>3. proofRx'[Len(proofRx) + 1][1] = p /\ proofRx'[Len(proofRx) + 1][2] = ok
    BY <1>7, <1>8, Zenon
  <2> QED
    BY <1>1, <1>6, <1>9, <2>2, <2>3, Zenon
<1>11. ProofInv'
  BY <1>1, <1>10, Opened, Zenon DEF ProofInv, CoverInv, Known
<1>12. LaunchInv' /\ HeldInv'
  BY <1>1, <1>2, Opened, GrowsLaunch, GrowsHeld, Zenon DEF CoverInv
<1>13. CampaignTypeOK'
  <2>1. Known' = Known
    BY <1>1, Zenon DEF Known
  <2> QED
    BY <1>1, <1>2, <1>3, <1>4, <1>8, <2>1, Opened, TypeKept, Zenon DEF CampaignTypeOK
<1>14. AuthorityInv'
  BY <1>1, <1>2, <1>4, Opened, AuthorityKept, Zenon
<1>15. SlotInv'
  <2>1. Known' = Known
    BY <1>1, Zenon DEF Known
  <2> QED
    BY <1>1, <2>1, Opened, Zenon DEF SlotInv, Reaches, SlotStart
<1>16. AuthorityStep
  BY <1>1, <1>2, <1>3, QuietAuthority, Zenon DEF SameRegistered
<1> QED
  BY <1>4, <1>11, <1>12, <1>13, <1>14, <1>15, <1>16, Zenon
  DEF CampaignStep, CampaignInv, CoverInv

-----------------------------------------------------------------------------
(* The end of a pass, the evaluation and the commit.                        *)
LEMMA SlotPassed ==
  ASSUME CampaignInv, clock >= Total, clock < SlotStart(nextSlot)
  PROVE  Total - SlotStart(nextSlot) < Overlap
<1>1. SlotStart(nextSlot) \in Int
  BY Opened, CampaignFacts DEF CampaignTypeOK, SlotStart
<1> QED
  BY <1>1, Opened, CampaignFacts

LEMMA EndPassStep ==
  ASSUME CampaignInv, AgeBounded, EndPass
  PROVE  CampaignStep
<1> DEFINE fails == failure \/ ProofOverdue
           exited == \A g \in Known : children[g].exit # None
           ends == /\ \A g \in Known : TerminalComplete(children[g]) /\ children[g].journaled
                   /\ HandoversComplete /\ clock >= Total
<1>1. /\ pc = "prove" /\ clock' = clock /\ failure' = fails
      /\ children' = (IF fails THEN Stopped ELSE children)
      /\ pc' = IF fails THEN (IF exited THEN "failed" ELSE "poll")
                        ELSE IF ends THEN "evaluate" ELSE "poll"
      /\ UNCHANGED <<vars, pendingCandidate, supervised, nextSlot, proven, proofStarted, proofRx>>
  BY Zenon DEF EndPass, loop
<1>2. Grows /\ SameRegistered
  BY <1>1, Opened, SameGrows, UnchangedRegistered, StoppedGrows, Zenon
<1>3. /\ Running /\ pc' \in Phase \ {"committed", "shutdowns"} /\ failure' \in BOOLEAN
      /\ pc' \notin {"precommit", "prove"}
  BY <1>1, Zenon DEF Running, Phase
<1>4. ASSUME pc' = "evaluate"
      PROVE  /\ \A g \in Known : children'[g].exit = "OK"
             /\ Total - SlotStart(nextSlot) < Overlap
  <2>1. ~fails /\ ends /\ ~failure
    BY <1>1, <1>4, Zenon
  <2>2. \A g \in Known : children[g].exit = "OK"
    BY <2>1, Zenon DEF TerminalComplete
  <2>3. ~ \E g \in Known : children[g].exit = None
    BY <2>2, CampaignFacts, Zenon
  <2>4. \/ clock < SlotStart(nextSlot)
        \/ Total - SlotStart(nextSlot) < Overlap
    BY <1>1, <2>1, <2>3, Opened, Zenon DEF SlotInv
  <2> QED
    BY <1>1, <2>1, <2>2, <2>4, SlotPassed, Zenon
<1> HIDE DEF fails, exited, ends
<1> QED
  BY <1>1, <1>2, <1>3, <1>4, QuietStep, Zenon

LEMMA EvaluateStep ==
  ASSUME CampaignInv, AgeBounded, NEW sound \in BOOLEAN, Evaluate(sound)
  PROVE  CampaignStep
<1>1. /\ pc = "evaluate" /\ clock' = clock /\ failure' = failure /\ children' = children
      /\ pc' \in {"precommit", "failed"}
      /\ pc' = "precommit" => HandoversComplete
      /\ UNCHANGED <<vars, pendingCandidate, supervised, nextSlot, proven, proofStarted, proofRx>>
  BY Zenon DEF Evaluate, loop
<1>2. Grows /\ SameRegistered
  BY <1>1, Opened, SameGrows, UnchangedRegistered, Zenon
<1>3. Running /\ pc' \in Phase \ {"committed", "shutdowns"} /\ pc' # "prove"
  BY <1>1, Zenon DEF Running, Phase
<1>4. /\ \A g \in Known : children'[g].exit = "OK"
      /\ Total - SlotStart(nextSlot) < Overlap
  BY <1>1, Opened, Zenon DEF SlotInv
<1>5. failure' \in BOOLEAN
  BY <1>1, Opened, Zenon
<1> QED
  BY <1>1, <1>2, <1>3, <1>4, <1>5, QuietStep, Zenon

LEMMA CommitStep ==
  ASSUME CampaignInv, AgeBounded, Commit
  PROVE  CampaignStep
<1>1. /\ pc = "precommit" /\ pc' = "committed" /\ clock' = clock /\ failure' = failure
      /\ children' = children
      /\ UNCHANGED <<vars, pendingCandidate, supervised, nextSlot, proven, proofStarted, proofRx>>
  BY Zenon DEF Commit, loop
<1>2. Grows /\ SameRegistered
  BY <1>1, Opened, SameGrows, UnchangedRegistered, Zenon
<1>3. HandoversComplete
  BY <1>1, Opened, Zenon DEF AuthorityInv, PhaseInv
<1>4. /\ Current' \in Life /\ AgeBounded' /\ active' = active /\ candidate' = candidate
      /\ lastMono' = lastMono
  BY <1>1, Opened, SameLife, Zenon
<1>5. Known' = Known /\ Launches' = Launches /\ Holder' = Holder
  BY <1>1, Zenon DEF Known, Launches, Holder
<1>6. CampaignTypeOK'
  <2>1. pc' \in Phase
    BY <1>1, Zenon DEF Phase
  <2> QED
    BY <1>1, <1>2, <1>4, <1>5, <2>1, Opened, TypeKept, Zenon DEF CampaignTypeOK
<1>7. AuthorityInv'
  BY <1>1, <1>2, <1>3, <1>4, Opened, AuthorityKept, Zenon
<1>8. LaunchInv' /\ ProofInv' /\ HeldInv'
  BY <1>1, <1>2, Opened, GrowsCover, Zenon
<1>9. SlotInv'
  <2>1. \E g \in Known' : Reaches(children'[g], nextSlot' - 1)
    BY <1>1, <1>2, Opened, ReachKept, Zenon
  <2>2. /\ \A g \in Known : children[g].exit = "OK"
        /\ Total - SlotStart(nextSlot) < Overlap
    BY <1>1, Opened, Zenon DEF SlotInv
  <2> QED
    BY <1>1, <1>5, <2>1, <2>2, Zenon DEF SlotInv, Reaches, SlotStart
<1>10. AuthorityStep
  <2>1. Outcome = "RUNNING" /\ Outcome' = "COMPLETE"
    BY <1>1 DEF Outcome, Running
  <2>2. Holder = Launches - 1
    BY <1>3, Zenon DEF HandoversComplete, Holder, Launches
  <2>3. Authority!End
    BY <1>5, <2>1, <2>2, Zenon DEF Authority!End, Outcome, Launches, Holder
  <2> QED
    BY <2>3, Zenon DEF AuthorityStep, Authority!Next
<1> QED
  BY <1>4, <1>6, <1>7, <1>8, <1>9, <1>10, Zenon DEF CampaignStep, CampaignInv, CoverInv

-----------------------------------------------------------------------------
(* The supervisor's part of a pass.                                         *)
LEMMA FailCandidateLife ==
  ASSUME NEW s \in Life, NEW now \in Times
  PROVE  LET r == FailCandidate(s, now) IN
           r \in Life /\ r.active = s.active /\ r.candidate = None
<1> DEFINE q == ScheduleRetry(s, now, "RETRY_AFTER_FAILURE")
           v == IF s.active # None THEN "LIVE" ELSE "GAP"
<1>1. q \in Life /\ q.active = s.active
  BY ScheduleRetryFacts DEF Reason
<1>2. v \in State
  BY DEF State
<1>3. FailCandidate(s, now) = [q EXCEPT !.candidate = None, !.state = v]
  BY Zenon DEF FailCandidate
<1> HIDE DEF q, v
<1> QED
  BY <1>1, <1>2, <1>3, Zenon DEF Life

LEMMA EnterGapLife ==
  ASSUME NEW s \in Life, NEW now \in Times
  PROVE  LET r == EnterGap(s, now) IN
           r \in Life /\ r.active = None /\ r.candidate = None
  BY EnterGapFacts, Zenon DEF GoodLife

LEMMA DeadlineLife ==
  ASSUME CampaignTypeOK
  PROVE  LET s == AfterTime(clock) IN
           /\ s \in Life
           /\ s.active \in {active, None} /\ s.candidate \in {candidate, None}
           /\ s.active # None => clock - s.active.opened < ActiveMaxAge
           /\ s.candidate # None => clock - s.candidate.opened < CandidateTimeout
<1> DEFINE s == AfterTime(clock)
           old == active # None /\ clock - active.opened >= ActiveMaxAge
           slow == candidate # None /\ clock - candidate.opened >= CandidateTimeout
<1>1. /\ Current \in Life /\ Current.active = active /\ Current.candidate = candidate
      /\ clock \in Times /\ clock \in Nat
  BY ClockNat, Zenon DEF CampaignTypeOK, Current
<1>2. /\ active # None => active \in Generation /\ active.opened \in Nat
      /\ candidate # None => candidate \in Generation /\ candidate.opened \in Nat
  <2>1. active \in Generation \union {None} /\ candidate \in Generation \union {None}
    BY <1>1 DEF Life
  <2> QED
    BY <2>1, ClockNat, Zenon DEF Generation
<1>3. CASE old
  <2>1. s = EnterGap(Current, clock)
    BY <1>3 DEF AfterTime
  <2> QED
    BY <1>1, <2>1, EnterGapLife, Zenon
<1>4. CASE ~old /\ slow
  <2>1. s = FailCandidate(Current, clock)
    BY <1>4 DEF AfterTime
  <2>2. s \in Life /\ s.active = active /\ s.candidate = None
    BY <1>1, <2>1, FailCandidateLife, Zenon
  <2>3. active # None => clock - active.opened < ActiveMaxAge
    BY <1>1, <1>2, <1>4, ConfigFacts
  <2> QED
    BY <2>2, <2>3, Zenon
<1>5. CASE ~old /\ ~slow
  <2>1. s = Current
    BY <1>5, Zenon DEF AfterTime
  <2>2. /\ active # None => clock - active.opened < ActiveMaxAge
        /\ candidate # None => clock - candidate.opened < CandidateTimeout
    BY <1>1, <1>2, <1>5, ConfigFacts
  <2> QED
    BY <1>1, <2>1, <2>2, Zenon
<1> QED
  BY <1>3, <1>4, <1>5, Zenon

LEMMA BecomesLife ==
  ASSUME NEW s \in Life, Becomes(s)
  PROVE  Current' \in Life /\ active' = s.active /\ candidate' = s.candidate
<1>1. /\ active' = s.active /\ candidate' = s.candidate /\ state' = s.state
      /\ pending' = s.pending /\ notBefore' = s.notBefore
      /\ attempt' = s.attempt /\ gapCount' = s.gapCount
  BY Zenon DEF Becomes
<1>2. Current' = [active |-> s.active, candidate |-> s.candidate, state |-> s.state,
                  pending |-> s.pending, notBefore |-> s.notBefore, attempt |-> s.attempt,
                  gapCount |-> s.gapCount]
  BY <1>1, Zenon DEF Current
<1> QED
  BY <1>1, <1>2, Zenon DEF Life

(* advance_time at a reading of the campaign clock, and nothing more.       *)
LEMMA AdvancedLife ==
  ASSUME CampaignTypeOK, NEW s \in Life, Clock(clock), Becomes(s),
         s.active # None => \/ clock - s.active.opened < ActiveMaxAge
                            \/ clock - s.active.opened < CandidateTimeout
  PROVE  Current' \in Life /\ active' = s.active /\ candidate' = s.candidate /\ AgeBounded'
<1>1. lastMono' = clock
  BY Zenon DEF Clock
<1>2. Current' \in Life /\ active' = s.active /\ candidate' = s.candidate
  BY BecomesLife
<1> QED
  BY <1>1, <1>2, Zenon DEF AgeBounded

(* A step of the supervisor that registers nobody.                          *)
LEMMA SupervisorStep ==
  ASSUME CampaignInv, Grows, SameRegistered, supervised,
         UNCHANGED <<pendingCandidate, supervised, nextSlot, proven, proofStarted, proofRx>>,
         Current' \in Life, AgeBounded', active' \in {active, None},
         candidate' # None => candidate # None /\ candidate'.id = candidate.id,
         failure' \in BOOLEAN, Running, pc' = "disconnects"
  PROVE  CampaignStep
<1>0. CampaignTypeOK /\ AuthorityInv /\ CoverInv /\ SlotInv
  BY Zenon DEF CampaignInv, CoverInv
<1>1. Known' = Known /\ pc' \in Phase
  BY Zenon DEF SameRegistered, Known, Phase
<1>2. CampaignTypeOK'
  BY <1>0, <1>1, TypeKept, Zenon DEF CampaignTypeOK
<1>3. AuthorityInv'
  BY <1>0, AuthorityKept, Zenon
<1>4. LaunchInv' /\ ProofInv' /\ HeldInv'
  BY <1>0, GrowsCover, Zenon
<1>5. SlotInv'
  BY <1>0, ReachKept, Zenon DEF SlotInv
<1>6. AuthorityStep
  BY QuietAuthority DEF SameRegistered
<1> QED
  BY <1>2, <1>3, <1>4, <1>5, <1>6, Zenon DEF CampaignStep, CampaignInv, CoverInv

LEMMA DisconnectStep ==
  ASSUME CampaignInv, AgeBounded, NEW g \in Known, Disconnect(g)
  PROVE  CampaignStep
<1> DEFINE s == AfterTime(clock)
           e == DepthOf(g)
<1>1. /\ pc = "disconnects" /\ pc' = pc /\ clock' = clock /\ failure' = failure /\ supervised
      /\ children' = [children EXCEPT ![g] = Reported(children[g])]
      /\ UNCHANGED <<pendingCandidate, supervised, nextSlot, proven, proofStarted, proofRx>>
      /\ DisconnectEpoch(e, clock)
  BY Zenon DEF Disconnect, ToReport, loop
<1>2. /\ s \in Life /\ s.active \in {active, None} /\ s.candidate \in {candidate, None}
      /\ s.active # None => clock - s.active.opened < ActiveMaxAge
  BY Opened, DeadlineLife, Zenon
<1> HIDE DEF s, e
<1>3. PICK r \in {s, EnterGap(s, clock), FailCandidate(s, clock)} : Becomes(r)
  BY <1>1, Zenon DEF DisconnectEpoch, s
<1>4. r \in Life /\ r.active \in {s.active, None} /\ r.candidate \in {s.candidate, None}
  BY <1>2, <1>3, Opened, EnterGapLife, FailCandidateLife, Zenon
<1>5. Clock(clock)
  BY <1>1, Zenon DEF DisconnectEpoch
<1>6. Current' \in Life /\ active' = r.active /\ candidate' = r.candidate /\ AgeBounded'
  BY <1>2, <1>3, <1>4, <1>5, Opened, AdvancedLife, Zenon
<1>7. active' \in {active, None} /\ candidate' \in {candidate, None}
  BY <1>2, <1>4, <1>6, Zenon
<1>8. Grows /\ SameRegistered
  <2>1. children[g] \in Child /\ Sound(children[g])
    BY Opened, Zenon DEF LaunchInv
  <2> DEFINE d == Reported(children[g])
  <2>2. /\ Kept(children[g], d) /\ d.exit = children[g].exit
        /\ d.registered = children[g].registered
        /\ d.proc = children[g].proc /\ d.ended = children[g].ended
    BY <2>1, KeptMarked
  <2> HIDE DEF d
  <2>3. Sound(d)
    BY <2>1, <2>2, Zenon DEF Sound, Kept
  <2> QED
    BY <1>1, <2>2, <2>3, Opened, UpdateGrows, Zenon DEF d
<1>9. Running /\ failure' \in BOOLEAN
  BY <1>1, Opened, Zenon DEF Running
<1> QED
  BY <1>1, <1>6, <1>7, <1>8, <1>9, SupervisorStep, Zenon

-----------------------------------------------------------------------------
(* The first generation that is not registered is the one after the holder. *)
LEMMA FirstUnregistered ==
  ASSUME CampaignInv, pendingCandidate = None, Unregistered # {}
  PROVE  Min(Unregistered) = Holder + 1 /\ Holder + 1 \in Known
<1>1. Unregistered = {g \in Known : g > Holder}
  <2>1. \A g \in Known : g <= Holder => children[g].registered
    BY Opened, Zenon DEF AuthorityInv, RegisteredInv
  <2>2. \A g \in Known : g > Holder => ~children[g].registered
    BY Opened, Zenon DEF AuthorityInv, RegisteredInv
  <2>3. \A g \in Known : g <= Holder \/ g > Holder
    BY Opened
  <2>4. \A g \in Known : ~(g <= Holder /\ g > Holder)
    BY Opened
  <2> QED
    BY <2>1, <2>2, <2>3, <2>4, Zenon DEF Unregistered
<1>2. PICK g \in Known : g > Holder
  BY <1>1, Zenon
<1>3. Holder + 1 \in Unregistered /\ \A h \in Unregistered : h \in Int /\ Holder + 1 <= h
  BY <1>1, <1>2, Opened
<1>4. /\ Min(Unregistered) \in Unregistered
      /\ \A h \in Unregistered : Min(Unregistered) <= h
  BY <1>3, Zenon DEF Min
<1>5. Min(Unregistered) = Holder + 1
  BY <1>3, <1>4, Opened
<1> QED
  BY <1>3, <1>5, Zenon DEF Unregistered

LEMMA WaitedGrows ==
  ASSUME CampaignInv, clock' = clock,
         children' = [g \in Known |-> Waited(children[g], g \in ExitDue)]
  PROVE  Grows /\ SameRegistered
<1>1. ASSUME NEW g \in Known
      PROVE  /\ Kept(children[g], children'[g]) /\ Sound(children'[g])
             /\ children[g].exit = "OK" => children'[g].exit = "OK"
             /\ children'[g].registered = children[g].registered
  <2> DEFINE due == g \in ExitDue
             d == Waited(children[g], due)
  <2>1. children[g] \in Child /\ Sound(children[g]) /\ due \in BOOLEAN
    BY Opened DEF LaunchInv
  <2>2. children'[g] = d
    BY Zenon
  <2> HIDE DEF due
  <2>3. /\ Kept(children[g], d) /\ d.exit = ExitSeen(children[g])
        /\ d.registered = children[g].registered
        /\ d.proc = children[g].proc /\ d.ended = children[g].ended
    BY <2>1, KeptWaited, Zenon
  <2> HIDE DEF d
  <2>4. Sound(d) /\ (children[g].exit = "OK" => d.exit = "OK")
    BY <2>1, <2>3, CampaignFacts, Zenon DEF Sound, ExitSeen, Kept
  <2> QED
    BY <2>2, <2>3, <2>4, Zenon
<1>2. DOMAIN children' = Known /\ children' = [g \in Known |-> children'[g]]
  OBVIOUS
<1>3. children' \in [Known -> Child]
  BY <1>1, <1>2, Zenon DEF Kept
<1> QED
  BY <1>1, <1>2, <1>3, Opened, Zenon DEF Grows, SameRegistered

LEMMA BeginPassStep ==
  ASSUME CampaignInv, AgeBounded, BeginPass
  PROVE  CampaignStep
<1> DEFINE starts == ~supervised /\ Connected(children[0])
           first == [id |-> 0, opened |-> children[0].launch, facts |-> Fact]
<1>1. /\ pc = "poll" /\ pc' = "shutdowns" /\ clock' = clock /\ failure' \in BOOLEAN
      /\ children' = [g \in Known |-> Waited(children[g], g \in ExitDue)]
      /\ pendingCandidate' = IF pendingCandidate = None /\ Unregistered # {}
                             THEN Min(Unregistered) ELSE pendingCandidate
      /\ UNCHANGED <<nextSlot, proven, proofStarted, proofRx>>
  BY Zenon DEF BeginPass, Fail
<1>2. \/ starts /\ supervised' = TRUE /\ active' = first
                /\ UNCHANGED <<clocks, candidate, draining, state, pending, notBefore,
                               attempt, gapCount>>
      \/ UNCHANGED <<vars, supervised>>
  BY Zenon DEF BeginPass
<1>3. Grows /\ SameRegistered
  BY <1>1, WaitedGrows, Zenon
<1>4. Known' = Known /\ Launches' = Launches /\ Holder' = Holder
  BY <1>1, <1>3, Zenon DEF SameRegistered, Known, Launches, Holder
<1>5. /\ Current' \in Life /\ AgeBounded' /\ candidate' = candidate
      /\ supervised' \in BOOLEAN
      /\ ~supervised' => ~supervised /\ active' = None /\ lastMono' = 0
      /\ active' # None => active'.id = Holder
  <2>1. CASE UNCHANGED <<vars, supervised>>
    <3>1. Current' \in Life /\ AgeBounded' /\ active' = active /\ candidate' = candidate
          /\ lastMono' = lastMono /\ supervised' = supervised
      BY <2>1, Opened, SameLife, Zenon
    <3>2. /\ ~supervised => active = None /\ lastMono = 0
          /\ active # None => active.id = Holder
      BY Opened, Zenon DEF AuthorityInv, RolesInv
    <3> QED
      BY <3>1, <3>2, Opened, Zenon DEF CampaignTypeOK
  <2>2. CASE /\ starts /\ supervised' = TRUE /\ active' = first
             /\ UNCHANGED <<clocks, candidate, draining, state, pending, notBefore,
                            attempt, gapCount>>
    <3>1. Holder = 0 /\ lastMono = 0 /\ children[0].launch = 0
      BY <2>2, Opened, Zenon DEF AuthorityInv, RolesInv, LaunchInv
    <3>2. first \in Generation /\ first.opened = 0 /\ first.id = 0
      <4>1. 0 \in Identity /\ 0 \in Times
        BY CampaignAssumption
      <4> QED
        BY <3>1, <4>1, Zenon DEF Generation
    <3>3. Current' = [active |-> first, candidate |-> candidate, state |-> state,
                      pending |-> pending, notBefore |-> notBefore, attempt |-> attempt,
                      gapCount |-> gapCount]
      BY <2>2, Zenon DEF Current
    <3>4. Current' \in Life
      BY <3>2, <3>3, Opened, Zenon DEF Life, Current, CampaignTypeOK
    <3>5. lastMono' = 0
      BY <2>2, <3>1, Zenon DEF clocks
    <3>6. AgeBounded'
      BY <2>2, <3>2, <3>5, ConfigFacts DEF AgeBounded
    <3> QED
      BY <2>2, <3>1, <3>2, <3>4, <3>6, Zenon
  <2> QED
    BY <1>2, <2>1, <2>2, Zenon
<1> HIDE DEF starts, first
<1>6. CampaignTypeOK'
  <2>1. pc' \in Phase
    BY <1>1, Zenon DEF Phase
  <2> QED
    BY <1>1, <1>3, <1>4, <1>5, <2>1, Opened, TypeKept, Zenon DEF CampaignTypeOK
<1>7. AuthorityInv'
  <2>1. \A g \in Known : children'[g].registered = children[g].registered
    BY <1>3, Zenon DEF SameRegistered
  <2>2. /\ pendingCandidate' # None => pendingCandidate' = Holder + 1 /\ Holder + 1 \in Known
        /\ pendingCandidate' = None => pendingCandidate = None /\ Unregistered = {}
        /\ pendingCandidate # None => pendingCandidate' = pendingCandidate
    <3>1. CASE pendingCandidate = None /\ Unregistered # {}
      <4>1. pendingCandidate' = Holder + 1 /\ Holder + 1 \in Known
        BY <1>1, <3>1, FirstUnregistered, Zenon
      <4>2. Holder + 1 # None
        BY Opened, CampaignFacts
      <4> QED
        BY <3>1, <4>1, <4>2, Zenon
    <3>2. CASE ~(pendingCandidate = None /\ Unregistered # {})
      BY <1>1, <3>2, Opened, Zenon DEF AuthorityInv, RegisteredInv
    <3> QED
      BY <3>1, <3>2, Zenon
  <2>3. RegisteredInv'
    BY <1>4, <2>1, <2>2, Opened, Zenon DEF RegisteredInv, AuthorityInv
  <2>4. RolesInv'
    <3>1. candidate # None => Holder + 1 \in Known /\ pendingCandidate # None
      BY Opened, CampaignFacts DEF AuthorityInv, RolesInv, RegisteredInv
    <3> QED
      BY <1>4, <1>5, <2>1, <2>2, <3>1, Opened, Zenon DEF RolesInv, AuthorityInv
  <2>5. PhaseInv'
    <3>1. Unregistered' = Unregistered
      BY <1>4, <2>1, Zenon DEF Unregistered
    <3> QED
      BY <1>1, <2>2, <3>1, Zenon DEF PhaseInv
  <2> QED
    BY <2>3, <2>4, <2>5, Zenon DEF AuthorityInv
<1>8. LaunchInv' /\ ProofInv' /\ HeldInv'
  BY <1>1, <1>3, Opened, GrowsCover, Zenon
<1>9. SlotInv'
  BY <1>1, <1>3, Opened, ReachKept, Zenon DEF SlotInv
<1>10. AuthorityStep
  <2>1. Running /\ pc' # "committed"
    BY <1>1, Zenon DEF Running
  <2> QED
    BY <1>1, <1>3, <2>1, QuietAuthority, Zenon DEF SameRegistered
<1> QED
  BY <1>5, <1>6, <1>7, <1>8, <1>9, <1>10, Zenon DEF CampaignStep, CampaignInv, CoverInv

-----------------------------------------------------------------------------
(* A launch: the children and the authority after it.                       *)
LEMMA LaunchAuthority ==
  ASSUME CampaignInv, Unregistered = {}, Running, Running',
         Known' = 0..Launches, Launches' = Launches + 1, ~children'[Launches].registered,
         \A g \in Known : children'[g].registered = children[g].registered,
         proven' = proven,
         active' \in {active, None}, candidate' \in {candidate, None},
         supervised' = supervised, ~supervised => lastMono' = lastMono,
         pendingCandidate' = IF pendingCandidate = None THEN Launches ELSE pendingCandidate,
         pc' \notin {"precommit", "committed"}
  PROVE  AuthorityInv' /\ AuthorityStep
<1>1. \A g \in Known : children[g].registered
  BY Zenon DEF Unregistered
<1>2. /\ Holder' = Holder
      /\ pendingCandidate = None => Launches = Holder + 1
      /\ pendingCandidate # None => Launches = Holder + 2 /\ pendingCandidate = Holder + 1
  <2>1. Holder' = Holder
    BY Zenon DEF Holder
  <2>2. CASE pendingCandidate = None
    <3>1. \A g \in Known : ~(g > Holder)
      BY <1>1, <2>2, Opened, Zenon DEF AuthorityInv, RegisteredInv
    <3>2. Launches - 1 \in Known
      BY Opened
    <3> QED
      BY <2>1, <2>2, <3>1, <3>2, Opened
  <2>3. CASE pendingCandidate # None
    <3>1. /\ \A g \in Known : ~(g > Holder + 1)
          /\ pendingCandidate = Holder + 1 /\ Holder + 1 \in Known
      BY <1>1, <2>3, Opened, Zenon DEF AuthorityInv, RegisteredInv
    <3>2. Launches - 1 \in Known
      BY Opened
    <3> QED
      BY <2>1, <2>3, <3>1, <3>2, Opened
  <2> QED
    BY <2>2, <2>3, Zenon
<1>3. /\ pendingCandidate' = Holder' + 1 /\ Holder' + 1 \in Known' /\ pendingCandidate' # None
      /\ \A g \in Known' : g \in Known \/ g = Launches
      /\ Launches \in Known' /\ Known \subseteq Known'
      /\ Launches > Holder /\ Launches \notin Known
  BY <1>2, Opened, CampaignFacts
<1>4. RegisteredInv'
  <2>1. \A g \in Known' : g <= Holder => children'[g].registered
    <3>1. ~(Launches <= Holder)
      BY <1>3, Opened
    <3> QED
      BY <1>1, <1>3, <3>1, Zenon
  <2>2. \A g \in Known' : g > Holder + 1 => ~children'[g].registered
    BY <1>3, Opened, Zenon DEF AuthorityInv, RegisteredInv
  <2> QED
    BY <1>2, <1>3, <2>1, <2>2, Zenon DEF RegisteredInv
<1>5. RolesInv'
  <2>1. candidate # None => /\ candidate.id = Holder + 1 /\ pendingCandidate = Holder + 1
                            /\ children[Holder + 1].registered /\ Holder + 1 \in Known
                            /\ pendingCandidate # None
    BY Opened, CampaignFacts DEF AuthorityInv, RolesInv, RegisteredInv
  <2>2. /\ ~supervised => active = None /\ candidate = None /\ Holder = 0 /\ lastMono = 0
        /\ active # None => active.id = Holder
    BY Opened, Zenon DEF AuthorityInv, RolesInv
  <2> QED
    BY <1>2, <1>3, <2>1, <2>2, Zenon DEF RolesInv
<1>6. PhaseInv'
  BY <1>3, Zenon DEF PhaseInv
<1>7. AuthorityStep
  <2>1. Launches < Holder + 3
    BY <1>2, Opened
  <2>2. Outcome = "RUNNING" /\ Outcome' = "RUNNING"
    BY Zenon DEF Outcome
  <2>3. Authority!Launch
    BY <1>2, <2>1, <2>2, Zenon DEF Authority!Launch, Outcome, Launches, Holder
  <2> QED
    BY <2>3, Zenon DEF AuthorityStep, Authority!Next
<1> QED
  BY <1>4, <1>5, <1>6, <1>7, Zenon DEF AuthorityInv

LEMMA LaunchType ==
  ASSUME CampaignInv, Grows, proven' = proven, Known' = 0..Launches, Launches \in Identity,
         pc' \in Phase, supervised' \in BOOLEAN, failure' \in BOOLEAN, nextSlot' \in Nat \ {0},
         proofRx' = proofRx, Current' \in Life
  PROVE  CampaignTypeOK'
<1>1. Known' \subseteq Identity
  BY Opened, CampaignFacts
<1> QED
  BY <1>1, Opened, TypeKept, Zenon DEF CampaignTypeOK

-----------------------------------------------------------------------------
LEMMA DurationNat ==
  ASSUME CampaignInv, CandidateDuration # None
  PROVE  CandidateDuration \in Nat
  BY Opened, CampaignFacts DEF CandidateDuration, Shorter, Longer

LEMMA ShutdownRequestStep ==
  ASSUME CampaignInv, AgeBounded, NEW g \in Known, ShutdownRequest(g)
  PROVE  CampaignStep
<1> DEFINE d == Answered(children[g])
           taken == [children EXCEPT ![g] = d]
<1>1. /\ pc = "shutdowns" /\ pc' = pc /\ clock' = clock
      /\ UNCHANGED <<vars, supervised, nextSlot, proven, proofStarted, proofRx>>
  BY Zenon DEF ShutdownRequest
<1>2. /\ Kept(children[g], d) /\ d.exit = children[g].exit
      /\ d.registered = children[g].registered
      /\ d.proc = children[g].proc /\ d.ended = children[g].ended
  BY Opened, KeptAnswered, Zenon
<1>3. Sound(d)
  <2>1. Sound(children[g])
    BY Opened, Zenon DEF LaunchInv
  <2> HIDE DEF d
  <2> QED
    BY <1>2, <2>1, Zenon DEF Sound, Kept
<1> HIDE DEF d
<1>4. \/ /\ children' = taken /\ pendingCandidate' = pendingCandidate
         /\ failure' \in {failure, TRUE}
      \/ /\ pendingCandidate = None /\ candidate = None /\ CandidateDuration # None
         /\ Launches \in Identity
         /\ children' = WithChild(taken, Launches, CandidateDuration)
         /\ pendingCandidate' = Launches /\ failure' = failure
  BY Zenon DEF ShutdownRequest, Launches, d, Fail
<1>5. Running /\ pc' \in Phase \ {"committed"} /\ pc' # "prove"
      /\ pc' \notin {"evaluate", "precommit"} /\ Running'
  BY <1>1, Zenon DEF Running, Phase
<1>6. CASE /\ children' = taken /\ pendingCandidate' = pendingCandidate
           /\ failure' \in {failure, TRUE}
  <2>1. Grows /\ SameRegistered
    BY <1>1, <1>2, <1>3, <1>6, Opened, UpdateGrows, Zenon
  <2>2. failure' \in BOOLEAN
    BY <1>6, Opened, Zenon
  <2> QED
    BY <1>1, <1>5, <1>6, <2>1, <2>2, QuietStep, Zenon
<1>7. CASE /\ pendingCandidate = None /\ candidate = None /\ CandidateDuration # None
           /\ Launches \in Identity
           /\ children' = WithChild(taken, Launches, CandidateDuration)
           /\ pendingCandidate' = Launches /\ failure' = failure
  <2>1. /\ taken \in [Known -> Child] /\ taken[g] = d
        /\ \A h \in Known : h # g => taken[h] = children[h]
    BY <1>2, Opened, Zenon DEF Kept
  <2>2. ASSUME NEW h \in Known
        PROVE  /\ Kept(children[h], taken[h]) /\ Sound(taken[h])
               /\ children[h].exit = "OK" => taken[h].exit = "OK"
               /\ taken[h].registered = children[h].registered
    <3>1. Sound(children[h]) /\ children[h] \in Child
      BY Opened, Zenon DEF LaunchInv
    <3>2. Kept(children[h], children[h])
      BY <3>1, Zenon DEF Kept
    <3> QED
      BY <1>2, <1>3, <2>1, <3>1, <3>2, Zenon
  <2> HIDE DEF taken
  <2>3. /\ Grows /\ Known' = 0..Launches /\ Launches' = Launches + 1
        /\ \A h \in Known : children'[h] = taken[h]
        /\ children'[Launches].registered = (Launches = 0)
    BY <1>1, <1>7, <2>1, <2>2, Opened, DurationNat, LaunchGrows, Zenon
  <2>4. ~children'[Launches].registered
    <3>1. Launches # 0
      BY Opened
    <3> QED
      BY <2>3, <3>1, Zenon
  <2>5. /\ Current' \in Life /\ AgeBounded' /\ active' = active /\ candidate' = candidate
        /\ lastMono' = lastMono
    BY <1>1, Opened, SameLife, Zenon
  <2>6. Unregistered = {}
    BY <1>1, <1>7, Opened, Zenon DEF AuthorityInv, PhaseInv
  <2>7. AuthorityInv' /\ AuthorityStep
    <3>1. /\ \A h \in Known : children'[h].registered = children[h].registered
          /\ active' \in {active, None} /\ candidate' \in {candidate, None}
          /\ pendingCandidate' = IF pendingCandidate = None THEN Launches ELSE pendingCandidate
      BY <1>7, <2>2, <2>3, <2>5, Zenon
    <3>2. pc' \notin {"precommit", "committed"} /\ supervised' = supervised /\ proven' = proven
      BY <1>1, Zenon
    <3> QED
      BY <1>5, <2>3, <2>4, <2>5, <2>6, <3>1, <3>2, LaunchAuthority, Zenon
  <2>8. CampaignTypeOK'
    <3>1. supervised' \in BOOLEAN /\ failure' \in BOOLEAN /\ nextSlot' \in Nat \ {0}
      BY <1>1, <1>7, Opened, Zenon DEF CampaignTypeOK
    <3> QED
      BY <1>1, <1>5, <1>7, <2>3, <2>5, <3>1, LaunchType, Zenon
  <2>9. LaunchInv' /\ ProofInv' /\ HeldInv'
    BY <1>1, <2>3, Opened, GrowsCover, Zenon
  <2>10. SlotInv'
    BY <1>1, <2>3, Opened, ReachKept, Zenon DEF SlotInv
  <2> QED
    BY <2>5, <2>7, <2>8, <2>9, <2>10, Zenon DEF CampaignStep, CampaignInv, CoverInv
<1> QED
  BY <1>4, <1>6, <1>7, Zenon

-----------------------------------------------------------------------------
(* The registration of the pending candidate.                               *)
LEMMA AbortStep ==
  ASSUME CampaignInv, AgeBounded, Running, Abort
  PROVE  CampaignStep
<1>1. /\ pc' = "aborted" /\ children' = Stopped /\ clock' = clock /\ failure' = failure
      /\ UNCHANGED <<vars, pendingCandidate, supervised, nextSlot, proven, proofStarted, proofRx>>
  BY Zenon DEF Abort, loop
<1>2. Grows /\ SameRegistered
  BY <1>1, Opened, StoppedGrows, Zenon
<1>3. pc' \in Phase \ {"committed"} /\ failure' \in BOOLEAN
  BY <1>1, Opened, Zenon DEF Phase
<1> QED
  BY <1>1, <1>2, <1>3, QuietStep, Zenon

LEMMA FactsOfFacts == ASSUME NEW c PROVE FactsOf(c) \subseteq Fact
  BY DEF FactsOf, Fact

LEMMA CandidateStep ==
  ASSUME CampaignInv, AgeBounded, Candidate
  PROVE  CampaignStep
<1> DEFINE g == pendingCandidate
           s == AfterTime(clock)
           fresh == FactsOf(children[g])
           registers == g # None /\ RegistrationDue(g)
           shows == /\ ~registers /\ g # None /\ supervised /\ candidate # None
                    /\ s.candidate # None
<1>1. /\ pc = "shutdowns" /\ Running
      /\ s \in Life /\ s.active \in {active, None} /\ s.candidate \in {candidate, None}
      /\ s.active # None => clock - s.active.opened < ActiveMaxAge
      /\ fresh \subseteq Fact
  <2>1. pc = "shutdowns" /\ Running
    BY Zenon DEF Candidate, Running
  <2> QED
    BY <2>1, Opened, DeadlineLife, FactsOfFacts, Zenon
<1>2. \/ Abort
      \/ /\ registers /\ pc' = "disconnects" /\ Clock(clock)
         /\ Becomes([Started(s, g, clock) EXCEPT !.candidate.facts = fresh])
         /\ children' = [children EXCEPT ![g] = Registered(children[g])]
         /\ UNCHANGED <<clock, supervised, loop, failure>>
      \/ /\ shows /\ pc' = "disconnects" /\ Clock(clock)
         /\ Becomes([s EXCEPT !.candidate.facts = @ \union fresh])
         /\ UNCHANGED <<clock, children, supervised, loop, failure>>
      \/ /\ pc' = "disconnects"
         /\ UNCHANGED <<vars, clock, children, supervised, loop, failure>>
  BY Zenon DEF Candidate
<1> HIDE DEF fresh
<1>3. CASE Abort
  BY <1>1, <1>3, AbortStep, Zenon
<1>4. CASE /\ pc' = "disconnects"
           /\ UNCHANGED <<vars, clock, children, supervised, loop, failure>>
  <2>1. /\ children' = children /\ clock' = clock /\ failure' = failure
        /\ UNCHANGED <<vars, pendingCandidate, supervised, nextSlot, proven, proofStarted, proofRx>>
    BY <1>4, Zenon DEF loop
  <2>2. Grows /\ SameRegistered
    BY <2>1, Opened, SameGrows, UnchangedRegistered, Zenon
  <2>3. pc' \in Phase \ {"committed"} /\ failure' \in BOOLEAN
    BY <1>4, <2>1, Opened, Zenon DEF Phase
  <2> QED
    BY <1>1, <1>4, <2>1, <2>2, <2>3, QuietStep, Zenon
<1>5. CASE /\ shows /\ pc' = "disconnects" /\ Clock(clock)
           /\ Becomes([s EXCEPT !.candidate.facts = @ \union fresh])
           /\ UNCHANGED <<clock, children, supervised, loop, failure>>
  <2> DEFINE more == s.candidate.facts \union fresh
             c == [s.candidate EXCEPT !.facts = more]
             r == [s EXCEPT !.candidate = c]
  <2>1. s.candidate \in Generation /\ s.candidate = candidate
    BY <1>1, <1>5, Zenon DEF Life
  <2>2. more \in SUBSET Fact
    BY <1>1, <2>1, Zenon DEF Generation
  <2> HIDE DEF more
  <2>3. c \in Generation /\ c.id = candidate.id
    BY <2>1, <2>2, Zenon DEF Generation
  <2>4. r \in Life /\ r.active = s.active /\ r.candidate = c
    BY <1>1, <2>3, Zenon DEF Life
  <2>5. [s EXCEPT !.candidate.facts = @ \union fresh] = r
    BY Zenon DEF more
  <2>6. Becomes(r)
    BY <1>5, <2>5, Zenon
  <2> HIDE DEF r, c
  <2>7. Current' \in Life /\ active' = s.active /\ candidate' = c /\ AgeBounded'
    BY <1>1, <1>5, <2>4, <2>6, Opened, AdvancedLife, Zenon
  <2>8. /\ children' = children /\ clock' = clock /\ failure' = failure
        /\ UNCHANGED <<pendingCandidate, supervised, nextSlot, proven, proofStarted, proofRx>>
    BY <1>5, Zenon DEF loop
  <2>9. Grows /\ SameRegistered
    BY <2>8, Opened, SameGrows, UnchangedRegistered, Zenon
  <2>10. failure' \in BOOLEAN
    BY <2>8, Opened, Zenon
  <2> QED
    BY <1>1, <1>5, <2>3, <2>7, <2>8, <2>9, <2>10, SupervisorStep, Zenon
<1>6. CASE /\ registers /\ pc' = "disconnects" /\ Clock(clock)
           /\ Becomes([Started(s, g, clock) EXCEPT !.candidate.facts = fresh])
           /\ children' = [children EXCEPT ![g] = Registered(children[g])]
           /\ UNCHANGED <<clock, supervised, loop, failure>>
  <2> DEFINE c0 == [id |-> g, opened |-> clock, facts |-> {}]
             c == [id |-> g, opened |-> clock, facts |-> fresh]
             v == IF s.active # None THEN "HANDOVER" ELSE "RECOVERING"
             r0 == [s EXCEPT !.candidate = c0, !.pending = None, !.notBefore = None, !.state = v]
             r == [r0 EXCEPT !.candidate = c]
             d == Registered(children[g])
  <2>1. g # None /\ supervised /\ g = Holder + 1 /\ g \in Known
    <3>1. g # None /\ supervised
      BY <1>6, Zenon DEF RegistrationDue
    <3> QED
      BY <3>1, Opened, Zenon DEF AuthorityInv, RegisteredInv
  <2>2. c \in Generation /\ c.id = g /\ c # None /\ c0 \in Generation
    <3>1. g \in Identity /\ clock \in Times /\ fresh \in SUBSET Fact /\ {} \in SUBSET Fact
      BY <1>1, <2>1, Opened, Zenon
    <3>2. c \in Generation /\ c.id = g /\ c0 \in Generation
      BY <3>1, Zenon DEF Generation
    <3> QED
      BY <3>2, ConfigFacts, Zenon
  <2>3. v \in State
    BY DEF State
  <2>4. [Started(s, g, clock) EXCEPT !.candidate.facts = fresh] = r
    <3>1. Started(s, g, clock) = r0
      BY Zenon DEF Started
    <3>2. [c0 EXCEPT !.facts = fresh] = c
      OBVIOUS
    <3> HIDE DEF c0, c, v
    <3>3. r0.candidate = c0
      BY <1>1, Zenon DEF Life
    <3> HIDE DEF r0
    <3> QED
      BY <3>1, <3>2, <3>3, Zenon
  <2> HIDE DEF c, c0, v
  <2>5. r \in Life /\ r.active = s.active /\ r.candidate = c
    <3>1. r0 \in Life /\ r0.active = s.active
      BY <1>1, <2>2, <2>3, Zenon DEF Life
    <3> HIDE DEF r0
    <3> QED
      BY <2>2, <3>1, Zenon DEF Life
  <2>6. Becomes(r)
    BY <1>6, <2>4, Zenon
  <2> HIDE DEF r
  <2>7. Current' \in Life /\ active' = s.active /\ candidate' = c /\ AgeBounded'
    BY <1>1, <1>6, <2>5, <2>6, Opened, AdvancedLife, Zenon
  <2>8. /\ clock' = clock /\ failure' = failure
        /\ UNCHANGED <<pendingCandidate, supervised, nextSlot, proven, proofStarted, proofRx>>
    BY <1>6, Zenon DEF loop
  <2>9. /\ Kept(children[g], d) /\ d.exit = children[g].exit /\ d.registered
        /\ d.proc = children[g].proc /\ d.ended = children[g].ended
    BY <2>1, Opened, KeptMarked, Zenon
  <2>10. Sound(d)
    <3>1. Sound(children[g])
      BY <2>1, Opened, Zenon DEF LaunchInv
    <3> HIDE DEF d
    <3> QED
      BY <2>9, <3>1, Zenon DEF Sound, Kept
  <2> HIDE DEF d
  <2>11. /\ Grows /\ DOMAIN children' = Known /\ children'[g] = d
         /\ \A h \in Known : h # g => children'[h] = children[h]
    BY <1>6, <2>1, <2>8, <2>9, <2>10, Opened, UpdateGrows, Zenon DEF d
  <2>12. Known' = Known /\ Launches' = Launches /\ Holder' = Holder
    BY <2>8, <2>11, Zenon DEF Known, Launches, Holder
  <2>13. CampaignTypeOK'
    <3>1. pc' \in Phase
      BY <1>6, Zenon DEF Phase
    <3> QED
      BY <2>7, <2>8, <2>11, <2>12, <3>1, Opened, TypeKept, Zenon DEF CampaignTypeOK
  <2>14. AuthorityInv'
    <3>1. ~(Holder + 1 <= Holder) /\ ~(Holder + 1 > Holder + 1)
      BY Opened
    <3>2. RegisteredInv'
      BY <2>1, <2>8, <2>9, <2>11, <2>12, <3>1, Opened, Zenon DEF AuthorityInv, RegisteredInv
    <3>3. RolesInv'
      <4>1. active # None => active.id = Holder
        BY Opened, Zenon DEF AuthorityInv, RolesInv
      <4> QED
        BY <1>1, <2>1, <2>2, <2>7, <2>8, <2>9, <2>11, <2>12, <4>1, Zenon DEF RolesInv
    <3>4. PhaseInv'
      BY <1>6, Zenon DEF PhaseInv
    <3> QED
      BY <3>2, <3>3, <3>4, Zenon DEF AuthorityInv
  <2>15. LaunchInv' /\ ProofInv' /\ HeldInv'
    BY <2>8, <2>11, Opened, GrowsCover, Zenon
  <2>16. SlotInv'
    BY <1>6, <2>8, <2>11, Opened, ReachKept, Zenon DEF SlotInv
  <2>17. AuthorityStep
    BY <1>1, <1>6, <2>8, <2>11, QuietAuthority, Zenon
  <2> QED
    BY <2>7, <2>13, <2>14, <2>15, <2>16, <2>17, Zenon DEF CampaignStep, CampaignInv, CoverInv
<1> QED
  BY <1>2, <1>3, <1>4, <1>5, <1>6, Zenon

-----------------------------------------------------------------------------
(* The planned slots.                                                       *)
LEMMA SlotFacts ==
  ASSUME NEW slot \in Nat
  PROVE  /\ SlotStart(slot) \in Nat
         /\ PlannedDuration(slot) = None <=> Total - SlotStart(slot) < Overlap
         /\ PlannedDuration(slot) # None =>
              /\ PlannedDuration(slot) \in Nat
              /\ PlannedDuration(slot) >= Shorter(Total - SlotStart(slot), MaximumGeneration)
<1>1. SlotStart(slot) \in Nat /\ SlotStart(slot + 1) \in Nat
  BY CampaignFacts DEF SlotStart
<1> DEFINE remaining == Total - SlotStart(slot)
           final == Longer(Total - SlotStart(slot + 1), 0) < Overlap
           asked == IF final THEN Longer(remaining, Overlap + FinalTail) ELSE remaining
<1>2. PlannedDuration(slot) = IF remaining < Overlap THEN None
                              ELSE Shorter(asked, MaximumGeneration)
  BY Zenon DEF PlannedDuration
<1>3. remaining \in Int /\ asked \in Int /\ asked >= remaining
  BY <1>1, CampaignFacts DEF Longer
<1> HIDE DEF asked, final
<1>4. CASE remaining < Overlap
  BY <1>1, <1>2, <1>4, Zenon
<1>5. CASE ~(remaining < Overlap)
  <2>1. PlannedDuration(slot) = Shorter(asked, MaximumGeneration)
    BY <1>2, <1>5, Zenon
  <2>2. /\ Shorter(asked, MaximumGeneration) \in Nat
        /\ Shorter(asked, MaximumGeneration) >= Shorter(remaining, MaximumGeneration)
    BY <1>3, <1>5, CampaignFacts DEF Shorter
  <2>3. PlannedDuration(slot) # None
    BY <2>1, <2>2, CampaignFacts, Zenon
  <2> QED
    BY <1>1, <1>5, <2>1, <2>2, <2>3, Zenon
<1> QED
  BY <1>4, <1>5, Zenon

LEMMA PlanStep ==
  ASSUME CampaignInv, AgeBounded, Plan
  PROVE  CampaignStep
<1> DEFINE s == AfterTime(clock)
           start == SlotStart(nextSlot)
           planned == /\ ~failure /\ ~(supervised /\ ReachedDeadline(s))
                      /\ PlannedDuration(nextSlot) # None
           launch == /\ planned /\ ~LaunchWindowLost(nextSlot) /\ clock >= start
                     /\ ~WarmSlotOccupied
<1>1. /\ pc = "disconnects" /\ pc' = "prove" /\ clock' = clock /\ failure' \in BOOLEAN
      /\ UNCHANGED <<supervised, proven, proofStarted, proofRx>>
      /\ IF supervised THEN Clock(clock) /\ Becomes(s) ELSE UNCHANGED vars
      /\ IF launch
         THEN /\ Launches \in Identity
              /\ children' = WithChild(children, Launches, PlannedDuration(nextSlot))
              /\ pendingCandidate' = IF pendingCandidate = None THEN Launches ELSE pendingCandidate
              /\ nextSlot' = nextSlot + 1
         ELSE UNCHANGED <<children, pendingCandidate, nextSlot>>
  BY Zenon DEF Plan, Fail, Launches
<1>2. ~failure' => /\ ~failure /\ ~(supervised /\ ReachedDeadline(s))
                   /\ ~(planned /\ LaunchWindowLost(nextSlot))
                   /\ ~(planned /\ clock >= start /\ WarmSlotOccupied)
  BY Zenon DEF Plan, Fail
<1>3. /\ Current' \in Life /\ AgeBounded' /\ active' \in {active, None}
      /\ candidate' \in {candidate, None}
      /\ ~supervised => lastMono' = lastMono
  <2>1. CASE supervised
    <3>1. /\ s \in Life /\ s.active \in {active, None} /\ s.candidate \in {candidate, None}
          /\ s.active # None => clock - s.active.opened < ActiveMaxAge
      BY Opened, DeadlineLife, Zenon
    <3> HIDE DEF s
    <3>2. Current' \in Life /\ active' = s.active /\ candidate' = s.candidate /\ AgeBounded'
      BY <1>1, <2>1, <3>1, Opened, AdvancedLife, Zenon
    <3> QED
      BY <2>1, <3>1, <3>2, Zenon
  <2>2. CASE ~supervised
    <3>1. UNCHANGED vars
      BY <1>1, <2>2, Zenon
    <3> QED
      BY <3>1, Opened, SameLife, Zenon
  <2> QED
    BY <2>1, <2>2, Zenon
<1>4. nextSlot \in Nat \ {0} /\ start \in Nat
  BY Opened, SlotFacts, Zenon DEF CampaignTypeOK
<1>5. Running /\ Running' /\ pc' \in Phase /\ pc' # "committed"
  BY <1>1, Zenon DEF Running, Phase
<1>6. CASE ~launch
  <2>1. children' = children /\ pendingCandidate' = pendingCandidate /\ nextSlot' = nextSlot
    BY <1>1, <1>6, Zenon
  <2>2. Grows /\ SameRegistered
    BY <1>1, <2>1, Opened, SameGrows, UnchangedRegistered, Zenon
  <2>3. Known' = Known
    BY <2>1, Zenon DEF Known
  <2>4. CampaignTypeOK'
    BY <1>1, <1>3, <1>5, <2>1, <2>2, <2>3, Opened, TypeKept, Zenon DEF CampaignTypeOK
  <2>5. AuthorityInv'
    <3>1. candidate' # None => candidate # None /\ candidate'.id = candidate.id
      BY <1>3, Zenon
    <3>2. pc' # "shutdowns" /\ pc' \notin {"precommit", "committed"}
      BY <1>1, Zenon
    <3> QED
      BY <1>1, <1>3, <2>1, <2>2, <3>1, <3>2, Opened, AuthorityKept, Zenon
  <2>6. LaunchInv' /\ ProofInv' /\ HeldInv'
    BY <1>1, <2>2, Opened, GrowsCover, Zenon
  <2>7. SlotInv'
    <3>1. \E g \in Known' : Reaches(children'[g], nextSlot' - 1)
      BY <2>1, <2>2, Opened, ReachKept, Zenon
    <3>2. ~failure' => clock < start \/ Total - start < Overlap
      <4> SUFFICES ASSUME ~failure' PROVE clock < start \/ Total - start < Overlap
        BY Zenon
      <4>1. CASE planned
        <5>1. ~(clock >= start)
          BY <1>2, <1>6, <4>1, Zenon
        <5> QED
          BY <5>1, <1>4, Opened
      <4>2. CASE ~planned
        <5>1. PlannedDuration(nextSlot) = None
          BY <1>2, <4>2, Zenon
        <5> QED
          BY <5>1, <1>4, SlotFacts, Zenon
      <4> QED
        BY <4>1, <4>2, Zenon
    <3> QED
      BY <1>1, <2>1, <3>1, <3>2, Zenon DEF SlotInv, Reaches, SlotStart
  <2>8. AuthorityStep
    BY <1>1, <1>5, <2>2, QuietAuthority, Zenon DEF SameRegistered
  <2> QED
    BY <1>3, <2>4, <2>5, <2>6, <2>7, <2>8, Zenon DEF CampaignStep, CampaignInv, CoverInv
<1>7. CASE launch
  <2> DEFINE duration == PlannedDuration(nextSlot)
  <2>1. /\ Launches \in Identity /\ children' = WithChild(children, Launches, duration)
        /\ pendingCandidate' = IF pendingCandidate = None THEN Launches ELSE pendingCandidate
        /\ nextSlot' = nextSlot + 1 /\ Unregistered = {} /\ clock >= start
        /\ PlannedDuration(nextSlot) # None
    BY <1>1, <1>7, Zenon DEF WarmSlotOccupied
  <2>2. duration \in Nat /\ duration >= Shorter(Total - start, MaximumGeneration)
    BY <1>4, <2>1, SlotFacts, Zenon
  <2>3. \A g \in Known : /\ Kept(children[g], children[g]) /\ Sound(children[g])
                         /\ children[g].exit = "OK" => children[g].exit = "OK"
    BY Opened, Zenon DEF Kept, LaunchInv
  <2> HIDE DEF launch, planned, duration
  <2>4. /\ Grows /\ Known' = 0..Launches /\ Launches' = Launches + 1
        /\ \A g \in Known : children'[g] = children[g]
        /\ children'[Launches].launch = clock /\ children'[Launches].duration = duration
        /\ children'[Launches].exit = None
        /\ children'[Launches].registered = (Launches = 0)
    BY <1>1, <2>1, <2>2, <2>3, Opened, LaunchGrows, Zenon
  <2>5. ~children'[Launches].registered
    <3>1. Launches # 0
      BY Opened
    <3> QED
      BY <2>4, <3>1, Zenon
  <2>6. AuthorityInv' /\ AuthorityStep
    <3>1. \A g \in Known : children'[g].registered = children[g].registered
      BY <2>4, Zenon
    <3>2. pc' \notin {"precommit", "committed"} /\ supervised' = supervised /\ proven' = proven
      BY <1>1, Zenon
    <3> QED
      BY <1>3, <1>5, <2>1, <2>4, <2>5, <3>1, <3>2, LaunchAuthority, Zenon
  <2>7. CampaignTypeOK'
    <3>1. supervised' \in BOOLEAN
      BY <1>1, Opened, Zenon DEF CampaignTypeOK
    <3>2. nextSlot' \in Nat \ {0}
      BY <1>4, <2>1
    <3> QED
      BY <1>1, <1>3, <1>5, <2>1, <2>4, <3>1, <3>2, LaunchType, Zenon
  <2>8. LaunchInv' /\ ProofInv' /\ HeldInv'
    BY <1>1, <2>4, Opened, GrowsCover, Zenon
  <2>9. SlotInv'
    <3>1. Launches \in Known'
      BY <2>4, Opened
    <3>2. nextSlot' - 1 = nextSlot
      BY <1>4, <2>1
    <3>3. Reaches(children'[Launches], nextSlot' - 1)
      BY <2>1, <2>2, <2>4, <3>2, Zenon DEF Reaches
    <3> QED
      BY <1>1, <2>4, <3>1, <3>3, Zenon DEF SlotInv, Reaches, SlotStart
  <2> QED
    BY <1>3, <2>6, <2>7, <2>8, <2>9, Zenon DEF CampaignStep, CampaignInv, CoverInv
<1> QED
  BY <1>6, <1>7, Zenon

-----------------------------------------------------------------------------
(* The proofs of the handovers.                                             *)
LEMMA StartProofStep ==
  ASSUME CampaignInv, AgeBounded, NEW p \in Known, StartProof(p)
  PROVE  CampaignStep
<1>1. /\ pc = "prove" /\ pc' = pc /\ clock' = clock /\ failure' = failure /\ children' = children
      /\ UNCHANGED <<vars, pendingCandidate, supervised, nextSlot, proven, proofRx>>
      /\ DOMAIN proofStarted' = DOMAIN proofStarted \union {p} /\ p \in Provable
  BY Zenon DEF StartProof
<1>2. Grows /\ SameRegistered
  BY <1>1, Opened, SameGrows, UnchangedRegistered, Zenon
<1>3. /\ Current' \in Life /\ AgeBounded' /\ active' = active /\ candidate' = candidate
      /\ lastMono' = lastMono
  BY <1>1, Opened, SameLife, Zenon
<1>4. Known' = Known
  BY <1>1, Zenon DEF Known
<1>5. CampaignTypeOK'
  BY <1>1, <1>2, <1>3, <1>4, Opened, TypeKept, Zenon DEF CampaignTypeOK
<1>6. AuthorityInv'
  BY <1>1, <1>2, <1>3, Opened, AuthorityKept, Zenon
<1>7. LaunchInv' /\ HeldInv'
  BY <1>1, <1>2, Opened, GrowsLaunch, GrowsHeld, Zenon DEF CoverInv
<1>8. ProofInv'
  <2>1. p \in Known /\ p + 1 \in Known /\ children[p].exit = "OK"
    BY <1>1, Zenon DEF Provable, TerminalComplete
  <2> QED
    BY <1>1, <1>4, <2>1, Opened, Zenon DEF CoverInv, ProofInv, Meets
<1>9. SlotInv'
  BY <1>1, <1>4, Opened, Zenon DEF SlotInv, Reaches, SlotStart
<1>10. AuthorityStep
  <2>1. Running /\ pc' # "committed"
    BY <1>1, Zenon DEF Running
  <2> QED
    BY <1>1, <1>2, <2>1, QuietAuthority, Zenon DEF SameRegistered
<1> QED
  BY <1>3, <1>5, <1>6, <1>7, <1>8, <1>9, <1>10, Zenon DEF CampaignStep, CampaignInv, CoverInv

(* Taking a completion from the channel keeps what is known of the rest.    *)
LEMMA ReceiveFacts ==
  ASSUME CampaignInv, proofRx # <<>>, proofRx' = Tail(proofRx), children' = children,
         DOMAIN proofStarted' = DOMAIN proofStarted
  PROVE  /\ proofRx' \in Seq(Nat \X BOOLEAN) /\ ProofInv'
         /\ Head(proofRx)[1] \in Nat
         /\ Head(proofRx)[2] => Meets(children, Head(proofRx)[1])
<1>1. proofRx \in Seq(Nat \X BOOLEAN)
  BY Opened, Zenon DEF CampaignTypeOK
<1>2. /\ proofRx' \in Seq(Nat \X BOOLEAN) /\ Head(proofRx) = proofRx[1]
      /\ 1 \in 1..Len(proofRx) /\ Head(proofRx) \in Nat \X BOOLEAN
      /\ \A k \in 1..Len(proofRx') : k + 1 \in 1..Len(proofRx) /\ proofRx'[k] = proofRx[k + 1]
  BY <1>1
<1>3. \A k \in 1..Len(proofRx) : proofRx[k][2] => Meets(children, proofRx[k][1])
  BY Opened, Zenon DEF CoverInv, ProofInv
<1>4. \A k \in 1..Len(proofRx') : proofRx'[k][2] => Meets(children', proofRx'[k][1])
  BY <1>2, <1>3, Zenon
<1>5. ProofInv'
  BY <1>4, Opened, Zenon DEF CoverInv, ProofInv, Known
<1>6. Head(proofRx)[1] \in Nat
  BY <1>2, Zenon
<1> QED
  BY <1>2, <1>3, <1>5, <1>6, Zenon

LEMMA NextCount ==
  ASSUME Counts, NEW n \in Nat
  PROVE  /\ n + 1 \in Nat /\ 0..n = 0..((n + 1) - 1) /\ (0..(n - 1)) \union {n} = 0..n
         /\ Cardinality(0..n) = n + 1
<1>1. n + 1 \in Nat /\ 0..n = 0..((n + 1) - 1) /\ (0..(n - 1)) \union {n} = 0..n
  OBVIOUS
<1> QED
  BY <1>1, Zenon DEF Counts

(* Authority passes to the generation whose capture met the holder's.       *)
LEMMA PromotionHeld ==
  ASSUME CampaignInv, children' = children, Meets(children, Holder), Holder' = Holder + 1
  PROVE  HeldInv'
<1>1. Known' = Known
  BY Zenon DEF Known
<1>2. /\ Holder + 1 \in Known /\ children[Holder].proc # "RUN"
      /\ children[Holder + 1].launch < children[Holder].ended
  BY Zenon DEF Meets, Known
<1>3. /\ children[Holder].launch \in Nat /\ children[Holder + 1].launch \in Nat
      /\ children[Holder].ended \in Nat
  <2>1. children[Holder] \in Child /\ children[Holder + 1] \in Child /\ Sound(children[Holder])
    BY <1>2, Opened, Zenon DEF LaunchInv
  <2> QED
    BY <1>2, <2>1, Zenon DEF Child, Sound
<1>4. ASSUME NEW t \in Nat, t < children[Holder + 1].launch
      PROVE  \E g \in Known : Captured(g, t)
  <2>1. CASE t < children[Holder].launch
    BY <2>1, Opened, Zenon DEF CoverInv, HeldInv
  <2>2. CASE ~(t < children[Holder].launch)
    <3>1. children[Holder].launch <= t /\ t < children[Holder].ended
      BY <1>2, <1>3, <1>4, <2>2
    <3>2. Captured(Holder, t)
      BY <1>2, <3>1, Zenon DEF Captured
    <3> QED
      BY <3>2, Opened, Zenon
  <2> QED
    BY <2>1, <2>2, Zenon
<1>5. \A g \in Known, t \in Nat : Captured(g, t) => Captured(g, t)'
  BY Zenon DEF Captured
<1> QED
  BY <1>1, <1>4, <1>5, Zenon DEF HeldInv

LEMMA PromotionStep ==
  ASSUME CampaignInv, AgeBounded, pc = "prove", pc' = pc,
         UNCHANGED <<clock, children, supervised, nextSlot, proofStarted, failure>>,
         proofRx # <<>>, Head(proofRx)[2], Promotes(AfterTime(clock), Head(proofRx)[1]),
         proofRx' = Tail(proofRx), proven' = proven \union {Head(proofRx)[1]},
         pendingCandidate' = None, Clock(clock),
         Becomes([AfterTime(clock) EXCEPT
                    !.active = [AfterTime(clock).candidate EXCEPT !.facts = @ \union Continuity],
                    !.candidate = None, !.state = "LIVE",
                    !.pending = None, !.notBefore = None, !.attempt = 0])
  PROVE  CampaignStep
<1> DEFINE s == AfterTime(clock)
           p == Head(proofRx)[1]
           more == s.candidate.facts \union Continuity
           a == [s.candidate EXCEPT !.facts = more]
           r == [s EXCEPT !.active = a, !.candidate = None, !.state = "LIVE", !.pending = None,
                          !.notBefore = None, !.attempt = 0]
<1>1. /\ s \in Life /\ s.candidate \in {candidate, None}
      /\ s.candidate # None => clock - s.candidate.opened < CandidateTimeout
  BY Opened, DeadlineLife, Zenon
<1>2. s.candidate # None /\ s.candidate.id = p + 1
  BY Zenon DEF Promotes
<1>3. /\ candidate # None /\ s.candidate = candidate /\ candidate.id = Holder + 1
      /\ supervised /\ children[Holder + 1].registered
  BY <1>1, <1>2, Opened, Zenon DEF AuthorityInv, RolesInv
<1>4. proofRx' \in Seq(Nat \X BOOLEAN) /\ ProofInv' /\ p \in Nat /\ Meets(children, p)
  BY ReceiveFacts, Zenon
<1>5. p = Holder
  <2>1. p + 1 = Holder + 1
    BY <1>2, <1>3, Zenon
  <2> HIDE DEF p
  <2> QED
    BY <1>4, <2>1, Opened
<1>6. Holder + 1 \in Known
  BY <1>4, <1>5, Zenon DEF Meets, Known
<1>7. proven' = 0..Holder /\ Holder' = Holder + 1
  <2>1. proven = 0..(Holder - 1)
    BY Opened, Zenon DEF CampaignTypeOK
  <2>2. (0..(Holder - 1)) \union {Holder} = 0..Holder /\ Cardinality(0..Holder) = Holder + 1
    BY Opened, NextCount, Zenon
  <2> QED
    BY <1>5, <2>1, <2>2, Zenon DEF Holder
<1>8. Known' = Known /\ Launches' = Launches
  BY Zenon DEF Known, Launches
<1>9. a \in Generation /\ a.id = Holder + 1 /\ a.opened = s.candidate.opened
  <2>1. s.candidate \in Generation
    BY <1>1, <1>2, Zenon DEF Life
  <2>2. more \in SUBSET Fact
    BY <2>1, Zenon DEF Generation, Continuity, Fact
  <2> HIDE DEF more
  <2> QED
    BY <1>3, <2>1, <2>2, Zenon DEF Generation
<1> HIDE DEF a
<1>10. r \in Life /\ r.active = a /\ r.candidate = None
  <2>1. "LIVE" \in State /\ 0 \in 0..AttemptMax
    BY ConfigFacts DEF State
  <2> QED
    BY <1>1, <1>9, <2>1, Zenon DEF Life
<1>11. Becomes(r)
  BY Zenon DEF a
<1>12. clock - r.active.opened < CandidateTimeout
  BY <1>1, <1>2, <1>9, <1>10, Zenon
<1> HIDE DEF r, s
<1>13. Current' \in Life /\ active' = a /\ candidate' = None /\ AgeBounded'
  BY <1>10, <1>11, <1>12, Opened, AdvancedLife, Zenon
<1>14. Grows
  BY Opened, SameGrows, Zenon
<1>15. CampaignTypeOK'
  <2>1. Holder + 1 \in Nat /\ 0..Holder = 0..((Holder + 1) - 1) /\ Holder + 1 < Launches
    BY <1>6, Opened, NextCount
  <2> QED
    BY <1>4, <1>7, <1>8, <1>13, <2>1, Opened, Zenon DEF CampaignTypeOK, Counts
<1>16. AuthorityInv'
  <2>1. RegisteredInv'
    <3>1. \A g \in Known : g <= Holder + 1 => g <= Holder \/ g = Holder + 1
      BY Opened
    <3>2. \A g \in Known : g <= Holder + 1 => children[g].registered
      BY <1>3, <3>1, Opened, Zenon DEF AuthorityInv, RegisteredInv
    <3>3. \A g \in Known : g > Holder + 1 => ~children[g].registered
      BY Opened, Zenon DEF AuthorityInv, RegisteredInv
    <3>4. \A g \in Known : g > (Holder + 1) + 1 => g > Holder + 1
      BY Opened
    <3> QED
      BY <1>7, <1>8, <3>2, <3>3, <3>4, Zenon DEF RegisteredInv
  <2>2. RolesInv'
    BY <1>3, <1>7, <1>9, <1>13, Zenon DEF RolesInv
  <2>3. PhaseInv'
    BY Zenon DEF PhaseInv
  <2> QED
    BY <2>1, <2>2, <2>3, Zenon DEF AuthorityInv
<1>17. LaunchInv' /\ HeldInv'
  BY <1>4, <1>5, <1>7, <1>14, Opened, GrowsLaunch, PromotionHeld, Zenon
<1>18. SlotInv'
  BY <1>8, Opened, Zenon DEF SlotInv, Reaches, SlotStart
<1>19. AuthorityStep
  <2>1. Holder + 1 < Launches
    BY <1>6, Opened
  <2>2. Outcome = "RUNNING" /\ Outcome' = "RUNNING"
    BY Zenon DEF Outcome, Running
  <2>3. Authority!Transfer
    BY <1>7, <1>8, <2>1, <2>2, Zenon DEF Authority!Transfer, Outcome, Launches, Holder
  <2> QED
    BY <2>3, Zenon DEF AuthorityStep, Authority!Next
<1> QED
  BY <1>4, <1>13, <1>15, <1>16, <1>17, <1>18, <1>19, Zenon
  DEF CampaignStep, CampaignInv, CoverInv

LEMMA CompleteStep ==
  ASSUME CampaignInv, AgeBounded, Complete
  PROVE  CampaignStep
<1>1. pc = "prove" /\ proofRx # <<>> /\ Running
  BY Zenon DEF Complete, Running
<1>2. CASE ~Head(proofRx)[2]
  <2>1. /\ failure' = TRUE /\ proofRx' = Tail(proofRx) /\ pc' = pc /\ clock' = clock
        /\ children' = children /\ DOMAIN proofStarted' = DOMAIN proofStarted
        /\ UNCHANGED <<vars, pendingCandidate, supervised, nextSlot, proven>>
    BY <1>2, Zenon DEF Complete, Fail
  <2>2. Grows /\ SameRegistered
    BY <2>1, Opened, SameGrows, UnchangedRegistered, Zenon
  <2>3. /\ Current' \in Life /\ AgeBounded' /\ active' = active /\ candidate' = candidate
        /\ lastMono' = lastMono
    BY <2>1, Opened, SameLife, Zenon
  <2>4. Known' = Known
    BY <2>1, Zenon DEF Known
  <2>5. proofRx' \in Seq(Nat \X BOOLEAN) /\ ProofInv'
    BY <1>1, <2>1, ReceiveFacts, Zenon
  <2>6. CampaignTypeOK'
    <3>1. failure' \in BOOLEAN
      BY <2>1, Zenon
    <3> QED
      BY <2>1, <2>2, <2>3, <2>4, <2>5, <3>1, Opened, TypeKept, Zenon DEF CampaignTypeOK
  <2>7. AuthorityInv'
    BY <1>1, <2>1, <2>2, <2>3, Opened, AuthorityKept, Zenon
  <2>8. LaunchInv' /\ HeldInv'
    BY <2>1, <2>2, Opened, GrowsLaunch, GrowsHeld, Zenon DEF CoverInv
  <2>9. SlotInv'
    BY <1>1, <2>1, <2>4, Opened, Zenon DEF SlotInv, Reaches, SlotStart
  <2>10. AuthorityStep
    BY <1>1, <2>1, <2>2, QuietAuthority, Zenon DEF SameRegistered
  <2> QED
    BY <2>3, <2>5, <2>6, <2>7, <2>8, <2>9, <2>10, Zenon
    DEF CampaignStep, CampaignInv, CoverInv
<1>3. CASE Head(proofRx)[2] /\ Promotes(AfterTime(clock), Head(proofRx)[1])
  BY <1>1, <1>3, PromotionStep, Zenon DEF Complete
<1>4. CASE Head(proofRx)[2] /\ ~Promotes(AfterTime(clock), Head(proofRx)[1])
  BY <1>1, <1>4, AbortStep, Zenon DEF Complete
<1> QED
  BY <1>2, <1>3, <1>4, Zenon

-----------------------------------------------------------------------------
LEMMA CampaignStarts ==
  ASSUME Counts, CInit
  PROVE  CampaignInv /\ AgeBounded /\ Authority!Init
<1> DEFINE c == NewChild(0, FirstDuration)
<1>1. /\ clock = 0 /\ pc = "poll" /\ supervised = FALSE /\ failure = FALSE
      /\ children = [g \in {0} |-> c] /\ pendingCandidate = None /\ nextSlot = 1
      /\ proofStarted = <<>> /\ proofRx = <<>> /\ proven = {}
      /\ active = None /\ candidate = None /\ lastMono = 0
  BY Zenon DEF CInit
<1>2. /\ 0 \in Times /\ 0 \in Identity /\ FirstDuration \in Nat
      /\ FirstDuration = Shorter(Total, MaximumGeneration)
  BY CampaignAssumption, CampaignFacts DEF FirstDuration, Shorter
<1>3. /\ c \in Child /\ c.launch = 0 /\ c.duration = FirstDuration /\ c.proc = "RUN"
      /\ c.exit = None /\ c.registered
  <2>1. c.registered = (0 = 0)
    BY <1>1, <1>2, NewChildFacts, Zenon
  <2> QED
    BY <1>1, <1>2, <2>1, NewChildFacts, Zenon
<1> HIDE DEF c
<1>4. Known = {0} /\ children[0] = c /\ children \in [Known -> Child]
  BY <1>1, <1>3, Zenon DEF Known
<1>5. 0..0 = {0} /\ 0..(0 - 1) = {} /\ 0..(1 - 1) = {0} /\ 1 \in Nat /\ 0 \in Nat
  OBVIOUS
<1>6. Launches = 1 /\ Holder = 0
  BY <1>1, <1>4, <1>5, Zenon DEF Counts, Launches, Holder
<1>7. Current \in Life
  <2>1. /\ Current = [active |-> None, candidate |-> None, state |-> "LIVE", pending |-> None,
                      notBefore |-> None, attempt |-> 0, gapCount |-> 0]
    BY Zenon DEF CInit, Current
  <2>2. "LIVE" \in State /\ 0 \in 0..AttemptMax /\ 0 \in Nat
    BY ConfigFacts DEF State
  <2> QED
    BY <2>1, <2>2, Zenon DEF Life
<1>8. CampaignTypeOK
  <2>1. pc \in Phase /\ supervised \in BOOLEAN /\ failure \in BOOLEAN
    BY <1>1, Zenon DEF Phase
  <2>2. proofRx \in Seq(Nat \X BOOLEAN)
    BY <1>1
  <2>3. nextSlot \in Nat \ {0} /\ 0 < 1
    BY <1>1
  <2> QED
    BY <1>1, <1>2, <1>4, <1>5, <1>6, <1>7, <2>1, <2>2, <2>3, Zenon DEF CampaignTypeOK
<1>9. AuthorityInv
  <2>1. ~(0 > 0) /\ ~(0 > 0 + 1)
    OBVIOUS
  <2> QED
    BY <1>1, <1>3, <1>4, <1>6, <2>1, Zenon
    DEF AuthorityInv, RolesInv, RegisteredInv, PhaseInv
<1>10. LaunchInv
  <2>1. 0 <= 0
    OBVIOUS
  <2>2. Sound(c)
    BY <1>3, CampaignFacts, Zenon DEF Sound
  <2> QED
    BY <1>1, <1>3, <1>4, <2>1, <2>2, Zenon DEF LaunchInv
<1>11. ProofInv
  <2>1. DOMAIN proofStarted = {} /\ 1..Len(proofRx) = {}
    BY <1>1
  <2> QED
    BY <2>1, Zenon DEF ProofInv
<1>12. HeldInv
  BY <1>3, <1>4, <1>6 DEF HeldInv
<1>13. SlotInv
  <2>1. nextSlot - 1 = 0 /\ SlotStart(0) = 0 /\ Total - 0 = Total
    BY <1>1, CampaignFacts DEF SlotStart
  <2>2. 0 >= 0 /\ FirstDuration >= FirstDuration
    BY <1>2
  <2>3. Reaches(c, 0)
    BY <1>2, <1>3, <2>1, <2>2, Zenon DEF Reaches
  <2> QED
    BY <1>1, <1>4, <2>1, <2>3, Zenon DEF SlotInv
<1>14. AgeBounded
  BY <1>1, Zenon DEF AgeBounded
<1>15. Authority!Init
  BY <1>1, <1>6, Zenon DEF Authority!Init, Running, Launches, Holder
<1> QED
  BY <1>8, <1>9, <1>10, <1>11, <1>12, <1>13, <1>14, <1>15, Zenon DEF CampaignInv, CoverInv

LEMMA CampaignStutters ==
  ASSUME CampaignInv, AgeBounded, UNCHANGED cvars
  PROVE  CampaignStep
<1>1. /\ active' = active /\ candidate' = candidate /\ lastMono' = lastMono /\ clock' = clock
      /\ state' = state /\ pending' = pending /\ notBefore' = notBefore
      /\ attempt' = attempt /\ gapCount' = gapCount
      /\ pc' = pc /\ children' = children /\ supervised' = supervised /\ failure' = failure
      /\ pendingCandidate' = pendingCandidate /\ nextSlot' = nextSlot
      /\ proofStarted' = proofStarted /\ proofRx' = proofRx /\ proven' = proven
  BY Zenon DEF cvars, vars, life, clocks, loop
<1>2. Known' = Known /\ Launches' = Launches /\ Holder' = Holder /\ Current' = Current
  BY <1>1, Zenon DEF Known, Launches, Holder, Current
<1>3. CampaignTypeOK' /\ AuthorityInv'
  BY <1>1, <1>2, Zenon DEF CampaignInv, CampaignTypeOK, AuthorityInv, RolesInv, RegisteredInv,
       PhaseInv, Unregistered, HandoversComplete, Counts
<1>4. CoverInv'
  BY <1>1, <1>2, Zenon DEF CampaignInv, CoverInv, LaunchInv, ProofInv, HeldInv, Captured,
       SlotInv, Meets, Sound, Reaches, SlotStart
<1>5. AgeBounded' /\ AuthorityStep
  BY <1>1, <1>2, Zenon DEF AgeBounded, AuthorityStep, Outcome, Running
<1> QED
  BY <1>3, <1>4, <1>5, Zenon DEF CampaignStep, CampaignInv

LEMMA CampaignSteps ==
  ASSUME CampaignInv, AgeBounded, [CNext]_cvars
  PROVE  CampaignStep
<1>1. CASE Tick
  BY <1>1, TickStep, Zenon
<1>2. CASE World
  BY <1>2, FaultyStep, ChildEndsStep, ProofFinishesStep, Zenon DEF World
<1>3. CASE Poll
  BY <1>3, DrainLineStep, Zenon DEF Poll
<1>4. CASE Pass
  <2>1. CASE BeginPass \/ Candidate \/ Plan \/ Complete \/ EndPass \/ Commit
    BY <2>1, BeginPassStep, CandidateStep, PlanStep, CompleteStep, EndPassStep, CommitStep, Zenon
  <2>2. CASE \E g \in Known : ShutdownRequest(g) \/ Disconnect(g) \/ StartProof(g)
    BY <2>2, ShutdownRequestStep, DisconnectStep, StartProofStep, Zenon
  <2>3. CASE \E sound \in BOOLEAN : Evaluate(sound)
    BY <2>3, EvaluateStep, Zenon
  <2> QED
    BY <1>4, <2>1, <2>2, <2>3, Zenon DEF Pass
<1>5. CASE UNCHANGED cvars
  BY <1>5, CampaignStutters, Zenon
<1> QED
  BY <1>1, <1>2, <1>3, <1>4, <1>5, Zenon DEF CNext

(* The generation of the last slot reaches the end of the campaign, or the  *)
(* end of the plan.                                                         *)
LEMMA LastReaches ==
  ASSUME CampaignInv, NEW g \in Known, Reaches(children[g], nextSlot - 1), NEW t \in Nat,
         t < Total, ~Unplanned(t)
  PROVE  t < children[g].launch + children[g].duration
<1>1. nextSlot \in Nat \ {0} /\ nextSlot - 1 \in Nat
  BY Opened DEF CampaignTypeOK
<1>2. SlotStart(nextSlot) \in Nat /\ t < SlotStart(nextSlot) + Overlap - Guard
  <2>1. SlotStart(nextSlot) \in Nat
    BY <1>1, SlotFacts, Zenon
  <2> QED
    BY <2>1, CampaignFacts DEF Unplanned
<1>3. SlotStart(nextSlot) = SlotStart(nextSlot - 1) + Rotation
  BY <1>1, CampaignFacts DEF SlotStart
<1>4. SlotStart(nextSlot - 1) \in Nat
  BY <1>1, SlotFacts, Zenon
<1>5. children[g].launch \in Nat /\ children[g].duration \in Nat
  BY Opened, Zenon DEF Child
<1>6. t - SlotStart(nextSlot - 1) < MaximumGeneration
  BY <1>2, <1>3, <1>4, CampaignFacts
<1>7. t - SlotStart(nextSlot - 1) < Shorter(Total - SlotStart(nextSlot - 1), MaximumGeneration)
  BY <1>4, <1>6, CampaignFacts DEF Shorter
<1>8. Shorter(Total - SlotStart(nextSlot - 1), MaximumGeneration) \in Int
  BY <1>4, CampaignFacts DEF Shorter
<1> QED
  BY <1>4, <1>5, <1>7, <1>8 DEF Reaches

(* A committed campaign in the invariant: below the launch of the holder    *)
(* the proofs have chained the captures, above it the last slot's           *)
(* generation runs as far as the plan.                                      *)
LEMMA CommittedCovers ==
  ASSUME CampaignInv
  PROVE  CommittedMeansCovered
<1>0. pc = "committed" => Total - SlotStart(nextSlot) < Overlap
  BY Opened, Zenon DEF SlotInv
<1> SUFFICES ASSUME pc = "committed", NEW t \in 0..(Total - 1), ~Unplanned(t)
             PROVE  \E g \in Known : children[g].launch <= t /\ t < children[g].ended
  BY <1>0, Zenon DEF CommittedMeansCovered
<1>1. /\ \A g \in Known : children[g].exit = "OK"
      /\ Total - SlotStart(nextSlot) < Overlap
      /\ Holder = Launches - 1
  BY Opened, Zenon DEF SlotInv, AuthorityInv, PhaseInv, HandoversComplete, Holder, Launches
<1>2. t \in Nat /\ t < Total
  BY CampaignFacts
<1>3. CASE t < children[Holder].launch
  BY <1>2, <1>3, Opened, Zenon DEF CoverInv, HeldInv, Captured
<1>4. CASE ~(t < children[Holder].launch)
  <2>1. PICK g \in Known : Reaches(children[g], nextSlot - 1)
    BY Opened, Zenon DEF SlotInv
  <2>2. t < children[g].launch + children[g].duration
    BY <1>2, <2>1, LastReaches, Zenon
  <2>3. g <= Holder
    <3>1. Launches \in Nat /\ g \in 0..(Launches - 1)
      BY Opened, Zenon
    <3> QED
      BY <1>1, <3>1
  <2>4. /\ children[g] \in Child /\ children[Holder] \in Child /\ Sound(children[g])
        /\ children[g].launch <= children[Holder].launch
    BY <2>3, Opened, Zenon DEF LaunchInv
  <2>5. /\ children[g].launch \in Nat /\ children[Holder].launch \in Nat
        /\ children[g].duration \in Nat
    BY <2>4, Zenon DEF Child
  <2>6. /\ children[g].ended \in Nat
        /\ children[g].ended >= children[g].launch + children[g].duration
    BY <1>1, <2>4, Zenon DEF Sound
  <2>7. children[g].launch <= t /\ t < children[g].ended
    BY <1>2, <1>4, <2>2, <2>4, <2>5, <2>6, CampaignFacts
  <2> QED
    BY <2>7, Zenon
<1> QED
  BY <1>3, <1>4, Zenon

-----------------------------------------------------------------------------
INSTANCE FiniteSetTheorems

LEMMA Counting == Counts
  BY FS_Interval DEF Counts

(* The inductive invariant of the campaign, for every duration, rotation,   *)
(* overlap and guard the command line accepts.                              *)
THEOREM CampaignInvariance == CSpec => [](CampaignInv /\ AgeBounded)
<1>1. CInit => CampaignInv /\ AgeBounded
  BY CampaignStarts, Counting, Zenon
<1>2. (CampaignInv /\ AgeBounded) /\ [CNext]_cvars => (CampaignInv /\ AgeBounded)'
  BY CampaignSteps, Zenon DEF CampaignStep
<1> QED
  BY <1>1, <1>2, PTL DEF CSpec

(* The active generation is always the one the proven handovers lead to and *)
(* the candidate the one after it: the loop of raw_campaign registers,      *)
(* proves and promotes in step with RawGenerationSupervisor.                *)
THEOREM CampaignAuthority == CSpec => []AuthorityIsProven
<1>1. CampaignInv => AuthorityIsProven
  BY Zenon DEF CampaignInv, CampaignTypeOK, AuthorityInv, RolesInv, AuthorityIsProven, Holder
<1> QED
  BY <1>1, CampaignInvariance, PTL

(* The campaign never leaves an active generation past its hard deadline.   *)
THEOREM CampaignDeadline == CSpec => []AgeBounded
  BY CampaignInvariance, PTL

(* Every behaviour of the campaign is one of AuthorityTransfer, but for the *)
(* fairness: generations are launched one by one and at most two ahead of   *)
(* the holder, authority passes to the next one only, and the campaign is   *)
(* COMPLETE only when the last generation holds it.                         *)
THEOREM CampaignTransfersAuthority ==
  CSpec => Authority!Init /\ [][Authority!Next]_(Authority!avars)
<1>1. CInit => Authority!Init
  BY CampaignStarts, Counting, Zenon
<1>2. CampaignInv /\ AgeBounded /\ [CNext]_cvars => [Authority!Next]_(Authority!avars)
  BY CampaignSteps, Zenon DEF CampaignStep, AuthorityStep, Authority!avars, Outcome, Launches,
       Holder
<1> QED
  BY <1>1, <1>2, CampaignInvariance, PTL DEF CSpec

-----------------------------------------------------------------------------
(* A committed campaign captured without a hole up to where its plan        *)
(* reaches, for every duration, rotation and overlap the command line       *)
(* accepts: the proofs chain the captures up to the last generation, and    *)
(* the generation of the last slot runs to the end, or to Guard short of    *)
(* one overlap after the first slot not taken.                              *)
THEOREM CommitCovers == CSpec => []CommittedMeansCovered
<1>1. CampaignInv => CommittedMeansCovered
  BY CommittedCovers, Zenon
<1> QED
  BY <1>1, CampaignInvariance, PTL

(* So nothing at all is missing from the committed campaign when the total  *)
(* leaves no remainder longer than Overlap - Guard and shorter than Overlap *)
(* after its last slot.                                                     *)
TotalFits ==
  \A slot \in Nat \ {0} :
    Total - SlotStart(slot) < Overlap => Total - SlotStart(slot) <= Overlap - Guard

Whole ==
  \A t \in 0..(Total - 1) :
    \E g \in Known : children[g].launch <= t /\ t < children[g].ended

THEOREM FittingCommitCoversAll ==
  ASSUME TotalFits
  PROVE  CSpec => [](pc = "committed" => Whole)
<1>1. ASSUME CampaignInv, pc = "committed"
      PROVE  Whole
  <2>1. CommittedMeansCovered
    BY <1>1, CommittedCovers, Zenon
  <2>2. nextSlot \in Nat \ {0} /\ SlotStart(nextSlot) \in Nat
    BY <1>1, SlotFacts, Zenon DEF CampaignInv, CampaignTypeOK
  <2>3. Total - SlotStart(nextSlot) <= Overlap - Guard
    BY <1>1, <2>1, <2>2, Zenon DEF CommittedMeansCovered, TotalFits
  <2>4. \A t \in 0..(Total - 1) : ~Unplanned(t)
    BY <2>2, <2>3, CampaignFacts DEF Unplanned
  <2> QED
    BY <1>1, <2>1, <2>4, Zenon DEF CommittedMeansCovered, Whole
<1> QED
  BY <1>1, CampaignInvariance, PTL
=============================================================================
