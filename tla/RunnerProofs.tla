---------------------------- MODULE RunnerProofs ----------------------------
(***************************************************************************)
(* The invariant of RunnerInvariant holds of Runner, and what              *)
(* RunnerProperties promises follows from it, for every circuit and every  *)
(* number of threads and connections.  The lemmas for the actions are      *)
(* those of RunnerLemmas and, for update_incoming_slot, the first ones     *)
(* here.                                                                   *)
(***************************************************************************)
EXTENDS RunnerLemmas

-----------------------------------------------------------------------------
(***************************************************************************)
(* update_incoming_slot.  What thread x brings to the slot of task t comes *)
(* to what the slot has; when that is all that its stage wants, the stage  *)
(* goes to the run queue.                                                  *)
(***************************************************************************)
Updates(prog, place, msg, pub, priv, chal, p, x, t) ==
  /\ Inv(prog, place, msg, pub, priv, chal)
  /\ p \in Parties /\ x \in Threads(p) /\ t \in Tasks
  /\ thr[p][x].pc = "update" /\ thr[p][x].task = t

(* A message under way to a stage that waits is the one the stage wants:   *)
(* the sender would not have sent it before the receiver came this far.    *)
LEMMA Meets ==
  ASSUME NEW prog, NEW msg, Numbers(prog), Causal(prog), NEW p \in Parties, NEW t \in Tasks,
         NEW k \in Nat, NEW w, UnderWay(prog, msg, Peer(p), t, k, w), NEW v \in Nat, prog[p][t] = 3 * v + 2
  PROVE  /\ StageFor(p, t, k) = v /\ RoundFor(p, t, v) = k
         /\ Incoming(p, t, v) /\ WantIncoming(p, t, v)
<1> DEFINE q == Peer(p)
           S == StageFor(p, t, k)
<1>1. q \in Parties /\ Peer(q) = p /\ q # p
  BY Peers
<1>2. Outgoing(q, t, k) /\ prog[q][t] >= 3 * k + 4 /\ prog[p][t] < 3 * S + 3
  BY <1>1 DEF UnderWay
<1>3. k < ExpectedSteps(q, t) /\ S \in Nat /\ S < ExpectedSteps(p, t)
      /\ Incoming(p, t, S) /\ RoundFor(p, t, S) = k
  BY <1>1, <1>2, MessageFacts
<1>4. IsA(p, t) <=> ~IsA(q, t)
  BY ManifestAssumption DEF IsA, Parties, Peer
<1>5. S = v
  <2>1. v <= S
    BY <1>2, <1>3
  <2>2. CASE Incoming(q, t, k)
    <3>1. prog[p][t] >= 3 * RoundFor(q, t, k) + 4
      <4>1. k \in 0 .. ExpectedSteps(q, t) - 1
        BY <1>1, <1>3, StageFacts
      <4>2. prog[q][t] >= 3 * k + 3
        <5>1. prog[q][t] \in Nat
          BY <1>1 DEF Numbers
        <5> QED BY <1>2, <5>1
      <4> QED BY <1>1, <2>2, <4>1, <4>2 DEF Causal
    <3>2. RoundFor(q, t, k) = IF IsA(q, t) THEN k - 1 ELSE k
      BY DEF RoundFor
    <3>3. S = IF IsA(p, t) THEN k + 1 ELSE k
      BY DEF StageFor
    <3> HIDE DEF S, q
    <3> QED BY <1>3, <1>4, <2>1, <3>1, <3>2, <3>3
  <2>3. CASE ~Incoming(q, t, k)
    <3>1. k = 0
      BY <1>1, <1>3, <2>3, StageFacts
    <3>2. IsA(q, t)
      BY <1>2, <2>3 DEF Incoming, Outgoing
    <3>3. S = 0
      BY <1>4, <3>1, <3>2 DEF StageFor
    <3> QED BY <2>1, <3>3
  <2> QED BY <2>2, <2>3
<1>6. WantIncoming(p, t, S)
  BY <1>3, StageFacts
<1> QED BY <1>3, <1>5, <1>6

(* Where the thing is that the thread brings: with the thread.             *)
LEMMA BroughtFacts ==
  ASSUME NEW prog, NEW place, NEW msg, NEW pub, NEW priv, NEW chal,
         NEW p, NEW x, NEW t, Updates(prog, place, msg, pub, priv, chal, p, x, t)
  PROVE  LET r == thr[p][x]
             s == slot[p][t]
         IN  /\ r \in Records /\ r.step \in Nat /\ r.todo \in Seq(Tasks)
             /\ r.brings \in {"request", "incoming", "challenge", "public", "private"}
             /\ r.brings = "request" =>
                  /\ x[1] \in {"run", "main"}
                  /\ Stands(prog, place, p, t, 3 * r.step + 2, OnThread(x))
                  /\ r.hit => PublicAt(prog, pub, p, t, FromCache)
             /\ r.brings # "request" => x[1] \notin {"run", "main"}
             /\ r.brings = "incoming" =>
                  x \in Ins /\ UnderWay(prog, msg, Peer(p), t, r.step, OnThread(x))
             /\ r.brings = "challenge" =>
                  p = "prover" /\ x = Chal /\ ChallengeAt(prog, chal, t, OnThread(x))
             /\ r.brings = "public" => x \in Disks /\ PublicAt(prog, pub, p, t, OnThread(x))
             /\ r.brings = "private" => x \in Disks /\ PrivateAt(prog, priv, p, t, OnThread(x))
             /\ s \in Slots /\ s.present /\ r.ref = s.no
<1> DEFINE r == thr[p][x]
<1>1. Types /\ Graph(prog, place) /\ Data(prog, msg, pub, priv, chal)
      /\ ThreadTypes /\ SharedTypes /\ Shapes /\ Launched(prog, place) /\ SlotTable
      /\ PublicData(prog, pub) /\ PrivateData(prog, priv) /\ Challenges(prog, chal)
      /\ Flights(prog, msg)
  BY DEF Updates, Inv, Types, Graph, Data
<1>2. p \in Parties /\ x \in Threads(p) /\ t \in Tasks /\ r.pc = "update" /\ r.task = t
  BY DEF Updates
<1>3. r \in Records /\ r.step \in Nat /\ r.todo \in Seq(Tasks)
  BY <1>1, <1>2, RecordFacts
<1>4. slot[p][t] \in Slots /\ slot[p][t].present /\ r.ref = slot[p][t].no
  BY <1>1, <1>2, SlotFacts DEF SlotTable
<1>5. Shape(p, x, r)
  BY <1>1, <1>2 DEF Shapes
<1>6. CASE x[1] \in {"run", "main"}
  <2>1. r.brings = "request"
    BY <1>2, <1>5, <1>6 DEF Shape, RunShape, MainShape
  <2>2. Stands(prog, place, p, t, 3 * r.step + 2, OnThread(x))
    <3>1. StageAt(prog, place, p, x, r)
      BY <1>1, <1>2 DEF Launched
    <3> QED BY <1>2, <2>1, <3>1 DEF StageAt
  <2>3. r.hit => PublicAt(prog, pub, p, t, FromCache)
    BY <1>1, <1>2, <2>1 DEF PublicData, Requests
  <2> QED BY <1>3, <1>4, <1>6, <2>1, <2>2, <2>3
<1>7. CASE x[1] = "disk"
  <2>1. r.brings \in {"public", "private"} /\ x \in Disks
    BY <1>2, <1>5, <1>7, KindFacts DEF Shape, DiskShape
  <2>2. r.brings = "public" => PublicAt(prog, pub, p, t, OnThread(x))
    BY <1>1, <1>2 DEF PublicData, Brings
  <2>3. r.brings = "private" => PrivateAt(prog, priv, p, t, OnThread(x))
    BY <1>1, <1>2 DEF PrivateData, Brings
  <2> QED BY <1>3, <1>4, <1>7, <2>1, <2>2, <2>3
<1>8. CASE x[1] = "in"
  <2>1. r.brings = "incoming" /\ x \in Ins
    BY <1>2, <1>5, <1>8, KindFacts DEF Shape, InShape
  <2>2. UnderWay(prog, msg, Peer(p), t, r.step, OnThread(x))
    <3>1. Peer(p) \in Parties /\ Peer(Peer(p)) = p
      BY <1>2, Peers
    <3> QED BY <1>1, <1>2, <2>1, <3>1 DEF Flights
  <2> QED BY <1>3, <1>4, <1>8, <2>1, <2>2
<1>9. CASE x[1] = "chal"
  <2>1. r.brings = "challenge" /\ p = "prover" /\ x = Chal
    BY <1>2, <1>5, <1>9, KindFacts DEF Shape, ChalShape
  <2>2. ChallengeAt(prog, chal, t, OnThread(x))
    BY <1>1, <1>2, <2>1 DEF Challenges, Brings
  <2> QED BY <1>3, <1>4, <1>9, <2>1, <2>2
<1>10. x[1] # "out"
  BY <1>2, <1>5 DEF Shape, OutShape
<1> QED BY <1>2, <1>6, <1>7, <1>8, <1>9, <1>10, KindFacts

(* What the slot has with it was there before or is what the thread        *)
(* brings, and nothing is there twice.                                     *)
LEMMA FilledFacts ==
  ASSUME NEW prog, NEW place, NEW msg, NEW pub, NEW priv, NEW chal,
         NEW p, NEW x, NEW t, Updates(prog, place, msg, pub, priv, chal, p, x, t)
  PROVE  LET r == thr[p][x]
             s == slot[p][t]
             f == Filled(p, s, r)
             own == OwnChallenge(p, r)
         IN  /\ f \in Slots /\ f.present /\ f.no = s.no
             /\ f.req = IF r.brings = "request" THEN r.step ELSE s.req
             /\ f.inc = IF r.brings = "incoming" THEN r.step ELSE s.inc
             /\ f.chal <=> s.chal \/ r.brings = "challenge" \/ (r.brings = "request" /\ own)
             /\ f.pub <=> s.pub \/ r.brings = "public" \/ (r.brings = "request" /\ r.hit)
             /\ f.priv <=> s.priv \/ r.brings = "private"
<1> DEFINE r == thr[p][x]
           s == slot[p][t]
           own == OwnChallenge(p, r)
<1>1. /\ r \in Records /\ r.step \in Nat /\ s \in Slots /\ s.present
      /\ r.brings \in {"request", "incoming", "challenge", "public", "private"}
  BY BroughtFacts
<1>2. own \in BOOLEAN
  BY DEF OwnChallenge, WantChallenge
<1> DEFINE f == Filled(p, s, r)
<1>3. f = Fill(p, s, r)
  BY DEF Filled
<1> HIDE DEF r, s, own
<1>4. CASE r.brings = "request"
  <2>1. f = [s EXCEPT !.req = r.step, !.chal = @ \/ own, !.pub = @ \/ r.hit]
    BY <1>3, <1>4 DEF Fill, own
  <2> HIDE DEF f
  <2>2. /\ s.chal \in BOOLEAN /\ s.pub \in BOOLEAN /\ r.hit \in BOOLEAN
    BY <1>1 DEF Slots, Records
  <2>3. PICK b \in BOOLEAN, c \in BOOLEAN :
          /\ b <=> s.chal \/ own
          /\ c <=> s.pub \/ r.hit
          /\ f = [s EXCEPT !.req = r.step, !.chal = b, !.pub = c]
    <3>1. (s.chal \/ own) \in BOOLEAN /\ (s.pub \/ r.hit) \in BOOLEAN
      BY <1>2, <2>2
    <3> QED BY <1>1, <2>1, <3>1 DEF Slots
  <2>4. f \in Slots /\ f.present = s.present /\ f.no = s.no /\ f.req = r.step /\ f.inc = s.inc
        /\ f.chal = b /\ f.pub = c /\ f.priv = s.priv
    BY <1>1, <2>3 DEF Slots
  <2> QED BY <1>1, <1>4, <2>3, <2>4 DEF r, s, own, f
<1>5. CASE r.brings = "incoming"
  <2>1. f = [s EXCEPT !.inc = r.step]
    BY <1>3, <1>5 DEF Fill
  <2> HIDE DEF f
  <2>2. f \in Slots /\ f.present = s.present /\ f.no = s.no /\ f.req = s.req /\ f.inc = r.step
        /\ f.chal = s.chal /\ f.pub = s.pub /\ f.priv = s.priv
    BY <1>1, <2>1 DEF Slots
  <2> QED BY <1>1, <1>5, <2>2 DEF r, s, own, f
<1>6. CASE r.brings = "challenge"
  <2>1. f = [s EXCEPT !.chal = TRUE]
    BY <1>3, <1>6 DEF Fill
  <2> HIDE DEF f
  <2>2. f \in Slots /\ f.present = s.present /\ f.no = s.no /\ f.req = s.req /\ f.inc = s.inc
        /\ f.chal = TRUE /\ f.pub = s.pub /\ f.priv = s.priv
    BY <1>1, <2>1 DEF Slots
  <2> QED BY <1>1, <1>6, <2>2 DEF r, s, own, f
<1>7. CASE r.brings = "public"
  <2>1. f = [s EXCEPT !.pub = TRUE]
    BY <1>3, <1>7 DEF Fill
  <2> HIDE DEF f
  <2>2. f \in Slots /\ f.present = s.present /\ f.no = s.no /\ f.req = s.req /\ f.inc = s.inc
        /\ f.chal = s.chal /\ f.pub = TRUE /\ f.priv = s.priv
    BY <1>1, <2>1 DEF Slots
  <2> QED BY <1>1, <1>7, <2>2 DEF r, s, own, f
<1>8. CASE r.brings = "private"
  <2>1. f = [s EXCEPT !.priv = TRUE]
    BY <1>3, <1>8 DEF Fill
  <2> HIDE DEF f
  <2>2. f \in Slots /\ f.present = s.present /\ f.no = s.no /\ f.req = s.req /\ f.inc = s.inc
        /\ f.chal = s.chal /\ f.pub = s.pub /\ f.priv = TRUE
    BY <1>1, <2>1 DEF Slots
  <2> QED BY <1>1, <1>8, <2>2 DEF r, s, own, f
<1> QED BY <1>1, <1>4, <1>5, <1>6, <1>7, <1>8

(* So the thread does not bring it for a second time.                      *)
LEMMA NothingTwice ==
  ASSUME NEW prog, NEW place, NEW msg, NEW pub, NEW priv, NEW chal,
         NEW p, NEW x, NEW t, Updates(prog, place, msg, pub, priv, chal, p, x, t)
  PROVE  LET r == thr[p][x]
             s == slot[p][t]
         IN  /\ ~Twice(p, s, r)
             /\ r.brings = "request" => s.req = -1 /\ ~(s.chal /\ p = "verifier")
<1> DEFINE r == thr[p][x]
           s == slot[p][t]
<1>1. /\ s \in Slots /\ r.brings \in {"request", "incoming", "challenge", "public", "private"}
      /\ r.brings = "request" =>
           /\ Stands(prog, place, p, t, 3 * r.step + 2, OnThread(x))
           /\ r.hit => PublicAt(prog, pub, p, t, FromCache)
      /\ r.brings = "incoming" => UnderWay(prog, msg, Peer(p), t, r.step, OnThread(x))
      /\ r.brings = "challenge" => p = "prover" /\ ChallengeAt(prog, chal, t, OnThread(x))
      /\ r.brings = "public" => PublicAt(prog, pub, p, t, OnThread(x))
      /\ r.brings = "private" => PrivateAt(prog, priv, p, t, OnThread(x))
  BY BroughtFacts
<1>2. Launched(prog, place) /\ PublicData(prog, pub) /\ PrivateData(prog, priv)
      /\ Challenges(prog, chal) /\ Flights(prog, msg) /\ p \in Parties /\ t \in Tasks
  BY DEF Updates, Inv, Graph, Data
<1>3. /\ s.req >= 0 => place[p][t] = InSlot
      /\ s.pub => pub[p][t] = InSlot
      /\ s.priv => priv[p][t] = InSlot
      /\ s.inc >= 0 => msg[Peer(p)][t] = InSlot
      /\ s.chal /\ p = "prover" => chal[t] = InSlot
      /\ s.chal /\ p = "verifier" => s.req = 0
  <2>1. s.req >= 0 => place[p][t] = InSlot
    BY <1>2 DEF Launched, Stands
  <2>2. s.pub => pub[p][t] = InSlot
    BY <1>2 DEF PublicData, PublicAt
  <2>3. s.priv => priv[p][t] = InSlot
    BY <1>2 DEF PrivateData, PrivateAt
  <2>4. s.inc >= 0 => msg[Peer(p)][t] = InSlot
    <3>1. Peer(p) \in Parties /\ Peer(Peer(p)) = p
      BY <1>2, Peers
    <3> QED BY <1>2, <3>1 DEF Flights, UnderWay
  <2>5. s.chal /\ p = "prover" => chal[t] = InSlot
    BY <1>2 DEF Challenges, ChallengeAt
  <2>6. s.chal /\ p = "verifier" => s.req = 0
    BY <1>2 DEF Challenges
  <2> QED BY <2>1, <2>2, <2>3, <2>4, <2>5, <2>6
<1>4. s.req \in Nat \cup {-1}
  BY <1>1 DEF Slots
<1>5. r.brings = "request" => s.req = -1 /\ ~(s.chal /\ p = "verifier") /\ ~(s.pub /\ r.hit)
  <2> HAVE r.brings = "request"
  <2>1. ~(s.req >= 0)
    BY <1>1, <1>3, PlaceFacts DEF Stands
  <2>2. ~(s.pub /\ r.hit)
    BY <1>1, <1>3, PlaceFacts DEF PublicAt
  <2> QED BY <1>3, <1>4, <2>1, <2>2
<1>6. /\ r.brings = "incoming" => ~(s.inc >= 0)
      /\ r.brings = "challenge" => ~s.chal
      /\ r.brings = "public" => ~s.pub
      /\ r.brings = "private" => ~s.priv
  BY <1>1, <1>3, PlaceFacts DEF UnderWay, ChallengeAt, PublicAt, PrivateAt
<1>7. ~Twice(p, s, r)
  <2>1. OwnChallenge(p, r) => p = "verifier"
    BY DEF OwnChallenge
  <2> HIDE DEF r, s
  <2>2. CASE r.brings = "request"
    BY <1>5, <2>1, <2>2 DEF Twice
  <2>3. CASE r.brings = "incoming"
    BY <1>6, <2>3 DEF Twice
  <2>4. CASE r.brings = "challenge"
    BY <1>6, <2>4 DEF Twice
  <2>5. CASE r.brings = "public"
    BY <1>6, <2>5 DEF Twice
  <2>6. CASE r.brings = "private"
    BY <1>6, <2>6 DEF Twice
  <2> QED BY <1>1, <2>2, <2>3, <2>4, <2>5, <2>6
<1> QED BY <1>5, <1>7

LEMMA FilledPlaces ==
  ASSUME NEW prog, NEW place, NEW msg, NEW pub, NEW priv, NEW chal,
         NEW p, NEW x, NEW t, Updates(prog, place, msg, pub, priv, chal, p, x, t)
  PROVE  LET f == Filled(p, slot[p][t], thr[p][x])
         IN  /\ f.req >= 0 =>
                  /\ f.req \in Nat /\ f.req < ExpectedSteps(p, t)
                  /\ prog[p][t] = 3 * f.req + 2 /\ 3 * f.req + 3 < Done(p, t)
                  /\ place[p][t] \in {OnThread(x), InSlot}
             /\ f.inc >= 0 =>
                  /\ f.inc \in Nat
                  /\ \E w \in {OnThread(x), InSlot} : UnderWay(prog, msg, Peer(p), t, f.inc, w)
             /\ f.pub => \E w \in {OnThread(x), InSlot, FromCache} : PublicAt(prog, pub, p, t, w)
             /\ f.priv => \E w \in {OnThread(x), InSlot} : PrivateAt(prog, priv, p, t, w)
             /\ f.chal /\ p = "prover" =>
                  \E w \in {OnThread(x), InSlot} : ChallengeAt(prog, chal, t, w)
             /\ f.chal /\ p = "verifier" => t \in Challenge /\ f.req = 0
             /\ ~Blank(f)
<1> DEFINE r == thr[p][x]
           s == slot[p][t]
           f == Filled(p, s, r)
           own == OwnChallenge(p, r)
<1>1. /\ r.step \in Nat
      /\ r.brings \in {"request", "incoming", "challenge", "public", "private"}
      /\ r.brings = "request" =>
           /\ Stands(prog, place, p, t, 3 * r.step + 2, OnThread(x))
           /\ r.hit => PublicAt(prog, pub, p, t, FromCache)
      /\ r.brings = "incoming" => UnderWay(prog, msg, Peer(p), t, r.step, OnThread(x))
      /\ r.brings = "challenge" => p = "prover" /\ ChallengeAt(prog, chal, t, OnThread(x))
      /\ r.brings = "public" => PublicAt(prog, pub, p, t, OnThread(x))
      /\ r.brings = "private" => PrivateAt(prog, priv, p, t, OnThread(x))
      /\ s \in Slots
  BY BroughtFacts
<1>2. /\ Launched(prog, place) /\ PublicData(prog, pub) /\ PrivateData(prog, priv)
      /\ Challenges(prog, chal) /\ Flights(prog, msg) /\ p \in Parties /\ t \in Tasks
      /\ Conserved(prog)
  BY DEF Updates, Inv, Graph, Data
<1>3. /\ f.req = IF r.brings = "request" THEN r.step ELSE s.req
      /\ f.inc = IF r.brings = "incoming" THEN r.step ELSE s.inc
      /\ f.chal <=> s.chal \/ r.brings = "challenge" \/ (r.brings = "request" /\ own)
      /\ f.pub <=> s.pub \/ r.brings = "public" \/ (r.brings = "request" /\ r.hit)
      /\ f.priv <=> s.priv \/ r.brings = "private"
      /\ f \in Slots
  BY FilledFacts
<1>4. s.req \in Nat \cup {-1} /\ s.inc \in Nat \cup {-1} /\ f.req \in Nat \cup {-1}
      /\ f.inc \in Nat \cup {-1}
  BY <1>1, <1>3 DEF Slots
<1> HIDE DEF f
<1>5. f.req >= 0 =>
        /\ f.req \in Nat /\ f.req < ExpectedSteps(p, t)
        /\ prog[p][t] = 3 * f.req + 2 /\ 3 * f.req + 3 < Done(p, t)
        /\ place[p][t] \in {OnThread(x), InSlot}
  <2> HAVE f.req >= 0
  <2>1. f.req \in Nat
    BY <1>4
  <2>2. Stands(prog, place, p, t, 3 * f.req + 2, OnThread(x))
          \/ Stands(prog, place, p, t, 3 * f.req + 2, InSlot)
    <3>1. s.req >= 0 => Stands(prog, place, p, t, 3 * s.req + 2, InSlot)
      BY <1>2 DEF Launched
    <3> QED BY <1>1, <1>3, <3>1
  <2>3. prog[p][t] = 3 * f.req + 2 /\ 3 * f.req + 2 < Done(p, t)
        /\ place[p][t] \in {OnThread(x), InSlot}
    BY <2>2 DEF Stands
  <2>4. Done(p, t) = 3 * ExpectedSteps(p, t) + 2 /\ ExpectedSteps(p, t) \in Nat
    BY <1>2, StageFacts DEF Done
  <2>5. f.req < ExpectedSteps(p, t) /\ 3 * f.req + 3 < Done(p, t)
    BY <2>1, <2>3, <2>4
  <2> QED BY <2>1, <2>3, <2>5
<1>6. f.inc >= 0 =>
        /\ f.inc \in Nat
        /\ \E w \in {OnThread(x), InSlot} : UnderWay(prog, msg, Peer(p), t, f.inc, w)
  <2> HAVE f.inc >= 0
  <2>1. s.inc >= 0 => UnderWay(prog, msg, Peer(p), t, s.inc, InSlot)
    <3>1. Peer(p) \in Parties /\ Peer(Peer(p)) = p
      BY <1>2, Peers
    <3> QED BY <1>2, <3>1 DEF Flights
  <2>2. CASE r.brings = "incoming"
    BY <1>1, <1>3, <1>4, <2>2
  <2>3. CASE r.brings # "incoming"
    BY <1>3, <1>4, <2>1, <2>3
  <2> QED BY <2>2, <2>3
<1>7. f.pub => \E w \in {OnThread(x), InSlot, FromCache} : PublicAt(prog, pub, p, t, w)
  BY <1>1, <1>2, <1>3 DEF PublicData
<1>8. f.priv => \E w \in {OnThread(x), InSlot} : PrivateAt(prog, priv, p, t, w)
  BY <1>1, <1>2, <1>3 DEF PrivateData
<1>9. f.chal /\ p = "prover" => \E w \in {OnThread(x), InSlot} : ChallengeAt(prog, chal, t, w)
  <2>1. s.chal /\ p = "prover" => ChallengeAt(prog, chal, t, InSlot)
    BY <1>2 DEF Challenges
  <2>2. p = "prover" => ~own
    BY DEF OwnChallenge
  <2> QED BY <1>1, <1>3, <2>1, <2>2
<1>10. f.chal /\ p = "verifier" => t \in Challenge /\ f.req = 0
  <2> HAVE f.chal /\ p = "verifier"
  <2>1. s.chal => t \in Challenge /\ s.req = 0
    BY <1>2 DEF Challenges
  <2>2. r.brings = "request" => ~s.chal
    BY NothingTwice
  <2>3. own => t \in Challenge /\ r.step = 0
    BY DEF OwnChallenge, WantChallenge, Updates
  <2> QED BY <1>1, <1>3, <2>1, <2>2, <2>3
<1>11. ~Blank(f)
  BY <1>1, <1>3 DEF Blank
<1> QED BY <1>5, <1>6, <1>7, <1>8, <1>9, <1>10, <1>11 DEF f

(* A stage that has all it wants has nothing else, and its data is that of *)
(* its own round.                                                          *)
LEMMA FilledExact ==
  ASSUME NEW prog, NEW place, NEW msg, NEW pub, NEW priv, NEW chal,
         NEW p, NEW x, NEW t, Updates(prog, place, msg, pub, priv, chal, p, x, t),
         Filled(p, slot[p][t], thr[p][x]).req >= 0,
         Satisfies(p, t, Filled(p, slot[p][t], thr[p][x]))
  PROVE  LET f == Filled(p, slot[p][t], thr[p][x])
         IN  /\ Exact(p, t, f) /\ runOpen[p]
             /\ f.inc = IF WantIncoming(p, t, f.req) THEN RoundFor(p, t, f.req) ELSE -1
<1> DEFINE f == Filled(p, slot[p][t], thr[p][x])
<1>1. /\ f.req \in Nat /\ f.req < ExpectedSteps(p, t)
      /\ prog[p][t] = 3 * f.req + 2 /\ 3 * f.req + 3 < Done(p, t)
  BY FilledPlaces
<1>2. /\ f.inc >= 0 => f.inc \in Nat /\ \E w : UnderWay(prog, msg, Peer(p), t, f.inc, w)
      /\ f.pub => \E w : PublicAt(prog, pub, p, t, w)
      /\ f.priv => \E w : PrivateAt(prog, priv, p, t, w)
      /\ f.chal /\ p = "prover" => \E w : ChallengeAt(prog, chal, t, w)
      /\ f.chal /\ p = "verifier" => t \in Challenge /\ f.req = 0
  <2>1. f.inc >= 0 => f.inc \in Nat /\ \E w : UnderWay(prog, msg, Peer(p), t, f.inc, w)
    BY FilledPlaces
  <2>2. f.pub => \E w : PublicAt(prog, pub, p, t, w)
    BY FilledPlaces
  <2>3. f.priv => \E w : PrivateAt(prog, priv, p, t, w)
    BY FilledPlaces
  <2>4. f.chal /\ p = "prover" => \E w : ChallengeAt(prog, chal, t, w)
    BY FilledPlaces
  <2>5. f.chal /\ p = "verifier" => t \in Challenge /\ f.req = 0
    BY FilledPlaces
  <2> QED BY <2>1, <2>2, <2>3, <2>4, <2>5
<1>3. p \in Parties /\ t \in Tasks /\ Causal(prog) /\ Conserved(prog) /\ Counts(prog) /\ Closing
  BY DEF Updates, Inv, Graph, Data
<1>4. Numbers(prog)
  BY <1>3, DoneFacts
<1>5. f \in Slots
  BY FilledFacts
<1>6. Satisfies(p, t, f)
  OBVIOUS
<1> HIDE DEF f
<1>7. f.inc \in Nat \cup {-1} /\ f.chal \in BOOLEAN /\ f.pub \in BOOLEAN /\ f.priv \in BOOLEAN
  BY <1>5 DEF Slots
<1>8. f.inc >= 0 => WantIncoming(p, t, f.req) /\ RoundFor(p, t, f.req) = f.inc
  <2> HAVE f.inc >= 0
  <2>1. PICK w : UnderWay(prog, msg, Peer(p), t, f.inc, w)
    BY <1>2
  <2>2. PICK k \in Nat : k = f.inc
    BY <1>2
  <2>3. PICK v \in Nat : v = f.req /\ prog[p][t] = 3 * v + 2
    BY <1>1
  <2>4. UnderWay(prog, msg, Peer(p), t, k, w)
    BY <2>1, <2>2
  <2>5. RoundFor(p, t, v) = k /\ WantIncoming(p, t, v)
    BY <1>3, <1>4, <2>3, <2>4, Meets
  <2> QED BY <2>2, <2>3, <2>5
<1>9. f.pub => WantPublic(t, f.req)
  BY <1>1, <1>2 DEF PublicAt, WantPublic
<1>10. f.priv => WantPrivate(p, t, f.req)
  BY <1>1, <1>2 DEF PrivateAt, WantPrivate
<1>11. f.chal => WantChallenge(t, f.req)
  <2>1. CASE p = "prover"
    BY <1>1, <1>2, <2>1 DEF ChallengeAt, WantChallenge
  <2>2. CASE p = "verifier"
    BY <1>2, <2>2 DEF WantChallenge
  <2> QED BY <1>3, <2>1, <2>2 DEF Parties
<1>12. Exact(p, t, f)
  BY <1>6, <1>8, <1>9, <1>10, <1>11 DEF Exact, Satisfies
<1>13. f.inc = IF WantIncoming(p, t, f.req) THEN RoundFor(p, t, f.req) ELSE -1
  <2>1. WantIncoming(p, t, f.req) => f.inc >= 0
    BY <1>6 DEF Satisfies
  <2> QED BY <1>7, <1>8, <2>1
<1>14. runOpen[p]
  <2>1. SUFFICES ASSUME ~runOpen[p] PROVE FALSE
    OBVIOUS
  <2>2. noTasks[p]
    BY <1>3, <2>1 DEF Closing
  <2>3. ~(prog[p][t] < Done(p, t))
    BY <1>3, <2>2, AllEnded
  <2>4. Done(p, t) \in Nat
    BY <1>3, DoneFacts
  <2> QED BY <1>1, <2>3, <2>4
<1> QED BY <1>12, <1>13, <1>14 DEF f

LEMMA UpdateActs ==
  ASSUME NEW prog, NEW place, NEW msg, NEW pub, NEW priv, NEW chal,
         NEW p, NEW x, NEW t, Updates(prog, place, msg, pub, priv, chal, p, x, t),
         UpdateSlot(p, x)
  PROVE  LET r == thr[p][x]
             f == Filled(p, slot[p][t], r)
         IN  /\ Do(p, x, AfterUpdate(x, r))
             /\ UNCHANGED <<runOpen, graphVars, diskVars, outVars, chalVars, rootConn, panicked>>
             /\ \/ /\ f.req >= 0 /\ Satisfies(p, t, f)
                   /\ slot' = [slot EXCEPT ![p][t] = NoSlot(f.no)]
                   /\ runQueue' = [runQueue EXCEPT ![p] =
                                     @ \cup {[task |-> t, step |-> f.req, got |-> f.inc]}]
                \/ /\ ~(f.req >= 0 /\ Satisfies(p, t, f))
                   /\ slot' = [slot EXCEPT ![p][t] = f]
                   /\ UNCHANGED runQueue
<1> DEFINE r == thr[p][x]
           s == slot[p][t]
           f == Filled(p, s, r)
<1>1. r.task = t
  BY DEF Updates
<1>2. ~(r.ref # s.no \/ ~s.present \/ Twice(p, s, r))
  BY BroughtFacts, NothingTwice
<1>3. f.req >= 0 /\ Satisfies(p, t, f) => Exact(p, t, f) /\ runOpen[p]
  BY FilledExact
<1> HIDE DEF f
<1>4. IF f.req >= 0 /\ Satisfies(p, t, f)
      THEN IF ~Exact(p, t, f) THEN Panic(p, x)
           ELSE /\ slot' = [slot EXCEPT ![p][t] = Taken(f)]
                /\ IF runOpen[p]
                   THEN /\ runQueue' = [runQueue EXCEPT ![p] =
                                          @ \cup {[task |-> t, step |-> f.req, got |-> f.inc]}]
                        /\ UNCHANGED lost
                   ELSE Lose(p, {<<"stage", t, f.req>>}) /\ UNCHANGED runQueue
                /\ Do(p, x, AfterUpdate(x, r))
                /\ UNCHANGED <<runOpen, graphVars, diskVars, outVars,
                               chalVars, rootConn, panicked>>
      ELSE /\ slot' = [slot EXCEPT ![p][t] = f]
           /\ Do(p, x, AfterUpdate(x, r))
           /\ UNCHANGED <<runVars, graphVars, diskVars, outVars, chalVars, endVars>>
  BY <1>1, <1>2 DEF UpdateSlot, f
<1>5. CASE f.req >= 0 /\ Satisfies(p, t, f)
  <2>1. /\ slot' = [slot EXCEPT ![p][t] = NoSlot(f.no)]
        /\ runQueue' = [runQueue EXCEPT ![p] =
                          @ \cup {[task |-> t, step |-> f.req, got |-> f.inc]}]
        /\ Do(p, x, AfterUpdate(x, r))
        /\ UNCHANGED <<runOpen, graphVars, diskVars, outVars, chalVars, rootConn, panicked>>
    BY <1>3, <1>4, <1>5 DEF Taken
  <2> QED BY <1>5, <2>1 DEF f
<1>6. CASE ~(f.req >= 0 /\ Satisfies(p, t, f))
  <2>1. /\ slot' = [slot EXCEPT ![p][t] = f]
        /\ Do(p, x, AfterUpdate(x, r))
        /\ UNCHANGED <<runVars, graphVars, diskVars, outVars, chalVars, endVars>>
    BY <1>4, <1>6
  <2>2. UNCHANGED <<runQueue, runOpen, graphVars, diskVars, outVars, chalVars, rootConn, panicked>>
    BY <2>1 DEF runVars, endVars
  <2> QED BY <1>6, <2>1, <2>2 DEF f
<1> QED BY <1>5, <1>6

LEMMA AfterFacts ==
  ASSUME NEW prog, NEW place, NEW msg, NEW pub, NEW priv, NEW chal,
         NEW p, NEW x, NEW t, Updates(prog, place, msg, pub, priv, chal, p, x, t)
  PROVE  LET r == thr[p][x]
             a == AfterUpdate(x, r)
         IN  /\ a \in Records /\ a.pc \in {"idle", "todo"} /\ Shape(p, x, a)
             /\ x[1] \in {"run", "main"} => a.todo = r.todo
             /\ x = Main => a.pc = "todo"
             /\ x[1] = "run" => (a.pc = "todo" <=> r.step = 0)
<1> DEFINE r == thr[p][x]
           a == AfterUpdate(x, r)
           w == r.todo
<1>1. r.step \in Nat /\ w \in Seq(Tasks)
  BY BroughtFacts
<1>2. Shape(p, x, r) /\ r.pc = "update" /\ p \in Parties /\ x \in Threads(p)
  BY DEF Updates, Inv, Types, Shapes
<1>3. /\ x[1] \in {"run", "main", "disk", "in", "chal"}
      /\ x = Main <=> x[1] = "main"
  BY <1>2, KindFacts DEF Shape, OutShape
<1>4. CASE x = Main \/ (x[1] = "run" /\ r.step = 0)
  <2>1. a = [Idle EXCEPT !.pc = "todo", !.todo = w]
    BY <1>4 DEF AfterUpdate
  <2> HIDE DEF a, w
  <2>2. a \in Records /\ a.pc = "todo" /\ a.todo = w
    BY <1>1, <2>1, IdleFacts DEF Records, Resting
  <2>3. Shape(p, x, a)
    BY <1>3, <1>4, <2>2 DEF Shape, RunShape, MainShape
  <2>4. x[1] = "run" => r.step = 0
    BY <1>3, <1>4
  <2> QED BY <2>2, <2>3, <2>4 DEF a, w
<1>5. CASE ~(x = Main \/ (x[1] = "run" /\ r.step = 0))
  <2>1. a = Idle
    BY <1>5 DEF AfterUpdate
  <2>2. a \in Records /\ a.pc = "idle" /\ a.todo = <<>> /\ a.hit = FALSE
    BY <2>1, IdleFacts
  <2>3. x[1] = "run" => w = <<>>
    <3>1. x[1] = "run" => r.step > 0
      BY <1>1, <1>5
    <3> QED BY <1>2, <3>1 DEF Shape, RunShape
  <2>4. Shape(p, x, a)
    BY <1>3, <1>5, <2>2 DEF Shape, RunShape, DiskShape, InShape, ChalShape
  <2> QED BY <1>3, <1>5, <2>2, <2>3, <2>4
<1> QED BY <1>4, <1>5

(* What such a step changes.                                               *)
Settles(p, x, t, f) ==
  LET a == AfterUpdate(x, thr[p][x])
  IN  /\ Moves(p, x, a)
      /\ \A q \in Parties : \A u \in Tasks : q # p \/ u # t => slot'[q][u] = slot[q][u]
      /\ \A q \in Parties : q # p => runQueue'[q] = runQueue[q]
      /\ \/ /\ f.req >= 0 /\ Satisfies(p, t, f)
            /\ slot'[p][t] = NoSlot(f.no)
            /\ runQueue'[p] = runQueue[p] \cup {[task |-> t, step |-> f.req, got |-> f.inc]}
         \/ /\ ~(f.req >= 0 /\ Satisfies(p, t, f))
            /\ slot'[p][t] = f
            /\ runQueue'[p] = runQueue[p]
      /\ UNCHANGED <<runOpen, graphVars, diskVars, outVars, chalVars>>

LEMMA UpdateStep ==
  ASSUME NEW prog, NEW place, NEW msg, NEW pub, NEW priv, NEW chal,
         NEW p, NEW x, NEW t, Updates(prog, place, msg, pub, priv, chal, p, x, t),
         UpdateSlot(p, x)
  PROVE  Settles(p, x, t, Filled(p, slot[p][t], thr[p][x])) /\ Types' /\ Shapes' /\ NoPanic'
<1> DEFINE a == AfterUpdate(x, thr[p][x])
           f == Filled(p, slot[p][t], thr[p][x])
           e == [task |-> t, step |-> f.req, got |-> f.inc]
<1>1. Types /\ NoPanic /\ SharedTypes /\ p \in Parties /\ x \in Threads(p) /\ t \in Tasks
  BY DEF Updates, Inv, Types
<1>2. f \in Slots
  BY FilledFacts
<1>3. /\ Do(p, x, a)
      /\ UNCHANGED <<runOpen, graphVars, diskVars, outVars, chalVars, rootConn, panicked>>
      /\ \/ /\ f.req >= 0 /\ Satisfies(p, t, f)
            /\ slot' = [slot EXCEPT ![p][t] = NoSlot(f.no)]
            /\ runQueue' = [runQueue EXCEPT ![p] = @ \cup {e}]
         \/ /\ ~(f.req >= 0 /\ Satisfies(p, t, f))
            /\ slot' = [slot EXCEPT ![p][t] = f]
            /\ UNCHANGED runQueue
  BY UpdateActs
<1>4. a \in Records /\ a.pc \in {"idle", "todo"} /\ Shape(p, x, a)
  BY AfterFacts
<1> HIDE DEF a, f
<1>5. NoSlot(f.no) \in Slots
  BY <1>2 DEF NoSlot, Slots
<1>6. f.req >= 0 => e \in Stages
  BY <1>1, <1>2 DEF Slots, Stages
<1> HIDE DEF e
<1>7. SharedTypes'
  <2>1. slot' \in [Parties -> [Tasks -> Slots]]
    <3>1. slot \in [Parties -> [Tasks -> Slots]]
      BY <1>1 DEF SharedTypes
    <3>2. CASE slot' = [slot EXCEPT ![p][t] = f]
      BY <1>1, <1>2, <3>1, <3>2
    <3>3. CASE slot' = [slot EXCEPT ![p][t] = NoSlot(f.no)]
      BY <1>1, <1>5, <3>1, <3>3
    <3> QED BY <1>3, <3>2, <3>3
  <2>2. runQueue' \in [Parties -> SUBSET Stages]
    <3>1. runQueue \in [Parties -> SUBSET Stages]
      BY <1>1 DEF SharedTypes
    <3> QED BY <1>1, <1>3, <1>6, <3>1
  <2> QED
    BY <1>1, <1>3, <2>1, <2>2 DEF SharedTypes, graphVars, diskVars, outVars, chalVars
<1>8. Moves(p, x, a) /\ Types' /\ Shapes' /\ NoPanic'
  <2>1. a.pc \notin Working
    BY <1>4 DEF Working
  <2> QED BY <1>1, <1>3, <1>4, <1>7, <2>1, WorkStep
<1>9. Settles(p, x, t, f)
  <2>1. slot \in [Parties -> [Tasks -> Slots]] /\ runQueue \in [Parties -> SUBSET Stages]
    BY <1>1 DEF SharedTypes
  <2>2. /\ \A q \in Parties : \A u \in Tasks : q # p \/ u # t => slot'[q][u] = slot[q][u]
        /\ \A q \in Parties : q # p => runQueue'[q] = runQueue[q]
    BY <1>1, <1>3, <2>1
  <2>3. \/ /\ f.req >= 0 /\ Satisfies(p, t, f)
           /\ slot'[p][t] = NoSlot(f.no)
           /\ runQueue'[p] = runQueue[p] \cup {e}
        \/ /\ ~(f.req >= 0 /\ Satisfies(p, t, f))
           /\ slot'[p][t] = f
           /\ runQueue'[p] = runQueue[p]
    <3>1. CASE f.req >= 0 /\ Satisfies(p, t, f)
      BY <1>1, <1>3, <2>1, <3>1
    <3>2. CASE ~(f.req >= 0 /\ Satisfies(p, t, f))
      BY <1>1, <1>3, <2>1, <3>2
    <3> QED BY <3>1, <3>2
  <2> QED BY <1>3, <1>8, <2>2, <2>3 DEF Settles, a, e
<1> QED BY <1>8, <1>9 DEF f

(* The stage of t goes from the thread or the slot to where z says.        *)
Handed(p, t, w, z) ==
  \/ /\ z = InSlot /\ slot'[p][t].req \in Nat /\ w = 3 * slot'[p][t].req + 2
     /\ runQueue'[p] = runQueue[p]
  \/ \E e : /\ z = InRunQueue(e) /\ ~(slot'[p][t].req >= 0)
            /\ runQueue'[p] = runQueue[p] \cup {e}
            /\ e.task = t /\ w = 3 * e.step + 3
            /\ e.got = IF WantIncoming(p, t, e.step) THEN RoundFor(p, t, e.step) ELSE -1

LEMMA HandsOver ==
  ASSUME Types, Types', NEW prog, NEW place, Graph(prog, place),
         NEW p \in Parties, NEW x \in Threads(p), NEW r, Moves(p, x, r), NEW t \in Tasks,
         r.pc \in {"idle", "todo"}, thr[p][x].pc = "update", thr[p][x].task = t,
         Notifying(p, x)' <=> Notifying(p, x),
         x[1] \in {"run", "main"} => r.todo = thr[p][x].todo,
         x = Main => r.pc = "todo",
         place[p][t] \in {OnThread(x), InSlot}, prog[p][t] > 1, prog[p][t] < Done(p, t),
         NEW w \in Nat, w > 1, w < Done(p, t), NEW z,
         \A q \in Parties : \A u \in Tasks : q # p \/ u # t => slot'[q][u] = slot[q][u],
         \A q \in Parties : q # p => runQueue'[q] = runQueue[q],
         Handed(p, t, w, z),
         UNCHANGED <<runOpen, graphVars>>
  PROVE  Graph(Put(prog, p, t, w), Put(place, p, t, z))'
<1> USE DEF Handed
<1> DEFINE g == Put(prog, p, t, w)
           h == Put(place, p, t, z)
<1>1. Launched(prog, place) /\ Conserved(prog) /\ Counts(prog) /\ Closing
      /\ ThreadTypes /\ SharedTypes /\ Shapes
  BY DEF Graph, Types
<1>2. /\ g[p][t] = w /\ h[p][t] = z
      /\ \A q \in Parties : \A u \in Tasks : q # p \/ u # t =>
           g[q][u] = prog[q][u] /\ h[q][u] = place[q][u]
  BY DEF Put
<1> HIDE DEF g, h
<1>3. /\ thr'[p][x] = r
      /\ \A q \in Parties : \A y \in Threads(q) : q # p \/ y # x => thr'[q][y] = thr[q][y]
  BY DEF Moves
<1>4. Launched(g, h)'
  <2>1. ASSUME NEW q \in Parties, NEW y \in Threads(q)
        PROVE  StageAt(g, h, q, y, thr'[q][y])
    <3>1. CASE q = p /\ y = x
      BY <1>3, <3>1 DEF StageAt
    <3>2. CASE ~(q = p /\ y = x)
      <4>1. thr'[q][y] = thr[q][y] /\ StageAt(prog, place, q, y, thr[q][y])
        BY <1>1, <1>3, <3>2 DEF Launched
      <4>2. CASE q = p /\ thr[q][y].task = t
        <5>1. place[p][t] # OnThread(y)
          BY <3>2, <4>2, PlaceFacts
        <5> QED BY <4>1, <4>2, <5>1 DEF StageAt, Stands
      <4>3. CASE ~(q = p /\ thr[q][y].task = t)
        <5>1. thr[q][y].pc \in {"launch", "getslot", "update", "send", "blocked", "result"} =>
                thr[q][y].task \in Tasks
          BY <1>1 DEF ThreadTypes, Working
        <5>2. thr[q][y].task \in Tasks => /\ g[q][thr[q][y].task] = prog[q][thr[q][y].task]
                                          /\ h[q][thr[q][y].task] = place[q][thr[q][y].task]
          BY <1>2, <4>3
        <5> QED BY <4>1, <5>1, <5>2 DEF StageAt, Stands
      <4> QED BY <4>2, <4>3
    <3> QED BY <3>1, <3>2
  <2>2. ASSUME NEW q \in Parties, NEW e \in runQueue'[q]
        PROVE  /\ Stands(g, h, q, e.task, 3 * e.step + 3, InRunQueue(e))
               /\ e.got = IF WantIncoming(q, e.task, e.step) THEN RoundFor(q, e.task, e.step) ELSE -1
    <3>1. CASE e \in runQueue[q]
      <4>1. /\ Stands(prog, place, q, e.task, 3 * e.step + 3, InRunQueue(e))
            /\ e.got = IF WantIncoming(q, e.task, e.step) THEN RoundFor(q, e.task, e.step) ELSE -1
        BY <1>1, <3>1 DEF Launched
      <4>2. e.task \in Tasks
        BY <1>1, <3>1 DEF SharedTypes, Stages
      <4>3. ~(q = p /\ e.task = t)
        BY <4>1, PlaceFacts DEF Stands
      <4> QED BY <1>2, <4>1, <4>2, <4>3 DEF Stands
    <3>2. CASE e \notin runQueue[q]
      <4>1. q = p
        BY <3>2
      <4>2. /\ z = InRunQueue(e) /\ e.task = t /\ w = 3 * e.step + 3
            /\ e.got = IF WantIncoming(p, t, e.step) THEN RoundFor(p, t, e.step) ELSE -1
        BY <3>2, <4>1
      <4> QED BY <1>2, <4>1, <4>2 DEF Stands
    <3> QED BY <3>1, <3>2
  <2>3. ASSUME NEW q \in Parties, NEW u \in Tasks, slot'[q][u].req >= 0
        PROVE  Stands(g, h, q, u, 3 * slot'[q][u].req + 2, InSlot)
    <3>1. CASE q = p /\ u = t
      BY <1>2, <2>3, <3>1 DEF Stands
    <3>2. CASE ~(q = p /\ u = t)
      BY <1>1, <1>2, <2>3, <3>2 DEF Launched, Stands
    <3> QED BY <3>1, <3>2
  <2> QED BY <2>1, <2>2, <2>3 DEF Launched
<1>5. \A q \in Parties : \A u \in Tasks : InTodo(q, u)' <=> InTodo(q, u)
  <2> SUFFICES ASSUME NEW q \in Parties PROVE thr'[q][Main].todo = thr[q][Main].todo
    BY DEF InTodo
  <2>1. Main \in Threads(q) /\ Main[1] = "main"
    BY KindFacts
  <2> QED BY <1>3, <2>1
<1>6. Conserved(g)'
  <2>1. Done(p, t) \in Nat /\ prog[p][t] \in Nat
    BY <1>1, DoneFacts DEF Numbers
  <2>2. ASSUME NEW q \in Parties, NEW u \in Tasks
        PROVE  /\ g[q][u] \in 0 .. Done(q, u)
               /\ g[q][u] # 0 /\ g[q][u] < Done(q, u) =>
                    \/ \E y \in Threads(q) : Carries(q, y, u)'
                    \/ \E e \in runQueue'[q] : e.task = u
                    \/ slot'[q][u].req >= 0
               /\ g[q][u] = 0 <=> deps'[q][u] > 0 \/ InTodo(q, u)'
    <3>1. CASE q = p /\ u = t
      <4>1. g[q][u] = w
        BY <1>2, <3>1
      <4>2. (\E e \in runQueue'[q] : e.task = u) \/ slot'[q][u].req >= 0
        BY <3>1
      <4>3. ~(deps'[q][u] > 0 \/ InTodo(q, u)')
        <5>1. ~(deps[q][u] > 0 \/ InTodo(q, u))
          BY <1>1, <2>1, <3>1 DEF Conserved
        <5>2. deps' = deps
          BY DEF graphVars
        <5> QED BY <1>5, <5>1, <5>2
      <4> QED BY <2>1, <3>1, <4>1, <4>2, <4>3
    <3>2. CASE ~(q = p /\ u = t)
      <4>1. g[q][u] = prog[q][u] /\ deps' = deps /\ slot'[q][u] = slot[q][u]
        BY <1>2, <3>2 DEF graphVars
      <4>2. /\ prog[q][u] \in 0 .. Done(q, u)
            /\ prog[q][u] # 0 /\ prog[q][u] < Done(q, u) =>
                 \/ \E y \in Threads(q) : Carries(q, y, u)
                 \/ \E e \in runQueue[q] : e.task = u
                 \/ slot[q][u].req >= 0
            /\ prog[q][u] = 0 <=> deps[q][u] > 0 \/ InTodo(q, u)
        BY <1>1 DEF Conserved
      <4>3. \A y \in Threads(q) : Carries(q, y, u) => Carries(q, y, u)'
        BY <1>3, <3>2 DEF Carries
      <4>4. runQueue[q] \subseteq runQueue'[q]
        OBVIOUS
      <4> QED BY <1>5, <4>1, <4>2, <4>3, <4>4
    <3> QED BY <3>1, <3>2
  <2> QED BY <2>2 DEF Conserved
<1>7. Counts(g)'
  <2>1. \A q \in Parties : \A u \in Tasks :
           /\ g[q][u] < Done(q, u) <=> prog[q][u] < Done(q, u)
           /\ g[q][u] = Done(q, u) <=> prog[q][u] = Done(q, u)
           /\ g[q][u] <= 1 <=> prog[q][u] <= 1
    <3>1. Done(p, t) \in Nat /\ prog[p][t] \in Nat
      BY <1>1, DoneFacts DEF Numbers
    <3> QED BY <1>2, <3>1
  <2>2. \A q \in Parties : \A y \in Threads(q) :
           /\ y[1] = "run" => thr'[q][y].todo = thr[q][y].todo
           /\ Notifying(q, y)' <=> Notifying(q, y)
    BY <1>3 DEF Notifying
  <2>3. \A q \in Parties : thr'[q][Main].todo = thr[q][Main].todo
    BY <1>3, KindFacts
  <2> QED BY <1>1, <2>1, <2>2, <2>3, CountsSame
<1>8. Closing'
  <2>1. \A q \in Parties : thr'[q][Main].pc = thr[q][Main].pc \/ thr'[q][Main].pc = "todo"
    BY <1>3, KindFacts
  <2> QED BY <1>1, <2>1 DEF Closing, graphVars
<1> QED BY <1>4, <1>6, <1>7, <1>8 DEF Graph, g, h

(***************************************************************************)
(* The data of the slot.  g is what prog becomes: the same unless the      *)
(* stage is launched.                                                      *)
(***************************************************************************)
Reaches(prog, g, p, t, f) ==
  /\ \A q \in Parties : \A u \in Tasks : q # p \/ u # t => g[q][u] = prog[q][u]
  /\ \/ ~(f.req >= 0 /\ Satisfies(p, t, f)) /\ g[p][t] = prog[p][t]
     \/ /\ f.req >= 0 /\ Satisfies(p, t, f)
        /\ g[p][t] = 3 * f.req + 3

(* What the lemmas below use of the step. *)
SettleFacts(prog, g, p, x, t, f) ==
  /\ p \in Parties /\ x \in Threads(p) /\ t \in Tasks /\ f \in Slots
  /\ thr'[p][x].pc \in {"idle", "todo"}
  /\ \A q \in Parties : \A y \in Threads(q) : q # p \/ y # x => thr'[q][y] = thr[q][y]
  /\ \A q \in Parties : \A u \in Tasks : q # p \/ u # t =>
       slot'[q][u] = slot[q][u] /\ g[q][u] = prog[q][u]
  /\ UNCHANGED <<reads, cached, chalq, chalNet, outq, net>>
  /\ \/ slot'[p][t] = f /\ g[p][t] = prog[p][t]
     \/ /\ slot'[p][t] = NoSlot(f.no)
        /\ f.req \in Nat /\ Satisfies(p, t, f)
        /\ prog[p][t] = 3 * f.req + 2 /\ g[p][t] = 3 * f.req + 3

LEMMA Settled ==
  ASSUME NEW prog, NEW place, NEW msg, NEW pub, NEW priv, NEW chal,
         NEW p, NEW x, NEW t, Updates(prog, place, msg, pub, priv, chal, p, x, t),
         NEW f, f = Filled(p, slot[p][t], thr[p][x]), Settles(p, x, t, f),
         NEW g, Reaches(prog, g, p, t, f)
  PROVE  SettleFacts(prog, g, p, x, t, f)
<1>1. p \in Parties /\ x \in Threads(p) /\ t \in Tasks
  BY DEF Updates
<1>2. f \in Slots
  BY FilledFacts
<1>3. f.req >= 0 => f.req \in Nat /\ prog[p][t] = 3 * f.req + 2
  BY FilledPlaces
<1>4. AfterUpdate(x, thr[p][x]).pc \in {"idle", "todo"}
  BY AfterFacts
<1>5. UNCHANGED <<reads, cached, chalq, chalNet, outq, net>>
  BY DEF Settles, diskVars, outVars, chalVars
<1>6. /\ thr'[p][x].pc \in {"idle", "todo"}
      /\ \A q \in Parties : \A y \in Threads(q) : q # p \/ y # x => thr'[q][y] = thr[q][y]
  BY <1>1, <1>4 DEF Settles, Moves
<1>7. \A q \in Parties : \A u \in Tasks : q # p \/ u # t =>
        slot'[q][u] = slot[q][u] /\ g[q][u] = prog[q][u]
  BY DEF Settles, Reaches
<1>8. \/ slot'[p][t] = f /\ g[p][t] = prog[p][t]
      \/ /\ slot'[p][t] = NoSlot(f.no)
         /\ f.req \in Nat /\ Satisfies(p, t, f)
         /\ prog[p][t] = 3 * f.req + 2 /\ g[p][t] = 3 * f.req + 3
  BY <1>3 DEF Settles, Reaches
<1> QED BY <1>1, <1>2, <1>5, <1>6, <1>7, <1>8 DEF SettleFacts

(* Of two threads one holds the stage. *)
LEMMA OneRequests ==
  ASSUME NEW prog, NEW place, NEW msg, NEW pub, NEW priv, NEW chal,
         NEW p, NEW x, NEW t, Updates(prog, place, msg, pub, priv, chal, p, x, t),
         thr[p][x].brings = "request",
         NEW y \in Threads(p), Requests(p, y), thr[p][y].task = t
  PROVE  y = x
<1>1. place[p][t] = OnThread(x)
  BY BroughtFacts DEF Stands
<1>2. StageAt(prog, place, p, y, thr[p][y])
  BY DEF Updates, Inv, Graph, Launched
<1>3. place[p][t] = OnThread(y)
  BY <1>2 DEF StageAt, Requests, Stands
<1> QED BY <1>1, <1>3, PlaceFacts

(* Public data in the slot came from there, from the thread or, with the   *)
(* request, from the cache.                                                *)
LEMMA PublicHere ==
  ASSUME NEW prog, NEW place, NEW msg, NEW pub, NEW priv, NEW chal,
         NEW p, NEW x, NEW t, Updates(prog, place, msg, pub, priv, chal, p, x, t),
         Filled(p, slot[p][t], thr[p][x]).pub
  PROVE  /\ PublicAt(prog, pub, p, t, pub[p][t])
         /\ \/ pub[p][t] \in {OnThread(x), InSlot}
            \/ pub[p][t] = FromCache /\ thr[p][x].brings = "request"
<1> DEFINE r == thr[p][x]
           s == slot[p][t]
<1>1. s.pub \/ r.brings = "public" \/ (r.brings = "request" /\ r.hit)
  BY FilledFacts
<1>2. /\ r.brings = "request" /\ r.hit => PublicAt(prog, pub, p, t, FromCache)
      /\ r.brings = "public" => PublicAt(prog, pub, p, t, OnThread(x))
  BY BroughtFacts
<1>3. s.pub => PublicAt(prog, pub, p, t, InSlot)
  BY DEF Updates, Inv, Data, PublicData
<1> QED BY <1>1, <1>2, <1>3 DEF PublicAt

LEMMA PublicSettles ==
  ASSUME NEW prog, NEW place, NEW msg, NEW pub, NEW priv, NEW chal,
         NEW p, NEW x, NEW t, Updates(prog, place, msg, pub, priv, chal, p, x, t),
         NEW f, f = Filled(p, slot[p][t], thr[p][x]),
         NEW g, SettleFacts(prog, g, p, x, t, f)
  PROVE  \E pub2 : PublicData(g, pub2)'
<1>1. /\ p \in Parties /\ x \in Threads(p) /\ t \in Tasks /\ f \in Slots
      /\ thr'[p][x].pc \in {"idle", "todo"}
      /\ \A q \in Parties : \A y \in Threads(q) : q # p \/ y # x => thr'[q][y] = thr[q][y]
      /\ \A q \in Parties : \A u \in Tasks : q # p \/ u # t =>
           slot'[q][u] = slot[q][u] /\ g[q][u] = prog[q][u]
      /\ UNCHANGED <<reads, cached>>
      /\ \/ slot'[p][t] = f /\ g[p][t] = prog[p][t]
         \/ /\ slot'[p][t] = NoSlot(f.no)
            /\ f.req \in Nat /\ Satisfies(p, t, f)
            /\ prog[p][t] = 3 * f.req + 2
  BY DEF SettleFacts
<1>2. PublicData(prog, pub) /\ ThreadTypes /\ SharedTypes
  BY DEF Updates, Inv, Data, Types
<1>3. f.pub => /\ PublicAt(prog, pub, p, t, pub[p][t])
               /\ \/ pub[p][t] \in {OnThread(x), InSlot}
                  \/ pub[p][t] = FromCache /\ thr[p][x].brings = "request"
  BY PublicHere
<1>4. PICK pub2 : /\ pub2[p][t] = IF f.pub THEN InSlot ELSE pub[p][t]
                  /\ \A q \in Parties : \A u \in Tasks :
                       q # p \/ u # t => pub2[q][u] = pub[q][u]
  <2>1. CASE f.pub
    <3>1. /\ Put(pub, p, t, InSlot)[p][t] = InSlot
          /\ \A q \in Parties : \A u \in Tasks :
               q # p \/ u # t => Put(pub, p, t, InSlot)[q][u] = pub[q][u]
      BY <1>1 DEF Put
    <3> QED BY <2>1, <3>1
  <2>2. CASE ~f.pub
    BY <2>2
  <2> QED BY <2>1, <2>2
<1>5. \A q \in Parties : \A u \in Tasks : \A w : q # p \/ u # t =>
        (PublicAt(prog, pub, q, u, w) => PublicAt(g, pub2, q, u, w))
  BY <1>1, <1>4 DEF PublicAt
<1>6. ~f.pub => \A w : PublicAt(prog, pub, p, t, w) => PublicAt(g, pub2, p, t, w)
  <2> SUFFICES ASSUME ~f.pub, NEW w, PublicAt(prog, pub, p, t, w)
               PROVE  PublicAt(g, pub2, p, t, w)
    OBVIOUS
  <2>1. CASE g[p][t] = prog[p][t]
    BY <1>4, <2>1 DEF PublicAt
  <2>2. CASE f.req \in Nat /\ Satisfies(p, t, f) /\ prog[p][t] = 3 * f.req + 2
    <3>1. f.req = 0
      BY <2>2 DEF PublicAt
    <3> QED BY <2>2, <3>1 DEF PublicAt, Satisfies, WantPublic
  <2> QED BY <1>1, <2>1, <2>2
<1>7. ASSUME NEW q \in Parties, NEW u \in Tasks, NEW w, PublicAt(prog, pub, q, u, w),
             q = p /\ u = t /\ f.pub =>
               w \notin {OnThread(x), InSlot} /\ (w = FromCache => thr[p][x].brings # "request")
      PROVE  PublicAt(g, pub2, q, u, w)
  <2>1. CASE q = p /\ u = t /\ f.pub
    <3>1. w = pub[p][t]
      BY <1>7, <2>1 DEF PublicAt
    <3> QED BY <1>3, <1>7, <2>1, <3>1
  <2>2. CASE q = p /\ u = t /\ ~f.pub
    BY <1>6, <1>7, <2>2
  <2>3. CASE q # p \/ u # t
    BY <1>5, <1>7, <2>3
  <2> QED BY <2>1, <2>2, <2>3
<1>8. \A q \in Parties : NoChunk \notin cached'[q]
  BY <1>1, <1>2 DEF PublicData
<1>9. ASSUME NEW q \in Parties, NEW m \in reads'[q], m.kind = "public"
      PROVE  PublicAt(g, pub2, q, m.task, InQueue)
  <2>1. m \in reads[q] /\ m.task \in Tasks
    BY <1>1, <1>2, TasksNamed
  <2>2. PublicAt(prog, pub, q, m.task, InQueue)
    BY <1>2, <1>9, <2>1 DEF PublicData
  <2> QED BY <1>7, <2>1, <2>2, PlaceFacts
<1>10. ASSUME NEW q \in Parties, NEW y \in Threads(q), Brings(q, y, "public")'
       PROVE  PublicAt(g, pub2, q, thr'[q][y].task, OnThread(y))
  <2>1. q # p \/ y # x
    BY <1>1, <1>10 DEF Brings
  <2>2. thr'[q][y] = thr[q][y] /\ Brings(q, y, "public") /\ thr[q][y].task \in Tasks
    <3>1. thr'[q][y] = thr[q][y]
      BY <1>1, <2>1
    <3>2. Brings(q, y, "public")
      BY <1>10, <3>1 DEF Brings
    <3> QED BY <1>2, <3>1, <3>2, TasksNamed
  <2>3. PublicAt(prog, pub, q, thr[q][y].task, OnThread(y))
    BY <1>2, <2>2 DEF PublicData
  <2> QED BY <1>7, <2>1, <2>2, <2>3, PlaceFacts
<1>11. ASSUME NEW q \in Parties, NEW y \in Threads(q), Requests(q, y)', thr'[q][y].hit
       PROVE  PublicAt(g, pub2, q, thr'[q][y].task, FromCache)
  <2>1. q # p \/ y # x
    BY <1>1, <1>11 DEF Requests
  <2>2. thr'[q][y] = thr[q][y] /\ Requests(q, y) /\ thr[q][y].task \in Tasks
    <3>1. thr'[q][y] = thr[q][y]
      BY <1>1, <2>1
    <3>2. Requests(q, y)
      BY <1>11, <3>1 DEF Requests
    <3> QED BY <1>2, <3>1, <3>2, TasksNamed
  <2>3. PublicAt(prog, pub, q, thr[q][y].task, FromCache)
    BY <1>2, <1>11, <2>2 DEF PublicData
  <2>4. q = p /\ thr[q][y].task = t => thr[p][x].brings # "request"
    BY <2>1, <2>2, OneRequests
  <2> QED BY <1>7, <2>2, <2>3, <2>4, PlaceFacts
<1>12. ASSUME NEW q \in Parties, NEW u \in Tasks, slot'[q][u].pub
       PROVE  PublicAt(g, pub2, q, u, InSlot)
  <2>1. CASE q = p /\ u = t
    <3>1. slot'[p][t] = f /\ f.pub /\ g[p][t] = prog[p][t]
      BY <1>1, <1>12, <2>1 DEF NoSlot
    <3> QED BY <1>3, <1>4, <2>1, <3>1 DEF PublicAt
  <2>2. CASE q # p \/ u # t
    <3>1. PublicAt(prog, pub, q, u, InSlot)
      BY <1>1, <1>2, <1>12, <2>2 DEF PublicData
    <3> QED BY <1>5, <2>2, <3>1
  <2> QED BY <2>1, <2>2
<1>13. PublicData(g, pub2)'
  BY <1>8, <1>9, <1>10, <1>11, <1>12 DEF PublicData, PublicAt
<1> QED BY <1>13

LEMMA PrivateHere ==
  ASSUME NEW prog, NEW place, NEW msg, NEW pub, NEW priv, NEW chal,
         NEW p, NEW x, NEW t, Updates(prog, place, msg, pub, priv, chal, p, x, t),
         Filled(p, slot[p][t], thr[p][x]).priv
  PROVE  PrivateAt(prog, priv, p, t, priv[p][t]) /\ priv[p][t] \in {OnThread(x), InSlot}
<1>1. \E w \in {OnThread(x), InSlot} : PrivateAt(prog, priv, p, t, w)
  BY FilledPlaces
<1> QED BY <1>1 DEF PrivateAt

LEMMA PrivateSettles ==
  ASSUME NEW prog, NEW place, NEW msg, NEW pub, NEW priv, NEW chal,
         NEW p, NEW x, NEW t, Updates(prog, place, msg, pub, priv, chal, p, x, t),
         NEW f, f = Filled(p, slot[p][t], thr[p][x]),
         NEW g, SettleFacts(prog, g, p, x, t, f)
  PROVE  \E priv2 : PrivateData(g, priv2)'
<1>1. /\ p \in Parties /\ x \in Threads(p) /\ t \in Tasks /\ f \in Slots
      /\ thr'[p][x].pc \in {"idle", "todo"}
      /\ \A q \in Parties : \A y \in Threads(q) : q # p \/ y # x => thr'[q][y] = thr[q][y]
      /\ \A q \in Parties : \A u \in Tasks : q # p \/ u # t =>
           slot'[q][u] = slot[q][u] /\ g[q][u] = prog[q][u]
      /\ UNCHANGED reads
      /\ \/ slot'[p][t] = f /\ g[p][t] = prog[p][t]
         \/ /\ slot'[p][t] = NoSlot(f.no)
            /\ f.req \in Nat /\ Satisfies(p, t, f)
            /\ prog[p][t] = 3 * f.req + 2
  BY DEF SettleFacts
<1>2. PrivateData(prog, priv) /\ ThreadTypes /\ SharedTypes
  BY DEF Updates, Inv, Data, Types
<1>3. f.priv => PrivateAt(prog, priv, p, t, priv[p][t]) /\ priv[p][t] \in {OnThread(x), InSlot}
  BY PrivateHere
<1>4. PICK priv2 : /\ priv2[p][t] = IF f.priv THEN InSlot ELSE priv[p][t]
                   /\ \A q \in Parties : \A u \in Tasks :
                        q # p \/ u # t => priv2[q][u] = priv[q][u]
  <2>1. CASE f.priv
    <3>1. /\ Put(priv, p, t, InSlot)[p][t] = InSlot
          /\ \A q \in Parties : \A u \in Tasks :
               q # p \/ u # t => Put(priv, p, t, InSlot)[q][u] = priv[q][u]
      BY <1>1 DEF Put
    <3> QED BY <2>1, <3>1
  <2>2. CASE ~f.priv
    BY <2>2
  <2> QED BY <2>1, <2>2
<1>5. \A q \in Parties : \A u \in Tasks : \A w : q # p \/ u # t =>
        (PrivateAt(prog, priv, q, u, w) => PrivateAt(g, priv2, q, u, w))
  BY <1>1, <1>4 DEF PrivateAt
<1>6. ~f.priv => \A w : PrivateAt(prog, priv, p, t, w) => PrivateAt(g, priv2, p, t, w)
  <2> SUFFICES ASSUME ~f.priv, NEW w, PrivateAt(prog, priv, p, t, w)
               PROVE  PrivateAt(g, priv2, p, t, w)
    OBVIOUS
  <2>1. CASE g[p][t] = prog[p][t]
    BY <1>4, <2>1 DEF PrivateAt
  <2>2. CASE f.req \in Nat /\ Satisfies(p, t, f) /\ prog[p][t] = 3 * f.req + 2
    <3>1. f.req = 0
      BY <2>2 DEF PrivateAt
    <3> QED BY <2>2, <3>1 DEF PrivateAt, Satisfies, WantPrivate
  <2> QED BY <1>1, <2>1, <2>2
<1>7. ASSUME NEW q \in Parties, NEW u \in Tasks, NEW w, PrivateAt(prog, priv, q, u, w),
             q = p /\ u = t /\ f.priv => w \notin {OnThread(x), InSlot}
      PROVE  PrivateAt(g, priv2, q, u, w)
  <2>1. CASE q = p /\ u = t /\ f.priv
    <3>1. w = priv[p][t]
      BY <1>7, <2>1 DEF PrivateAt
    <3> QED BY <1>3, <1>7, <2>1, <3>1
  <2>2. CASE q = p /\ u = t /\ ~f.priv
    BY <1>6, <1>7, <2>2
  <2>3. CASE q # p \/ u # t
    BY <1>5, <1>7, <2>3
  <2> QED BY <2>1, <2>2, <2>3
<1>8. ASSUME NEW q \in Parties, NEW m \in reads'[q], m.kind = "private"
      PROVE  PrivateAt(g, priv2, q, m.task, InQueue)
  <2>1. m \in reads[q] /\ m.task \in Tasks
    BY <1>1, <1>2, TasksNamed
  <2>2. PrivateAt(prog, priv, q, m.task, InQueue)
    BY <1>2, <1>8, <2>1 DEF PrivateData
  <2> QED BY <1>7, <2>1, <2>2, PlaceFacts
<1>9. ASSUME NEW q \in Parties, NEW y \in Threads(q), Brings(q, y, "private")'
      PROVE  PrivateAt(g, priv2, q, thr'[q][y].task, OnThread(y))
  <2>1. q # p \/ y # x
    BY <1>1, <1>9 DEF Brings
  <2>2. thr'[q][y] = thr[q][y] /\ Brings(q, y, "private") /\ thr[q][y].task \in Tasks
    <3>1. thr'[q][y] = thr[q][y]
      BY <1>1, <2>1
    <3>2. Brings(q, y, "private")
      BY <1>9, <3>1 DEF Brings
    <3> QED BY <1>2, <3>1, <3>2, TasksNamed
  <2>3. PrivateAt(prog, priv, q, thr[q][y].task, OnThread(y))
    BY <1>2, <2>2 DEF PrivateData
  <2> QED BY <1>7, <2>1, <2>2, <2>3, PlaceFacts
<1>10. ASSUME NEW q \in Parties, NEW u \in Tasks, slot'[q][u].priv
       PROVE  PrivateAt(g, priv2, q, u, InSlot)
  <2>1. CASE q = p /\ u = t
    <3>1. slot'[p][t] = f /\ f.priv /\ g[p][t] = prog[p][t]
      BY <1>1, <1>10, <2>1 DEF NoSlot
    <3> QED BY <1>3, <1>4, <2>1, <3>1 DEF PrivateAt
  <2>2. CASE q # p \/ u # t
    <3>1. PrivateAt(prog, priv, q, u, InSlot)
      BY <1>1, <1>2, <1>10, <2>2 DEF PrivateData
    <3> QED BY <1>5, <2>2, <3>1
  <2> QED BY <2>1, <2>2
<1>11. PrivateData(g, priv2)'
  BY <1>8, <1>9, <1>10 DEF PrivateData, PrivateAt
<1> QED BY <1>11

(* The challenge: the prover waits for it, the verifier's request brings   *)
(* its own.                                                                *)
LEMMA ChallengesSettle ==
  ASSUME NEW prog, NEW place, NEW msg, NEW pub, NEW priv, NEW chal,
         NEW p, NEW x, NEW t, Updates(prog, place, msg, pub, priv, chal, p, x, t),
         NEW f, f = Filled(p, slot[p][t], thr[p][x]),
         NEW g, SettleFacts(prog, g, p, x, t, f)
  PROVE  \E chal2 : Challenges(g, chal2)'
<1>1. /\ p \in Parties /\ x \in Threads(p) /\ t \in Tasks /\ f \in Slots
      /\ thr'[p][x].pc \in {"idle", "todo"}
      /\ \A q \in Parties : \A y \in Threads(q) : q # p \/ y # x => thr'[q][y] = thr[q][y]
      /\ \A q \in Parties : \A u \in Tasks : q # p \/ u # t =>
           slot'[q][u] = slot[q][u] /\ g[q][u] = prog[q][u]
      /\ UNCHANGED <<chalq, chalNet>>
      /\ \/ slot'[p][t] = f /\ g[p][t] = prog[p][t]
         \/ /\ slot'[p][t] = NoSlot(f.no)
            /\ f.req \in Nat /\ Satisfies(p, t, f)
            /\ prog[p][t] = 3 * f.req + 2 /\ g[p][t] = 3 * f.req + 3
  BY DEF SettleFacts
<1>2. Challenges(prog, chal) /\ ThreadTypes /\ SharedTypes
  BY DEF Updates, Inv, Data, Types
<1>3. f.chal /\ p = "prover" =>
        ChallengeAt(prog, chal, t, chal[t]) /\ chal[t] \in {OnThread(x), InSlot}
  <2> HAVE f.chal /\ p = "prover"
  <2>1. \E w \in {OnThread(x), InSlot} : ChallengeAt(prog, chal, t, w)
    BY FilledPlaces
  <2> QED BY <2>1 DEF ChallengeAt
<1>4. PICK chal2 : /\ chal2[t] = IF f.chal /\ p = "prover" THEN InSlot ELSE chal[t]
                   /\ \A u \in Tasks : u # t => chal2[u] = chal[u]
  <2> DEFINE c == [u \in Tasks |->
                     IF u = t /\ f.chal /\ p = "prover" THEN InSlot ELSE chal[u]]
  <2>1. /\ c[t] = IF f.chal /\ p = "prover" THEN InSlot ELSE chal[t]
        /\ \A u \in Tasks : u # t => c[u] = chal[u]
    BY <1>1
  <2> HIDE DEF c
  <2> QED BY <2>1
<1>5. \A q \in Parties : \A u \in Tasks :
        /\ prog[q][u] \in Nat
        /\ g[q][u] >= 2 <=> prog[q][u] >= 2
  <2>1. Numbers(prog)
    BY DoneFacts DEF Updates, Inv, Graph
  <2> QED BY <1>1, <2>1 DEF Numbers
<1>6. "prover" \in Parties /\ "verifier" \in Parties /\ "prover" # "verifier"
  BY DEF Parties
<1>7. ASSUME NEW u \in Tasks, NEW w, ChallengeAt(prog, chal, u, w),
             u = t /\ f.chal /\ p = "prover" => w \notin {OnThread(x), InSlot}
      PROVE  ChallengeAt(g, chal2, u, w)
  <2>1. CASE u = t /\ f.chal /\ p = "prover"
    <3>1. w = chal[t]
      BY <1>7, <2>1 DEF ChallengeAt
    <3> QED BY <1>3, <1>7, <2>1, <3>1
  <2>2. CASE ~(u = t /\ f.chal /\ p = "prover")
    <3>1. chal2[u] = chal[u]
      BY <1>4, <2>2
    <3>2. g["prover"][u] <= 2
      <4>1. prog["prover"][u] <= 2 /\ u \in Challenge
        BY <1>7 DEF ChallengeAt
      <4>2. CASE g["prover"][u] = prog["prover"][u]
        BY <4>1, <4>2
      <4>3. CASE ~(g["prover"][u] = prog["prover"][u])
        <5>1. u = t /\ p = "prover" /\ f.req \in Nat /\ Satisfies(p, t, f)
              /\ prog[p][t] = 3 * f.req + 2
          BY <1>1, <1>6, <4>3
        <5>2. f.req = 0
          BY <4>1, <5>1
        <5> QED BY <2>2, <4>1, <5>1, <5>2 DEF Satisfies, WantChallenge
      <4> QED BY <4>2, <4>3
    <3>3. g["verifier"][u] >= 2
      BY <1>5, <1>6, <1>7 DEF ChallengeAt
    <3> QED BY <1>7, <3>1, <3>2, <3>3 DEF ChallengeAt
  <2> QED BY <2>1, <2>2
<1>8. NoTwice(chalq') /\ NoTwice(chalNet')
  BY <1>1, <1>2 DEF Challenges
<1>9. ASSUME NEW i \in DOMAIN chalq' PROVE ChallengeAt(g, chal2, chalq'[i], InQueue)
  <2>1. chalq[i] \in Tasks /\ ChallengeAt(prog, chal, chalq[i], InQueue) /\ chalq' = chalq
    BY <1>1, <1>2, <1>6, TasksNamed DEF Challenges
  <2> QED BY <1>7, <2>1, PlaceFacts
<1>10. ASSUME NEW i \in DOMAIN chalNet' PROVE ChallengeAt(g, chal2, chalNet'[i], OnNet(0))
  <2>1. chalNet[i] \in Tasks /\ ChallengeAt(prog, chal, chalNet[i], OnNet(0))
        /\ chalNet' = chalNet
    BY <1>1, <1>2, <1>6, TasksNamed DEF Challenges
  <2> QED BY <1>7, <2>1, PlaceFacts
<1>11. ASSUME Brings("prover", Chal, "challenge")'
       PROVE  ChallengeAt(g, chal2, thr'["prover"][Chal].task, OnThread(Chal))
  <2>1. Chal \in Threads("prover")
    BY <1>6, KindFacts
  <2>2. p # "prover" \/ x # Chal
    BY <1>1, <1>11 DEF Brings
  <2>3. thr'["prover"][Chal] = thr["prover"][Chal]
    BY <1>1, <1>6, <2>1, <2>2
  <2>4. Brings("prover", Chal, "challenge")
    BY <1>11, <2>3 DEF Brings
  <2>5. thr["prover"][Chal].task \in Tasks
    BY <1>2, <1>6, <2>1, <2>4, TasksNamed
  <2>6. ChallengeAt(prog, chal, thr["prover"][Chal].task, OnThread(Chal))
    BY <1>2, <2>4 DEF Challenges
  <2>7. p = "prover" => OnThread(Chal) \notin {OnThread(x), InSlot}
    BY <2>2, PlaceFacts
  <2> QED BY <1>7, <2>3, <2>5, <2>6, <2>7
<1>12. ASSUME NEW u \in Tasks, slot'["prover"][u].chal
       PROVE  ChallengeAt(g, chal2, u, InSlot)
  <2>1. CASE p = "prover" /\ u = t
    <3>1. slot'[p][t] = f /\ f.chal /\ g[p][t] = prog[p][t]
      BY <1>1, <1>12, <2>1 DEF NoSlot
    <3>2. g["verifier"][t] = prog["verifier"][t]
      BY <1>1, <1>6, <2>1
    <3> QED BY <1>3, <1>4, <2>1, <3>1, <3>2 DEF ChallengeAt
  <2>2. CASE ~(p = "prover" /\ u = t)
    <3>1. ChallengeAt(prog, chal, u, InSlot)
      BY <1>1, <1>2, <1>6, <1>12, <2>2 DEF Challenges
    <3>2. ~(u = t /\ f.chal /\ p = "prover")
      BY <2>2
    <3> QED BY <1>7, <3>1, <3>2
  <2> QED BY <2>1, <2>2
<1>13. ASSUME NEW u \in Tasks, slot'["verifier"][u].chal
       PROVE  u \in Challenge /\ slot'["verifier"][u].req = 0
  <2>1. CASE p = "verifier" /\ u = t
    <3>1. slot'[p][t] = f /\ f.chal
      BY <1>1, <1>13, <2>1 DEF NoSlot
    <3> QED BY <2>1, <3>1, FilledPlaces
  <2>2. CASE ~(p = "verifier" /\ u = t)
    BY <1>1, <1>2, <1>6, <1>13, <2>2 DEF Challenges
  <2> QED BY <2>1, <2>2
<1>14. ASSUME NEW u \in Tasks, u \in Challenge, g["prover"][u] >= 3
       PROVE  g["verifier"][u] >= 2
  <2>1. prog["verifier"][u] >= 2
    <3>1. CASE prog["prover"][u] >= 3
      BY <1>2, <1>14, <3>1 DEF Challenges
    <3>2. CASE ~(prog["prover"][u] >= 3)
      <4>1. u = t /\ p = "prover" /\ f.req \in Nat /\ Satisfies(p, t, f)
            /\ prog[p][t] = 3 * f.req + 2
        BY <1>1, <1>6, <1>14, <3>2
      <4>2. f.req = 0
        BY <3>2, <4>1
      <4>3. f.chal
        BY <1>14, <4>1, <4>2 DEF Satisfies, WantChallenge
      <4> QED BY <1>3, <4>1, <4>3 DEF ChallengeAt
    <3> QED BY <3>1, <3>2
  <2> QED BY <1>5, <1>6, <2>1
<1>15. Challenges(g, chal2)'
  BY <1>8, <1>9, <1>10, <1>11, <1>12, <1>13, <1>14 DEF Challenges, ChallengeAt, NoTwice
<1> QED BY <1>15

(* When the stage has all it wants nobody else comes for its slot.         *)
LEMMA LastToCome ==
  ASSUME NEW prog, NEW place, NEW msg, NEW pub, NEW priv, NEW chal,
         NEW p, NEW x, NEW t, Updates(prog, place, msg, pub, priv, chal, p, x, t),
         NEW f, f = Filled(p, slot[p][t], thr[p][x]), f.req >= 0, Satisfies(p, t, f),
         NEW y, Updates(prog, place, msg, pub, priv, chal, p, y, t), y # x
  PROVE  FALSE
<1> DEFINE r == thr[p][y]
<1>1. PICK v \in Nat : v = f.req /\ prog[p][t] = 3 * v + 2
  BY FilledPlaces
<1>2. /\ place[p][t] \in {OnThread(x), InSlot}
      /\ f.inc >= 0 => msg[Peer(p)][t] \in {OnThread(x), InSlot}
      /\ f.pub => pub[p][t] \in {OnThread(x), InSlot, FromCache}
      /\ f.priv => priv[p][t] \in {OnThread(x), InSlot}
      /\ f.chal /\ p = "prover" => chal[t] \in {OnThread(x), InSlot}
  <2>1. place[p][t] \in {OnThread(x), InSlot}
    BY FilledPlaces
  <2>2. f.inc >= 0 => \E w \in {OnThread(x), InSlot} : UnderWay(prog, msg, Peer(p), t, f.inc, w)
    BY FilledPlaces
  <2>3. f.pub => pub[p][t] \in {OnThread(x), InSlot, FromCache}
    BY PublicHere
  <2>4. f.priv => priv[p][t] \in {OnThread(x), InSlot}
    BY PrivateHere
  <2>5. f.chal /\ p = "prover" => \E w \in {OnThread(x), InSlot} : ChallengeAt(prog, chal, t, w)
    BY FilledPlaces
  <2> QED BY <2>1, <2>2, <2>3, <2>4, <2>5 DEF UnderWay, ChallengeAt
<1>3. /\ r.step \in Nat
      /\ r.brings \in {"request", "incoming", "challenge", "public", "private"}
      /\ r.brings = "request" => Stands(prog, place, p, t, 3 * r.step + 2, OnThread(y))
      /\ r.brings = "incoming" => UnderWay(prog, msg, Peer(p), t, r.step, OnThread(y))
      /\ r.brings = "challenge" => p = "prover" /\ ChallengeAt(prog, chal, t, OnThread(y))
      /\ r.brings = "public" => PublicAt(prog, pub, p, t, OnThread(y))
      /\ r.brings = "private" => PrivateAt(prog, priv, p, t, OnThread(y))
  BY BroughtFacts
<1>4. p \in Parties /\ t \in Tasks /\ Numbers(prog) /\ Causal(prog)
  BY DoneFacts DEF Updates, Inv, Data, Graph
<1>5. OnThread(y) \notin {OnThread(x), InSlot, FromCache}
  BY PlaceFacts
<1> HIDE DEF r
<1>6. CASE r.brings = "request"
  BY <1>2, <1>3, <1>5, <1>6 DEF Stands
<1>7. CASE r.brings = "incoming"
  <2>1. PICK k \in Nat : k = r.step
    BY <1>3
  <2>2. UnderWay(prog, msg, Peer(p), t, k, OnThread(y))
    BY <1>3, <1>7, <2>1
  <2>3. WantIncoming(p, t, v)
    BY <1>1, <1>4, <2>2, Meets
  <2>4. f.inc >= 0
    BY <1>1, <2>3 DEF Satisfies
  <2> QED BY <1>2, <1>5, <2>2, <2>4 DEF UnderWay
<1>8. CASE r.brings = "challenge"
  <2>1. v = 0 /\ t \in Challenge
    BY <1>1, <1>3, <1>8 DEF ChallengeAt
  <2>2. f.chal
    BY <1>1, <2>1 DEF Satisfies, WantChallenge
  <2> QED BY <1>2, <1>3, <1>5, <1>8, <2>2 DEF ChallengeAt
<1>9. CASE r.brings = "public"
  <2>1. v = 0 /\ Chunk[t] # NoChunk
    BY <1>1, <1>3, <1>9 DEF PublicAt
  <2>2. f.pub
    BY <1>1, <2>1 DEF Satisfies, WantPublic
  <2> QED BY <1>2, <1>3, <1>5, <1>9, <2>2 DEF PublicAt
<1>10. CASE r.brings = "private"
  <2>1. v = 0 /\ t \in Private /\ p = "prover"
    BY <1>1, <1>3, <1>10 DEF PrivateAt
  <2>2. f.priv
    BY <1>1, <2>1 DEF Satisfies, WantPrivate
  <2> QED BY <1>2, <1>3, <1>5, <1>10, <2>2 DEF PrivateAt
<1> QED BY <1>3, <1>6, <1>7, <1>8, <1>9, <1>10

LEMMA SlotTableSettles ==
  ASSUME NEW prog, NEW place, NEW msg, NEW pub, NEW priv, NEW chal,
         NEW p, NEW x, NEW t, Updates(prog, place, msg, pub, priv, chal, p, x, t),
         NEW f, f = Filled(p, slot[p][t], thr[p][x]),
         NEW g, SettleFacts(prog, g, p, x, t, f)
  PROVE  SlotTable'
<1>1. /\ p \in Parties /\ x \in Threads(p) /\ t \in Tasks
      /\ thr'[p][x].pc \in {"idle", "todo"}
      /\ \A q \in Parties : \A y \in Threads(q) : q # p \/ y # x => thr'[q][y] = thr[q][y]
      /\ \A q \in Parties : \A u \in Tasks : q # p \/ u # t => slot'[q][u] = slot[q][u]
      /\ slot'[p][t] = f \/ (slot'[p][t] = NoSlot(f.no) /\ f.req \in Nat /\ Satisfies(p, t, f))
  BY DEF SettleFacts
<1>2. SlotTable /\ ThreadTypes /\ thr[p][x].pc = "update" /\ thr[p][x].task = t
  BY DEF Updates, Inv, Data, Types
<1>3. f.present /\ f.no = slot[p][t].no /\ ~Blank(f)
  <2>1. f.present /\ f.no = slot[p][t].no
    BY FilledFacts
  <2>2. ~Blank(f)
    BY FilledPlaces
  <2> QED BY <2>1, <2>2
<1>4. Blank(NoSlot(f.no)) /\ ~NoSlot(f.no).present
  BY DEF Blank, NoSlot
<1>5. ASSUME NEW q \in Parties, NEW y \in Threads(q), thr'[q][y].pc = "update"
      PROVE  /\ slot'[q][thr'[q][y].task].present
             /\ thr'[q][y].ref = slot'[q][thr'[q][y].task].no
  <2>1. thr'[q][y] = thr[q][y] /\ thr[q][y].task \in Tasks /\ (q # p \/ y # x)
    BY <1>1, <1>2, <1>5 DEF ThreadTypes, Working
  <2>2. /\ slot[q][thr[q][y].task].present
        /\ thr[q][y].ref = slot[q][thr[q][y].task].no
    BY <1>2, <1>5, <2>1 DEF SlotTable
  <2>3. CASE q = p /\ thr[q][y].task = t
    <3>1. slot'[p][t] = f
      <4>1. SUFFICES ASSUME f.req \in Nat, Satisfies(p, t, f) PROVE FALSE
        BY <1>1
      <4>2. Updates(prog, place, msg, pub, priv, chal, p, y, t)
        BY <1>5, <2>1, <2>3 DEF Updates
      <4>3. f.req >= 0 /\ y # x
        BY <2>1, <2>3, <4>1
      <4> QED BY <4>1, <4>2, <4>3, LastToCome
    <3> QED BY <1>3, <2>1, <2>2, <2>3, <3>1
  <2>4. CASE ~(q = p /\ thr[q][y].task = t)
    BY <1>1, <2>1, <2>2, <2>4
  <2> QED BY <2>3, <2>4
<1>6. ASSUME NEW q \in Parties, NEW u \in Tasks
      PROVE  /\ ~slot'[q][u].present => Blank(slot'[q][u])
             /\ slot'[q][u].present /\ Blank(slot'[q][u]) =>
                  \E y \in Threads(q) : thr'[q][y].pc = "update" /\ thr'[q][y].task = u
  <2>1. CASE q = p /\ u = t
    BY <1>1, <1>3, <1>4, <2>1
  <2>2. CASE ~(q = p /\ u = t)
    <3>1. slot'[q][u] = slot[q][u]
      BY <1>1, <2>2
    <3>2. ~slot[q][u].present => Blank(slot[q][u])
      BY <1>2 DEF SlotTable
    <3>3. ASSUME slot[q][u].present, Blank(slot[q][u])
          PROVE  \E y \in Threads(q) : thr'[q][y].pc = "update" /\ thr'[q][y].task = u
      <4>1. PICK y \in Threads(q) : thr[q][y].pc = "update" /\ thr[q][y].task = u
        BY <1>2, <3>3 DEF SlotTable
      <4>2. thr'[q][y] = thr[q][y]
        BY <1>1, <1>2, <2>2, <4>1
      <4> QED BY <4>1, <4>2
    <3> QED BY <3>1, <3>2, <3>3
  <2> QED BY <2>1, <2>2
<1> QED BY <1>5, <1>6 DEF SlotTable, Blank

(* A stage starts with a message that its peer has sent.                   *)
LEMMA CausalSettles ==
  ASSUME NEW prog, NEW place, NEW msg, NEW pub, NEW priv, NEW chal,
         NEW p, NEW x, NEW t, Updates(prog, place, msg, pub, priv, chal, p, x, t),
         NEW f, f = Filled(p, slot[p][t], thr[p][x]),
         NEW g, SettleFacts(prog, g, p, x, t, f)
  PROVE  Causal(g) /\ Causal(g)'
<1>1. /\ p \in Parties /\ t \in Tasks
      /\ \A q \in Parties : \A u \in Tasks : q # p \/ u # t => g[q][u] = prog[q][u]
      /\ \/ g[p][t] = prog[p][t]
         \/ /\ f.req \in Nat /\ Satisfies(p, t, f)
            /\ prog[p][t] = 3 * f.req + 2 /\ g[p][t] = 3 * f.req + 3
  BY DEF SettleFacts
<1>2. Causal(prog) /\ Numbers(prog)
  BY DoneFacts DEF Updates, Inv, Data, Graph
<1>3. ASSUME NEW q \in Parties, NEW u \in Tasks, NEW s \in 0 .. ExpectedSteps(q, u) - 1,
             Incoming(q, u, s), g[q][u] >= 3 * s + 3
      PROVE  g[Peer(q)][u] >= 3 * RoundFor(q, u, s) + 4
  <2>1. Peer(q) \in Parties /\ Peer(q) # q
    BY Peers
  <2>2. s \in Nat /\ RoundFor(q, u, s) \in Nat
    <3>1. s \in Nat
      BY StageFacts
    <3> QED BY <1>3, <3>1, RoundFacts
  <2>3. prog[q][u] \in Nat /\ prog[Peer(q)][u] \in Nat
    BY <1>2, <2>1 DEF Numbers
  <2>4. g[Peer(q)][u] >= prog[Peer(q)][u] /\ g[Peer(q)][u] \in Nat
    BY <1>1, <2>1, <2>3
  <2>5. prog[Peer(q)][u] >= 3 * RoundFor(q, u, s) + 4
    <3>1. CASE prog[q][u] >= 3 * s + 3
      BY <1>2, <1>3, <3>1 DEF Causal
    <3>2. CASE ~(prog[q][u] >= 3 * s + 3)
      <4>1. q = p /\ u = t /\ f.req \in Nat /\ Satisfies(p, t, f)
            /\ prog[p][t] = 3 * f.req + 2 /\ g[p][t] = 3 * f.req + 3
        BY <1>1, <1>3, <3>2
      <4>2. s = f.req
        BY <1>3, <2>2, <3>2, <4>1
      <4>3. f.inc = IF WantIncoming(p, t, f.req) THEN RoundFor(p, t, f.req) ELSE -1
        BY <4>1, FilledExact
      <4>4. WantIncoming(p, t, s)
        BY <1>3, <2>2, <4>1, StageFacts
      <4>5. f.inc = RoundFor(p, t, s)
        BY <4>2, <4>3, <4>4
      <4>6. f.inc >= 0
        BY <2>2, <4>1, <4>5
      <4>7. \E w \in {OnThread(x), InSlot} : UnderWay(prog, msg, Peer(p), t, f.inc, w)
        BY <4>6, FilledPlaces
      <4> QED BY <4>7, <4>1, <4>5, <4>6 DEF UnderWay
    <3> QED BY <3>1, <3>2
  <2> DEFINE a == g[Peer(q)][u]
             b == prog[Peer(q)][u]
             k == RoundFor(q, u, s)
  <2>6. a \in Nat /\ b \in Nat /\ k \in Nat /\ a >= b /\ b >= 3 * k + 4
    BY <2>2, <2>3, <2>4, <2>5
  <2> HIDE DEF a, b, k
  <2>7. a >= 3 * k + 4
    BY <2>6
  <2> QED BY <2>7 DEF a, k
<1> QED BY <1>3 DEF Causal

LEMMA IncomingHere ==
  ASSUME NEW prog, NEW place, NEW msg, NEW pub, NEW priv, NEW chal,
         NEW p, NEW x, NEW t, Updates(prog, place, msg, pub, priv, chal, p, x, t),
         NEW f, f = Filled(p, slot[p][t], thr[p][x]), f.inc >= 0
  PROVE  f.inc \in Nat /\ msg[Peer(p)][t] \in {OnThread(x), InSlot}
           /\ UnderWay(prog, msg, Peer(p), t, f.inc, msg[Peer(p)][t])
<1>1. f.inc \in Nat /\ \E w \in {OnThread(x), InSlot} : UnderWay(prog, msg, Peer(p), t, f.inc, w)
  BY FilledPlaces
<1> QED BY <1>1 DEF UnderWay

LEMMA FlightsSettle ==
  ASSUME NEW prog, NEW place, NEW msg, NEW pub, NEW priv, NEW chal,
         NEW p, NEW x, NEW t, Updates(prog, place, msg, pub, priv, chal, p, x, t),
         NEW f, f = Filled(p, slot[p][t], thr[p][x]),
         NEW g, SettleFacts(prog, g, p, x, t, f)
  PROVE  \E msg2 : Flights(g, msg2)'
<1>1. /\ p \in Parties /\ x \in Threads(p) /\ t \in Tasks
      /\ thr'[p][x].pc \in {"idle", "todo"}
      /\ \A q \in Parties : \A y \in Threads(q) : q # p \/ y # x => thr'[q][y] = thr[q][y]
      /\ \A q \in Parties : \A u \in Tasks : q # p \/ u # t =>
           slot'[q][u] = slot[q][u] /\ g[q][u] = prog[q][u]
      /\ UNCHANGED <<outq, net>>
      /\ \/ slot'[p][t] = f /\ g[p][t] = prog[p][t]
         \/ /\ slot'[p][t] = NoSlot(f.no)
            /\ f.req \in Nat /\ Satisfies(p, t, f)
            /\ prog[p][t] = 3 * f.req + 2 /\ g[p][t] = 3 * f.req + 3
  BY DEF SettleFacts
<1>2. Flights(prog, msg) /\ Causal(prog) /\ Numbers(prog) /\ ThreadTypes /\ SharedTypes /\ Shapes
      /\ thr[p][x].pc = "update"
  BY DoneFacts DEF Updates, Inv, Data, Graph, Types
<1>3. f.inc >= 0 => f.inc \in Nat /\ msg[Peer(p)][t] \in {OnThread(x), InSlot}
                    /\ UnderWay(prog, msg, Peer(p), t, f.inc, msg[Peer(p)][t])
  BY IncomingHere
<1>4. Peer(p) \in Parties /\ Peer(Peer(p)) = p /\ Peer(p) # p
  BY <1>1, Peers
<1>5. PICK msg2 : /\ msg2[Peer(p)][t] = IF f.inc >= 0 THEN InSlot ELSE msg[Peer(p)][t]
                  /\ \A q \in Parties : \A u \in Tasks :
                       q # Peer(p) \/ u # t => msg2[q][u] = msg[q][u]
  <2> DEFINE o == Peer(p)
             h == Put(msg, o, t, InSlot)
  <2>1. CASE f.inc >= 0
    <3>1. o \in Parties
      BY <1>4
    <3> HIDE DEF o
    <3>2. /\ h[o][t] = InSlot
          /\ \A q \in Parties : \A u \in Tasks : q # o \/ u # t => h[q][u] = msg[q][u]
      BY <1>1, <3>1 DEF Put
    <3> HIDE DEF h
    <3> QED BY <2>1, <3>2 DEF o
  <2>2. CASE ~(f.inc >= 0)
    BY <2>2
  <2> QED BY <2>1, <2>2
<1>6. \A q \in Parties : \A u \in Tasks :
        prog[q][u] \in Nat /\ g[q][u] \in Nat /\ g[q][u] >= prog[q][u]
  BY <1>1, <1>2 DEF Numbers
<1>7. ASSUME NEW q \in Parties, NEW u \in Tasks, NEW k \in Nat, NEW w,
             UnderWay(prog, msg, q, u, k, w),
             q = Peer(p) /\ u = t /\ f.inc >= 0 => w \notin {OnThread(x), InSlot}
      PROVE  UnderWay(g, msg2, q, u, k, w)
  <2>1. Peer(q) \in Parties /\ Peer(q) # q
    BY Peers
  <2>2. Outgoing(q, u, k) /\ msg[q][u] = w /\ prog[q][u] >= 3 * k + 4
        /\ prog[Peer(q)][u] < 3 * StageFor(Peer(q), u, k) + 3
    BY <1>7 DEF UnderWay
  <2>3. ~(q = Peer(p) /\ u = t /\ f.inc >= 0)
    BY <1>3, <1>7, <2>2
  <2>4. msg2[q][u] = w
    BY <1>5, <2>2, <2>3
  <2>5. g[q][u] >= 3 * k + 4
    <3>1. g[q][u] \in Nat /\ prog[q][u] \in Nat /\ g[q][u] >= prog[q][u]
      BY <1>6
    <3> QED BY <2>2, <3>1
  <2>6. g[Peer(q)][u] = prog[Peer(q)][u]
    <3>1. CASE Peer(q) # p \/ u # t
      BY <1>1, <2>1, <3>1
    <3>2. CASE Peer(q) = p /\ u = t
      <4>1. q = Peer(p) /\ ~(f.inc >= 0)
        BY <1>1, <2>3, <3>2, Peers
      <4>2. SUFFICES ASSUME f.req \in Nat, Satisfies(p, t, f), prog[p][t] = 3 * f.req + 2
                     PROVE  FALSE
        BY <1>1, <3>2
      <4>3. PICK v \in Nat : v = f.req /\ prog[p][t] = 3 * v + 2
        BY <4>2
      <4>4. UnderWay(prog, msg, Peer(p), t, k, w)
        BY <1>7, <3>2, <4>1
      <4>5. p \in Parties /\ t \in Tasks /\ Numbers(prog) /\ Causal(prog)
        BY <1>1, <1>2
      <4>6. WantIncoming(p, t, v)
        BY <4>3, <4>4, <4>5, Meets
      <4> QED BY <4>1, <4>2, <4>3, <4>6 DEF Satisfies
    <3> QED BY <3>1, <3>2
  <2> QED BY <2>2, <2>4, <2>5, <2>6 DEF UnderWay
<1>8. ASSUME NEW q \in Parties
      PROVE  SentBy(g, msg2, q)'
  <2>1. Peer(q) \in Parties
    BY Peers
  <2>2. SentBy(prog, msg, q)
    BY <1>2, FlightsBySender
  <2>3. outq' = outq /\ net' = net
    BY <1>1
  <2>4. /\ \A i \in DOMAIN outq[q] : outq[q][i].task \in Tasks /\ outq[q][i].round \in Nat
        /\ \A c \in 1 .. NumConns : \A i \in DOMAIN net[q][c] :
             net[q][c][i].task \in Tasks /\ net[q][c][i].round \in Nat
    BY <1>2, MessagesNamed
  <2>5. ASSUME NEW i \in DOMAIN outq[q]
        PROVE  /\ UnderWay(g, msg2, q, outq[q][i].task, outq[q][i].round, InQueue)
               /\ \A j \in DOMAIN outq[q] : outq[q][i].task = outq[q][j].task => i = j
    <3>1. UnderWay(prog, msg, q, outq[q][i].task, outq[q][i].round, InQueue)
      BY <2>2 DEF SentBy
    <3>2. UnderWay(g, msg2, q, outq[q][i].task, outq[q][i].round, InQueue)
      BY <1>7, <2>4, <3>1, PlaceFacts
    <3> QED BY <2>2, <3>2 DEF SentBy
  <2>6. ASSUME NEW y \in Outs, thr'[q][y].pc = "write"
        PROVE  UnderWay(g, msg2, q, thr'[q][y].task, thr'[q][y].step, OnThread(y))
    <3>1. y \in Threads(q) /\ y[1] = "out"
      BY KindFacts
    <3>2. y # x
      <4>1. SUFFICES ASSUME y = x PROVE FALSE
        OBVIOUS
      <4>2. OutShape(thr[p][x])
        BY <1>1, <1>2, <3>1, <4>1 DEF Shapes, Shape
      <4> QED BY <1>2, <4>2 DEF OutShape
    <3>3. thr'[q][y] = thr[q][y] /\ thr[q][y].pc = "write"
      BY <1>1, <2>6, <3>1, <3>2
    <3>4. thr[q][y].task \in Tasks /\ thr[q][y].step \in Nat
      BY <1>2, <3>1, <3>3, MessagesNamed
    <3>5. UnderWay(prog, msg, q, thr[q][y].task, thr[q][y].step, OnThread(y))
      BY <2>2, <3>3 DEF SentBy
    <3> QED BY <1>7, <3>2, <3>3, <3>4, <3>5, PlaceFacts
  <2>7. ASSUME NEW c \in 1 .. NumConns, NEW i \in DOMAIN net[q][c]
        PROVE  /\ UnderWay(g, msg2, q, net[q][c][i].task, net[q][c][i].round, OnNet(c))
               /\ \A j \in DOMAIN net[q][c] : net[q][c][i].task = net[q][c][j].task => i = j
    <3>1. UnderWay(prog, msg, q, net[q][c][i].task, net[q][c][i].round, OnNet(c))
      BY <2>2 DEF SentBy
    <3>2. UnderWay(g, msg2, q, net[q][c][i].task, net[q][c][i].round, OnNet(c))
      BY <1>7, <2>4, <3>1, PlaceFacts
    <3> QED BY <2>2, <3>2 DEF SentBy
  <2>8. ASSUME NEW y \in Ins, thr'[Peer(q)][y].pc \in {"getslot", "update"}
        PROVE  UnderWay(g, msg2, q, thr'[Peer(q)][y].task, thr'[Peer(q)][y].step, OnThread(y))
    <3>1. y \in Threads(Peer(q))
      BY <2>1, KindFacts
    <3>2. Peer(q) # p \/ y # x
      BY <1>1, <2>8
    <3>3. thr'[Peer(q)][y] = thr[Peer(q)][y] /\ thr[Peer(q)][y].pc \in {"getslot", "update"}
      BY <1>1, <2>1, <2>8, <3>1, <3>2
    <3>4. thr[Peer(q)][y].task \in Tasks /\ thr[Peer(q)][y].step \in Nat
      BY <1>2, <2>1, <3>1, <3>3, MessagesNamed
    <3>5. UnderWay(prog, msg, q, thr[Peer(q)][y].task, thr[Peer(q)][y].step, OnThread(y))
      BY <2>2, <3>3 DEF SentBy
    <3>6. q = Peer(p) => y # x
      BY <1>4, <3>2
    <3> QED BY <1>7, <3>3, <3>4, <3>5, <3>6, PlaceFacts
  <2>9. ASSUME NEW u \in Tasks, slot'[Peer(q)][u].inc >= 0
        PROVE  UnderWay(g, msg2, q, u, slot'[Peer(q)][u].inc, InSlot)
    <3>1. CASE Peer(q) = p /\ u = t
      <4>1. q = Peer(p)
        BY <1>1, <3>1, Peers
      <4>2. slot'[p][t] = f /\ f.inc >= 0 /\ g[p][t] = prog[p][t]
        BY <1>1, <2>9, <3>1 DEF NoSlot
      <4>3. UnderWay(prog, msg, Peer(p), t, f.inc, msg[Peer(p)][t])
        BY <1>3, <4>2
      <4>4. msg2[Peer(p)][t] = InSlot /\ g[Peer(p)][t] = prog[Peer(p)][t]
        BY <1>1, <1>4, <1>5, <4>2
      <4>5. UnderWay(g, msg2, Peer(p), t, f.inc, InSlot)
        BY <1>4, <4>2, <4>3, <4>4 DEF UnderWay
      <4> QED BY <3>1, <4>1, <4>2, <4>5
    <3>2. CASE ~(Peer(q) = p /\ u = t)
      <4>1. slot'[Peer(q)][u] = slot[Peer(q)][u]
        BY <1>1, <2>1, <3>2
      <4>2. slot[Peer(q)][u].inc \in Nat
        BY <1>2, <2>1, <2>9, <4>1, MessagesNamed
      <4>3. UnderWay(prog, msg, q, u, slot[Peer(q)][u].inc, InSlot)
        BY <2>2, <2>9, <4>1 DEF SentBy
      <4>4. ~(q = Peer(p) /\ u = t)
        BY <1>4, <3>2
      <4> QED BY <1>7, <4>1, <4>2, <4>3, <4>4
    <3> QED BY <3>1, <3>2
  <2> QED BY <2>3, <2>5, <2>6, <2>7, <2>8, <2>9 DEF SentBy, UnderWay
<1>9. Flights(g, msg2)'
  BY <1>8, FlightsBySender
<1> QED BY <1>9

LEMMA DataSettles ==
  ASSUME NEW prog, NEW place, NEW msg, NEW pub, NEW priv, NEW chal,
         NEW p, NEW x, NEW t, Updates(prog, place, msg, pub, priv, chal, p, x, t),
         NEW f, f = Filled(p, slot[p][t], thr[p][x]), Settles(p, x, t, f),
         NEW g, Reaches(prog, g, p, t, f)
  PROVE  \E msg2, pub2, priv2, chal2 : Data(g, msg2, pub2, priv2, chal2)'
<1>1. SettleFacts(prog, g, p, x, t, f)
  BY Settled
<1>2. SlotTable' /\ Causal(g)'
  BY <1>1, SlotTableSettles, CausalSettles
<1>3. PICK pub2 : PublicData(g, pub2)'
  BY <1>1, PublicSettles
<1>4. PICK priv2 : PrivateData(g, priv2)'
  BY <1>1, PrivateSettles
<1>5. PICK chal2 : Challenges(g, chal2)'
  BY <1>1, ChallengesSettle
<1>6. PICK msg2 : Flights(g, msg2)'
  BY <1>1, FlightsSettle
<1>7. Data(g, msg2, pub2, priv2, chal2)'
  BY <1>2, <1>3, <1>4, <1>5, <1>6 DEF Data
<1> QED BY <1>7

(* The stage that is launched or still waits.                              *)
LEMMA GraphSettles ==
  ASSUME NEW prog, NEW place, NEW msg, NEW pub, NEW priv, NEW chal,
         NEW p, NEW x, NEW t, Updates(prog, place, msg, pub, priv, chal, p, x, t),
         NEW f, f = Filled(p, slot[p][t], thr[p][x]), Settles(p, x, t, f),
         f.req >= 0, Types'
  PROVE  \E g, place2 : Graph(g, place2)' /\ Reaches(prog, g, p, t, f)
<1> DEFINE a == AfterUpdate(x, thr[p][x])
<1>1. /\ Types /\ Graph(prog, place) /\ p \in Parties /\ x \in Threads(p) /\ t \in Tasks
      /\ thr[p][x].pc = "update" /\ thr[p][x].task = t /\ Shape(p, x, thr[p][x])
  BY DEF Updates, Inv, Types, Shapes
<1>2. /\ a \in Records /\ a.pc \in {"idle", "todo"}
      /\ x[1] \in {"run", "main"} => a.todo = thr[p][x].todo
      /\ x = Main => a.pc = "todo"
      /\ x[1] = "run" => (a.pc = "todo" <=> thr[p][x].step = 0)
  BY AfterFacts
<1>3. /\ Moves(p, x, a)
      /\ \A q \in Parties : \A u \in Tasks : q # p \/ u # t => slot'[q][u] = slot[q][u]
      /\ \A q \in Parties : q # p => runQueue'[q] = runQueue[q]
      /\ UNCHANGED <<runOpen, graphVars>>
  BY DEF Settles
<1> HIDE DEF a
<1>4. Notifying(p, x)' <=> Notifying(p, x)
  <2>1. thr'[p][x] = a
    BY <1>3 DEF Moves
  <2> QED BY <1>1, <1>2, <2>1 DEF Notifying
<1>5. PICK v \in Nat : /\ v = f.req /\ v < ExpectedSteps(p, t)
                       /\ prog[p][t] = 3 * v + 2 /\ 3 * v + 3 < Done(p, t)
                       /\ place[p][t] \in {OnThread(x), InSlot}
  BY FilledPlaces
<1>6. Done(p, t) \in Nat
  BY <1>1, DoneFacts DEF Graph
<1>7. prog[p][t] > 1 /\ prog[p][t] < Done(p, t)
  BY <1>5, <1>6
<1>8. CASE Satisfies(p, t, f)
  <2> DEFINE e == [task |-> t, step |-> f.req, got |-> f.inc]
             w == 3 * v + 3
             z == InRunQueue(e)
  <2>1. slot'[p][t] = NoSlot(f.no) /\ runQueue'[p] = runQueue[p] \cup {e}
    BY <1>8 DEF Settles
  <2>2. f.inc = IF WantIncoming(p, t, f.req) THEN RoundFor(p, t, f.req) ELSE -1
    BY <1>8, FilledExact
  <2>3. e.task = t /\ e.step = v /\ e.got = IF WantIncoming(p, t, v) THEN RoundFor(p, t, v) ELSE -1
    BY <1>5, <2>2
  <2>4. ~(slot'[p][t].req >= 0)
    BY <2>1 DEF NoSlot
  <2>5. w \in Nat /\ w > 1 /\ w < Done(p, t) /\ w = 3 * e.step + 3
    BY <1>5, <2>3
  <2>6. w = 3 * f.req + 3
    BY <1>5
  <2> HIDE DEF e, w
  <2>7. Handed(p, t, w, z)
    BY <2>1, <2>3, <2>4, <2>5 DEF Handed
  <2> HIDE DEF z
  <2>8. Graph(Put(prog, p, t, w), Put(place, p, t, z))'
    BY <1>1, <1>2, <1>3, <1>4, <1>5, <1>7, <2>5, <2>7, HandsOver, ZenonT(60)
  <2>9. Reaches(prog, Put(prog, p, t, w), p, t, f)
    BY <1>1, <1>8, <2>6 DEF Reaches, Put
  <2> QED BY <2>8, <2>9
<1>9. CASE ~Satisfies(p, t, f)
  <2> DEFINE w == 3 * v + 2
             z == InSlot
  <2>1. slot'[p][t] = f /\ runQueue'[p] = runQueue[p]
    BY <1>9 DEF Settles
  <2>2. w \in Nat /\ w > 1 /\ w < Done(p, t) /\ w = prog[p][t]
    BY <1>5, <1>6
  <2>3. Handed(p, t, w, z)
    BY <1>5, <2>1 DEF Handed
  <2> HIDE DEF w, z
  <2>4. Graph(Put(prog, p, t, w), Put(place, p, t, z))'
    BY <1>1, <1>2, <1>3, <1>4, <1>5, <1>7, <2>2, <2>3, HandsOver
  <2>5. Reaches(prog, Put(prog, p, t, w), p, t, f)
    BY <1>1, <1>9, <2>2 DEF Reaches, Put
  <2> QED BY <2>4, <2>5
<1> QED BY <1>8, <1>9

LEMMA UpdateSlotKeeps ==
  ASSUME NEW prog, NEW place, NEW msg, NEW pub, NEW priv, NEW chal,
         Inv(prog, place, msg, pub, priv, chal),
         NEW p \in Parties, NEW x \in Threads(p), UpdateSlot(p, x)
  PROVE  IInv'
<1>1. thr[p][x].pc = "update"
  BY DEF UpdateSlot
<1>2. thr[p][x].task \in Tasks
  BY <1>1 DEF Inv, Types, ThreadTypes, Working
<1>3. PICK t \in Tasks : t = thr[p][x].task
  BY <1>2
<1>4. Updates(prog, place, msg, pub, priv, chal, p, x, t)
  BY <1>1, <1>3 DEF Updates
<1>5. PICK f \in Slots : f = Filled(p, slot[p][t], thr[p][x])
  BY <1>4, FilledFacts
<1>6. Settles(p, x, t, f) /\ Types' /\ Shapes' /\ NoPanic'
  BY <1>4, <1>5, UpdateStep
<1>7. \E g, place2 : Graph(g, place2)' /\ Reaches(prog, g, p, t, f)
  <2>1. CASE f.req >= 0
    BY <1>4, <1>5, <1>6, <2>1, GraphSettles
  <2>2. CASE ~(f.req >= 0)
    <3> DEFINE a == AfterUpdate(x, thr[p][x])
    <3>1. Reaches(prog, prog, p, t, f)
      BY <2>2 DEF Reaches
    <3>2. slot'[p][t] = f /\ runQueue'[p] = runQueue[p]
      BY <2>2, <1>6 DEF Settles
    <3>3. /\ Moves(p, x, a)
          /\ \A q \in Parties : \A u \in Tasks : q # p \/ u # t => slot'[q][u] = slot[q][u]
          /\ \A q \in Parties : q # p => runQueue'[q] = runQueue[q]
          /\ UNCHANGED <<runOpen, graphVars>>
      BY <1>6 DEF Settles
    <3> HIDE DEF a
    <3>4. f.req = slot[p][t].req /\ thr[p][x].brings # "request"
      <4>1. /\ f.req = IF thr[p][x].brings = "request" THEN thr[p][x].step ELSE slot[p][t].req
            /\ thr[p][x].step \in Nat
        BY <1>4, <1>5, FilledFacts, BroughtFacts
      <4> QED BY <2>2, <4>1
    <3>5. x[1] \notin {"run", "main"}
      BY <1>4, <3>4, BroughtFacts
    <3>6. SameWork(p, x, a)
      BY <3>5 DEF SameWork
    <3>7. UNCHANGED <<runVars, graphVars>>
      <4>1. runQueue \in [Parties -> SUBSET Stages] /\ runQueue' \in [Parties -> SUBSET Stages]
        BY <1>6 DEF Inv, Types, SharedTypes
      <4>2. \A q \in Parties : runQueue'[q] = runQueue[q]
        BY <3>2, <3>3
      <4>3. runQueue' = runQueue
        BY <4>1, <4>2
      <4> QED BY <3>3, <4>3 DEF runVars
    <3>8. \A q \in Parties : \A u \in Tasks : slot'[q][u].req = slot[q][u].req
      BY <3>2, <3>3, <3>4
    <3>9. Types /\ Graph(prog, place)
      BY DEF Inv
    <3>10. Graph(prog, place)'
      BY <1>6, <3>3, <3>6, <3>7, <3>8, <3>9, GraphSame
    <3> QED BY <3>1, <3>10
  <2> QED BY <2>1, <2>2
<1>8. PICK g, place2 : Graph(g, place2)' /\ Reaches(prog, g, p, t, f)
  BY <1>7
<1>9. \E msg2, pub2, priv2, chal2 : Data(g, msg2, pub2, priv2, chal2)'
  BY <1>4, <1>5, <1>6, <1>8, DataSettles
<1>10. PICK msg2, pub2, priv2, chal2 : Data(g, msg2, pub2, priv2, chal2)'
  BY <1>9
<1>11. Inv(g, place2, msg2, pub2, priv2, chal2)'
  BY <1>6, <1>8, <1>10 DEF Inv
<1> QED BY <1>11 DEF IInv

-----------------------------------------------------------------------------
(***************************************************************************)
(* The initial state.                                                      *)
(***************************************************************************)
LEMMA InitThreads ==
  ASSUME Init, NEW p \in Parties, NEW x \in Threads(p)
  PROVE  /\ thr[p][x] \in Records
         /\ x = Main => thr[p][x].pc = "todo" /\ thr[p][x].todo = LaunchOrder
         /\ x # Main => thr[p][x] = Idle
<1>1. thr[p][x] = IF x = Main THEN [Idle EXCEPT !.pc = "todo", !.todo = LaunchOrder] ELSE Idle
  BY DEF Init
<1> DEFINE r == [Idle EXCEPT !.pc = "todo", !.todo = LaunchOrder]
           w == LaunchOrder
<1>2. w \in Seq(Tasks)
  BY LaunchOrderFacts
<1>3. r = [Idle EXCEPT !.pc = "todo", !.todo = w]
  OBVIOUS
<1> HIDE DEF r, w
<1>4. r \in Records /\ r.pc = "todo" /\ r.todo = w
  BY <1>2, <1>3, IdleFacts DEF Records, Resting
<1> QED BY <1>1, <1>4, IdleFacts DEF r, w

LEMMA InitTypes ==
  ASSUME Init
  PROVE  Types /\ NoPanic
<1>1. \A p \in Parties : \A x \in Threads(p) : thr[p][x].pc \in {"idle", "todo"}
  BY InitThreads, IdleFacts
<1>2. ThreadTypes
  <2>1. DOMAIN thr = Parties /\ \A p \in Parties : DOMAIN thr[p] = Threads(p)
    BY DEF Init
  <2>2. \A p \in Parties : \A x \in Threads(p) :
          thr[p][x] \in Records /\ thr[p][x].pc \notin Working
    BY <1>1, InitThreads DEF Working
  <2> QED BY <2>1, <2>2 DEF ThreadTypes
<1>3. Shapes
  <2> SUFFICES ASSUME NEW p \in Parties, NEW x \in Threads(p)
               PROVE  Shape(p, x, thr[p][x])
    BY DEF Shapes
  <2>1. CASE x = Main
    <3>1. x[1] = "main" /\ thr[p][x].pc = "todo"
      BY <2>1, InitThreads, KindFacts
    <3> QED BY <3>1 DEF Shape, MainShape
  <2>2. CASE x # Main
    <3>1. x[1] # "main" /\ thr[p][x] = Idle
      BY <2>2, InitThreads, KindFacts
    <3> QED
      BY <3>1, IdleFacts DEF Shape, RunShape, DiskShape, OutShape, InShape, ChalShape
  <2> QED BY <2>1, <2>2
<1>4. SharedTypes
  <2>1. NoSlot(0) \in Slots
    BY DEF NoSlot, Slots
  <2>2. \A t \in Tasks : Len(Inputs[t]) \in Nat /\ Len(DependentsOf[t]) \in Int
    <3> SUFFICES ASSUME NEW t \in Tasks
                 PROVE  Len(Inputs[t]) \in Nat /\ Len(DependentsOf[t]) \in Int
      OBVIOUS
    <3>1. DependentsOf[t] \in Seq(Tasks)
      BY DependentsFacts
    <3> QED BY <3>1, InputsType
  <2>3. NumTasks \in Nat /\ OutCapacity \in Nat \ {0} /\ NumConns \in Nat \ {0}
    BY ManifestAssumption, RunnerAssumption
  <2>4. slot \in [Parties -> [Tasks -> Slots]]
    BY <2>1 DEF Init
  <2>5. deps \in [Parties -> [Tasks -> Nat]] /\ left \in [Parties -> [Tasks -> Int]]
    BY <2>2 DEF Init
  <2>6. /\ runQueue \in [Parties -> SUBSET Stages]
        /\ runOpen \in [Parties -> BOOLEAN]
        /\ held \in [Parties -> SUBSET Tasks]
        /\ remaining \in [Parties -> Nat]
        /\ noTasks \in [Parties -> BOOLEAN]
        /\ reads \in [Parties -> SUBSET ReadRequests]
        /\ readsOpen \in [Parties -> BOOLEAN]
        /\ DOMAIN cached = Parties
        /\ outOpen \in [Parties -> BOOLEAN]
        /\ panicked \in [Parties -> BOOLEAN]
    BY <2>3 DEF Init
  <2>7. outq \in [Parties -> Seq(Messages)] /\ \A p \in Parties : Len(outq[p]) <= OutCapacity
    <3>1. \A p \in Parties : outq[p] = <<>>
      BY DEF Init
    <3>2. <<>> \in Seq(Messages) /\ Len(<<>>) = 0
      OBVIOUS
    <3> QED BY <2>3, <3>1, <3>2 DEF Init
  <2>8. net \in [Parties -> [1 .. NumConns -> Seq(Messages)]]
        /\ chalq \in Seq(Tasks) /\ chalNet \in Seq(Tasks)
    BY DEF Init
  <2> QED BY <2>4, <2>5, <2>6, <2>7, <2>8 DEF SharedTypes
<1>5. NoPanic
  BY DEF Init, NoPanic
<1> QED BY <1>2, <1>3, <1>4, <1>5 DEF Types

LEMMA InitGraph ==
  ASSUME Init, NEW prog, \A p \in Parties : \A t \in Tasks : prog[p][t] = 0, NEW place
  PROVE  Graph(prog, place)
<1>1. \A p \in Parties : \A x \in Threads(p) : thr[p][x].pc \in {"idle", "todo"}
  BY InitThreads, IdleFacts
<1>2. Launched(prog, place)
  <2>1. \A p \in Parties : runQueue[p] = {} /\ \A t \in Tasks : slot[p][t].req = -1
    BY DEF Init, NoSlot
  <2> QED BY <1>1, <2>1 DEF Launched, StageAt
<1>3. \A p \in Parties : \A t \in Tasks : Done(p, t) \in Nat /\ Done(p, t) >= 5
  BY StageFacts DEF Done
<1>4. \A p \in Parties : thr[p][Main].todo = LaunchOrder /\ thr[p][Main].pc = "todo"
  BY InitThreads, KindFacts
<1>5. ASSUME NEW p \in Parties, NEW t \in Tasks
      PROVE  /\ deps[p][t] = Len(Inputs[t]) /\ left[p][t] = Len(DependentsOf[t])
             /\ held[p] = {} /\ remaining[p] = NumTasks
  BY DEF Init
<1>6. Conserved(prog)
  <2> SUFFICES ASSUME NEW p \in Parties, NEW t \in Tasks
               PROVE  deps[p][t] > 0 \/ InTodo(p, t)
    BY <1>3 DEF Conserved
  <2>1. CASE Inputs[t] = <<>>
    BY <1>4, <2>1, LaunchOrderFacts DEF InTodo
  <2>2. CASE Inputs[t] # <<>>
    <3>1. Len(Inputs[t]) > 0
      BY <2>2, InputsType
    <3> QED BY <1>5, <3>1
  <2> QED BY <2>1, <2>2
<1>7. Counts(prog)
  <2>1. ASSUME NEW p \in Parties, NEW t \in Tasks
        PROVE  /\ IsFiniteSet(Pending(p, t))
               /\ deps[p][t] = Cardinality(Waiting(prog, p, t)) + Cardinality(Pending(p, t))
               /\ deps[p][t] <= Len(Inputs[t])
               /\ left[p][t] = Cardinality(Untaken(prog, p, t))
               /\ t \in held[p] <=> prog[p][t] = Done(p, t) /\ left[p][t] > 0
    <3>1. Pending(p, t) = {}
      <4>1. \A x \in Runners(p) : thr[p][x].todo = <<>>
        BY InitThreads, IdleFacts, KindFacts
      <4> QED BY <4>1, OccursEmpty DEF Pending
    <3>2. Waiting(prog, p, t) = DOMAIN Inputs[t]
      <4>1. \A i \in DOMAIN Inputs[t] : Inputs[t][i] \in Tasks
        BY InputsType
      <4>2. \A i \in DOMAIN Inputs[t] : prog[p][Inputs[t][i]] < Done(p, Inputs[t][i])
        BY <1>3, <4>1
      <4> QED BY <4>2 DEF Waiting
    <3>3. Untaken(prog, p, t) = UsesOf(t)
      <4>1. \A ti \in UsesOf(t) : ti[1] \in Tasks
        BY UsesOrdered
      <4> QED BY <4>1 DEF Untaken
    <3>4. IsFiniteSet(Pending(p, t)) /\ Cardinality(Pending(p, t)) = 0
      BY <3>1, FS_EmptySet
    <3>5. Cardinality(Waiting(prog, p, t)) = Len(Inputs[t]) /\ Len(Inputs[t]) \in Nat
      BY <3>2, InputsType
    <3>6. Cardinality(Untaken(prog, p, t)) = Len(DependentsOf[t])
      BY <3>3, DependentsFacts
    <3>7. prog[p][t] # Done(p, t)
      BY <1>3
    <3> QED BY <1>5, <3>4, <3>5, <3>6, <3>7
  <2>2. ASSUME NEW p \in Parties
        PROVE  remaining[p] = Cardinality({t \in Tasks : prog[p][t] < Done(p, t)})
                                + Cardinality({x \in Runners(p) : Notifying(p, x)})
    <3>1. {t \in Tasks : prog[p][t] < Done(p, t)} = Tasks
      BY <1>3
    <3>2. {x \in Runners(p) : Notifying(p, x)} = {}
      BY InitThreads, IdleFacts, KindFacts DEF Notifying
    <3>3. remaining[p] = NumTasks /\ NumTasks \in Nat
      BY ManifestAssumption DEF Init
    <3>4. Cardinality({t \in Tasks : prog[p][t] < Done(p, t)}) = NumTasks
      BY <3>1, TasksFinite
    <3>5. Cardinality({x \in Runners(p) : Notifying(p, x)}) = 0
      BY <3>2, FS_EmptySet
    <3> QED BY <3>3, <3>4, <3>5
  <2>3. ASSUME NEW p \in Parties
        PROVE  \A i \in DOMAIN thr[p][Main].todo :
                 /\ Inputs[thr[p][Main].todo[i]] = <<>>
                 /\ \A j \in DOMAIN thr[p][Main].todo :
                      thr[p][Main].todo[i] = thr[p][Main].todo[j] => i = j
    BY <1>4, LaunchOrderFacts
  <2> QED BY <2>1, <2>2, <2>3 DEF Counts
<1>8. Closing
  <2>1. \A p \in Parties : ~noTasks[p] /\ runOpen[p]
    BY DEF Init
  <2> QED BY <1>4, <2>1 DEF Closing
<1> QED BY <1>2, <1>6, <1>7, <1>8 DEF Graph

LEMMA InitData ==
  ASSUME Init, NEW prog, \A p \in Parties : \A t \in Tasks : prog[p][t] = 0,
         NEW msg, NEW pub, NEW priv, NEW chal
  PROVE  Data(prog, msg, pub, priv, chal)
<1>1. \A p \in Parties : \A x \in Threads(p) : thr[p][x].pc \in {"idle", "todo"}
  BY InitThreads, IdleFacts
<1>2. \A p \in Parties : \A t \in Tasks :
        /\ ~slot[p][t].present /\ slot[p][t].req = -1 /\ ~slot[p][t].chal
        /\ slot[p][t].inc = -1 /\ ~slot[p][t].pub /\ ~slot[p][t].priv
  BY DEF Init, NoSlot
<1>3. /\ \A p \in Parties : reads[p] = {} /\ cached[p] = {} /\ outq[p] = <<>>
      /\ \A p \in Parties : \A c \in 1 .. NumConns : net[p][c] = <<>>
      /\ chalq = <<>> /\ chalNet = <<>>
  BY DEF Init
<1>4. SlotTable
  BY <1>1, <1>2 DEF SlotTable, Blank
<1>5. \A p \in Parties : \A x \in Threads(p) :
        ~Requests(p, x) /\ \A what : ~Brings(p, x, what)
  BY <1>1 DEF Requests, Brings
<1>6. PublicData(prog, pub) /\ PrivateData(prog, priv)
  BY <1>2, <1>3, <1>5 DEF PublicData, PrivateData
<1>7. "prover" \in Parties /\ "verifier" \in Parties
  BY DEF Parties
<1>8. Challenges(prog, chal)
  BY <1>2, <1>3, <1>5, <1>7, KindFacts DEF Challenges, NoTwice
<1>9. Flights(prog, msg)
  <2> SUFFICES ASSUME NEW p \in Parties PROVE SentBy(prog, msg, p)
    BY FlightsBySender
  <2>1. Peer(p) \in Parties
    BY Peers
  <2>2. \A x \in Outs : thr[p][x].pc # "write"
    BY <1>1, OutsAndIns
  <2>3. \A x \in Ins : thr[Peer(p)][x].pc \notin {"getslot", "update"}
    BY <1>1, <2>1, OutsAndIns
  <2>4. \A t \in Tasks : ~(slot[Peer(p)][t].inc >= 0)
    BY <1>2, <2>1
  <2>5. DOMAIN outq[p] = {} /\ \A c \in 1 .. NumConns : DOMAIN net[p][c] = {}
    BY <1>3
  <2> QED BY <2>2, <2>3, <2>4, <2>5 DEF SentBy
<1>10. Causal(prog)
  BY StageFacts DEF Causal
<1> QED BY <1>4, <1>6, <1>8, <1>9, <1>10 DEF Data

LEMMA InitHolds ==
  ASSUME Init
  PROVE  IInv
<1> DEFINE z == [p \in Parties |-> [t \in Tasks |-> 0]]
<1>1. \A p \in Parties : \A t \in Tasks : z[p][t] = 0
  OBVIOUS
<1> HIDE DEF z
<1>2. Types /\ NoPanic /\ Graph(z, z) /\ Data(z, z, z, z, z)
  BY <1>1, InitTypes, InitGraph, InitData
<1>3. Inv(z, z, z, z, z, z)
  BY <1>2 DEF Inv
<1> QED BY <1>3 DEF IInv

-----------------------------------------------------------------------------
(***************************************************************************)
(* Every step.                                                             *)
(***************************************************************************)
LEMMA StutterKeeps ==
  ASSUME NEW prog, NEW place, NEW msg, NEW pub, NEW priv, NEW chal,
         Inv(prog, place, msg, pub, priv, chal), UNCHANGED vars
  PROVE  Inv(prog, place, msg, pub, priv, chal)'
<1>1. UNCHANGED <<thr, runQueue, runOpen, slot, deps, left, held, remaining, noTasks, reads,
                  readsOpen, cached, outq, outOpen, net, chalq, chalNet, panicked>>
  BY DEF vars, runVars, graphVars, diskVars, outVars, chalVars, endVars
<1>2. Types' <=> Types
  BY <1>1 DEF Types, ThreadTypes, SharedTypes, Shapes
<1>3. NoPanic' <=> NoPanic
  BY <1>1 DEF NoPanic
<1>4. Launched(prog, place)' <=> Launched(prog, place)
  BY <1>1 DEF Launched
<1>5. Conserved(prog)' <=> Conserved(prog)
  BY <1>1 DEF Conserved, Carries, InTodo
<1>6. Counts(prog)' <=> Counts(prog)
  <2>1. \A p, t : Pending(p, t)' = Pending(p, t)
    BY <1>1 DEF Pending
  <2>2. \A p, x : Notifying(p, x)' <=> Notifying(p, x)
    BY <1>1 DEF Notifying
  <2>3. \A p : {x \in Runners(p) : Notifying(p, x)'} = {x \in Runners(p) : Notifying(p, x)}
    BY <2>2
  <2> QED BY <1>1, <2>1, <2>3, ZenonT(40) DEF Counts
<1>7. Closing' <=> Closing
  BY <1>1 DEF Closing
<1>8. SlotTable' <=> SlotTable
  BY <1>1 DEF SlotTable
<1>9. \A p, x : /\ Requests(p, x)' <=> Requests(p, x)
                /\ \A what : Brings(p, x, what)' <=> Brings(p, x, what)
  BY <1>1 DEF Requests, Brings
<1>10. PublicData(prog, pub)' <=> PublicData(prog, pub)
  BY <1>1, <1>9 DEF PublicData
<1>11. PrivateData(prog, priv)' <=> PrivateData(prog, priv)
  BY <1>1, <1>9 DEF PrivateData
<1>12. Challenges(prog, chal)' <=> Challenges(prog, chal)
  BY <1>1, <1>9 DEF Challenges
<1>13. Flights(prog, msg)' <=> Flights(prog, msg)
  BY <1>1 DEF Flights
<1>14. Causal(prog)' <=> Causal(prog)
  BY DEF Causal
<1>15. Graph(prog, place)' /\ Data(prog, msg, pub, priv, chal)'
  BY <1>4, <1>5, <1>6, <1>7, <1>8, <1>10, <1>11, <1>12, <1>13, <1>14 DEF Inv, Graph, Data
<1> QED BY <1>2, <1>3, <1>15 DEF Inv

LEMMA RunnerKeeps ==
  ASSUME NEW prog, NEW place, NEW msg, NEW pub, NEW priv, NEW chal,
         Inv(prog, place, msg, pub, priv, chal),
         NEW p \in Parties, NEW x \in Runners(p), RunnerStep(p, x)
  PROVE  IInv'
<1>1. x \in Threads(p) /\ x[1] = "run"
  BY KindFacts
<1>2. CASE TakeStage(p, x)
  BY <1>2, TakeStageKeeps
<1>3. CASE SendOutgoing(p, x)
  BY <1>3, SendOutgoingKeeps
<1>4. CASE NextStage(p, x)
  BY <1>4, NextStageKeeps
<1>5. CASE Finish(p, x)
  BY <1>5, FinishKeeps
<1>6. CASE NotifyDependent(p, x)
  BY <1>6, NotifyDependentKeeps
<1>7. CASE TaskDone(p, x)
  <2>1. Inv(prog, place, msg, pub, priv, chal)'
    BY <1>7, TaskDoneKeeps
  <2> QED BY <2>1 DEF IInv
<1>8. CASE Launch(p, x)
  BY <1>1, <1>8, LaunchKeeps
<1>9. CASE GetSlot(p, x)
  <2>1. Inv(prog, place, msg, pub, priv, chal)'
    BY <1>1, <1>9, GetSlotKeeps
  <2> QED BY <2>1 DEF IInv
<1>10. CASE UpdateSlot(p, x)
  BY <1>1, <1>10, UpdateSlotKeeps
<1>11. CASE Stop(p, x, runOpen[p])
  <2>1. PICK open : open = runOpen[p]
    OBVIOUS
  <2>2. Inv(prog, place, msg, pub, priv, chal)'
    BY <1>1, <1>11, <2>1, StopKeeps
  <2> QED BY <2>2 DEF IInv
<1> QED
  BY <1>2, <1>3, <1>4, <1>5, <1>6, <1>7, <1>8, <1>9, <1>10, <1>11 DEF RunnerStep

LEMMA MainKeeps ==
  ASSUME NEW prog, NEW place, NEW msg, NEW pub, NEW priv, NEW chal,
         Inv(prog, place, msg, pub, priv, chal), NEW p \in Parties, MainStep(p)
  PROVE  IInv'
<1>1. Main \in Threads(p) /\ Main[1] = "main"
  BY KindFacts
<1>2. CASE MainNext(p)
  BY <1>2, MainNextKeeps
<1>3. CASE Launch(p, Main)
  BY <1>1, <1>3, LaunchKeeps
<1>4. CASE UpdateSlot(p, Main)
  BY <1>1, <1>4, UpdateSlotKeeps
<1>5. CASE \/ GetSlot(p, Main) \/ MainWait(p) \/ Finalize(p) \/ CloseReads(p)
           \/ CloseOutgoing(p) \/ CloseChallenges \/ CloseRunQueue(p)
  <2>1. Inv(prog, place, msg, pub, priv, chal)'
    <3>1. CASE GetSlot(p, Main)
      BY <1>1, <3>1, GetSlotKeeps
    <3>2. CASE MainWait(p) \/ Finalize(p)
      BY <3>2, MainWaitKeeps
    <3>3. CASE CloseReads(p)
      BY <3>3, CloseReadsKeeps
    <3>4. CASE CloseOutgoing(p)
      BY <3>4, CloseOutgoingKeeps
    <3>5. CASE CloseChallenges
      BY <3>5, CloseChallengesKeeps
    <3>6. CASE CloseRunQueue(p)
      BY <3>6, CloseRunQueueKeeps
    <3> QED BY <1>5, <3>1, <3>2, <3>3, <3>4, <3>5, <3>6
  <2> QED BY <2>1 DEF IInv
<1> QED BY <1>2, <1>3, <1>4, <1>5 DEF MainStep

LEMMA NextKeeps ==
  ASSUME IInv, [Next]_vars
  PROVE  IInv'
<1>1. PICK prog, place, msg, pub, priv, chal : Inv(prog, place, msg, pub, priv, chal)
  BY DEF IInv
<1>2. CASE UNCHANGED vars
  <2>1. Inv(prog, place, msg, pub, priv, chal)'
    BY <1>1, <1>2, StutterKeeps
  <2> QED BY <2>1 DEF IInv
<1>3. ASSUME NEW p \in Parties, NEW x \in Runners(p), RunnerStep(p, x)
      PROVE  IInv'
  BY <1>1, <1>3, RunnerKeeps
<1>4. ASSUME NEW p \in Parties, MainStep(p)
      PROVE  IInv'
  BY <1>1, <1>4, MainKeeps
<1>5. ASSUME NEW p \in Parties, NEW x \in Threads(p), GetSlot(p, x) \/ UpdateSlot(p, x)
      PROVE  IInv'
  <2>1. CASE GetSlot(p, x)
    <3>1. Inv(prog, place, msg, pub, priv, chal)'
      BY <1>1, <2>1, GetSlotKeeps
    <3> QED BY <3>1 DEF IInv
  <2>2. CASE UpdateSlot(p, x)
    BY <1>1, <2>2, UpdateSlotKeeps
  <2> QED BY <1>5, <2>1, <2>2
<1>6. ASSUME NEW p \in Parties, NEW x \in Threads(p), x[1] \in {"disk", "out", "chal"},
             NEW open, Stop(p, x, open)
      PROVE  IInv'
  <2>1. Inv(prog, place, msg, pub, priv, chal)'
    BY <1>1, <1>6, StopKeeps
  <2> QED BY <2>1 DEF IInv
<1>7. ASSUME NEW p \in Parties, NEW x \in Disks, DiskStep(p, x)
      PROVE  IInv'
  <2>1. x \in Threads(p) /\ x[1] = "disk"
    BY KindFacts
  <2>2. CASE TakeRead(p, x)
    BY <1>1, <2>2, TakeReadKeeps
  <2>3. CASE ReadChunk(p, x)
    BY <1>1, <2>3, ReadChunkKeeps
  <2>4. CASE Stop(p, x, readsOpen[p])
    <3>1. PICK open : open = readsOpen[p]
      OBVIOUS
    <3> QED BY <1>6, <2>1, <2>4, <3>1
  <2> QED BY <1>5, <1>7, <2>1, <2>2, <2>3, <2>4 DEF DiskStep
<1>8. ASSUME NEW p \in Parties, NEW x \in Outs, OutStep(p, x)
      PROVE  IInv'
  <2>1. x \in Threads(p) /\ x[1] = "out"
    BY KindFacts
  <2>2. CASE TakeOutgoing(p, x)
    BY <1>1, <2>2, TakeOutgoingKeeps
  <2>3. CASE WriteOutgoing(p, x)
    BY <1>1, <2>3, WriteOutgoingKeeps
  <2>4. CASE Stop(p, x, outOpen[p])
    <3>1. PICK open : open = outOpen[p]
      OBVIOUS
    <3> QED BY <1>6, <2>1, <2>4, <3>1
  <2> QED BY <1>8, <2>2, <2>3, <2>4 DEF OutStep
<1>9. ASSUME NEW p \in Parties, NEW x \in Ins, InStep(p, x)
      PROVE  IInv'
  <2>1. x \in Threads(p)
    BY KindFacts
  <2>2. CASE ReadIncoming(p, x)
    BY <1>1, <2>2, ReadIncomingKeeps
  <2> QED BY <1>5, <1>9, <2>1, <2>2 DEF InStep
<1>10. ASSUME NEW p \in Parties, ChalStep(p)
       PROVE  IInv'
  <2>1. Chal \in Threads(p) /\ Chal[1] = "chal"
    BY KindFacts
  <2>2. CASE SendChallenge
    BY <1>1, <2>2, SendChallengeKeeps
  <2>3. CASE ReadChallenge
    BY <1>1, <2>3, ReadChallengeKeeps
  <2>4. CASE GetSlot(p, Chal) \/ UpdateSlot(p, Chal)
    BY <1>5, <2>1, <2>4
  <2>5. CASE Stop(p, Chal, IF p = "verifier" THEN chalOpen
                           ELSE ~At("verifier", Chal, "done") \/ chalNet # <<>>)
    <3> DEFINE goes == IF p = "verifier" THEN chalOpen
                       ELSE ~At("verifier", Chal, "done") \/ chalNet # <<>>
    <3>1. Stop(p, Chal, goes)
      BY <2>5
    <3> HIDE DEF goes
    <3>2. PICK open : open = goes
      OBVIOUS
    <3> QED BY <1>6, <2>1, <3>1, <3>2
  <2> QED BY <1>10, <2>2, <2>3, <2>4, <2>5 DEF ChalStep
<1> QED BY <1>2, <1>3, <1>4, <1>7, <1>8, <1>9, <1>10 DEF Next

-----------------------------------------------------------------------------
(***************************************************************************)
(* The theorems.                                                           *)
(***************************************************************************)

(* In every state of every run there are functions that say where each     *)
(* stage, message, challenge and read is and that make Inv true: what      *)
(* runner.rs and thread_pool_backend.rs keep in queues, slots and threads  *)
(* fits together at all times.                                             *)
THEOREM Inductive == Spec => []IInv
<1>1. Init => IInv
  BY InitHolds
<1>2. IInv /\ [Next]_vars => IInv'
  BY NextKeeps
<1> QED BY <1>1, <1>2, PTL DEF Spec

(* None of the asserts, expects and ensures of runner.rs and               *)
(* thread_pool_backend.rs fails, whatever the threads' order: no panic and *)
(* no error ends a party's process.                                        *)
THEOREM NoPanicTheorem == Spec => []NoPanic
<1>1. IInv => NoPanic
  BY DEF IInv, Inv
<1> QED BY <1>1, Inductive, PTL

(* The data that the run queue hands to a stage is that of the stage's own *)
(* round (maybe_launch_incoming takes the slot's content only when it      *)
(* answers this stage's request).                                          *)
THEOREM RightRoundTheorem == Spec => []RightRound
<1>1. IInv => RightRound
  <2> SUFFICES ASSUME IInv PROVE RightRound
    OBVIOUS
  <2>1. PICK prog, place, msg, pub, priv, chal : Inv(prog, place, msg, pub, priv, chal)
    BY DEF IInv
  <2>2. Launched(prog, place)
    BY <2>1 DEF Inv, Graph
  <2> QED BY <2>2 DEF Launched, RightRound
<1> QED BY <1>1, Inductive, PTL

-----------------------------------------------------------------------------
(***************************************************************************)
(* How far a task has come says where it is.                               *)
(***************************************************************************)
LEMMA PlacesOne ==
  ASSUME NEW prog, NEW place, NEW msg, NEW pub, NEW priv, NEW chal,
         Inv(prog, place, msg, pub, priv, chal), NEW p \in Parties, NEW t \in Tasks
  PROVE  /\ \E z : Places(p, t) \subseteq {z}
         /\ Places(p, t) # {} <=> prog[p][t] # 0 /\ prog[p][t] < Done(p, t)
<1>1. Launched(prog, place) /\ Conserved(prog) /\ ThreadTypes /\ SharedTypes
  BY DEF Inv, Graph, Types
<1>2. ASSUME NEW x \in Threads(p), Carries(p, x, t)
      PROVE  place[p][t] = OnThread(x) /\ prog[p][t] # 0 /\ prog[p][t] < Done(p, t)
  <2>1. thr[p][x].step \in Nat
    BY <1>1, RecordFacts
  <2>2. StageAt(prog, place, p, x, thr[p][x])
    BY <1>1 DEF Launched
  <2> QED BY <1>2, <2>1, <2>2 DEF Carries, StageAt, Stands
<1>3. ASSUME NEW e \in runQueue[p], e.task = t
      PROVE  place[p][t] = InRunQueue(e) /\ prog[p][t] # 0 /\ prog[p][t] < Done(p, t)
  <2>1. e.step \in Nat
    BY <1>1 DEF SharedTypes, Stages
  <2> QED BY <1>1, <1>3, <2>1 DEF Launched, Stands
<1>4. ASSUME slot[p][t].req >= 0
      PROVE  place[p][t] = InSlot /\ prog[p][t] # 0 /\ prog[p][t] < Done(p, t)
  <2>1. slot[p][t].req \in Nat
    BY <1>1, <1>4, SlotFacts
  <2> QED BY <1>1, <1>4, <2>1 DEF Launched, Stands
<1>5. \A z \in Places(p, t) :
        \/ \E x \in Threads(p) : Carries(p, x, t) /\ z = <<"thread", x>>
        \/ \E e \in runQueue[p] : e.task = t /\ z = <<"queue", e>>
        \/ slot[p][t].req >= 0 /\ z = <<"slot", t>>
  BY DEF Places
<1>6. \A y, z \in Places(p, t) : y = z
  BY <1>2, <1>3, <1>4, <1>5, PlaceFacts
<1>7. \E z : Places(p, t) \subseteq {z}
  BY <1>6
<1>8. Places(p, t) # {} => prog[p][t] # 0 /\ prog[p][t] < Done(p, t)
  BY <1>2, <1>3, <1>4, <1>5
<1>9. ASSUME prog[p][t] # 0, prog[p][t] < Done(p, t)
      PROVE  Places(p, t) # {}
  <2>1. \/ \E x \in Threads(p) : Carries(p, x, t)
        \/ \E e \in runQueue[p] : e.task = t
        \/ slot[p][t].req >= 0
    BY <1>1, <1>9 DEF Conserved
  <2>2. CASE \E x \in Threads(p) : Carries(p, x, t)
    BY <2>2 DEF Places
  <2>3. CASE \E e \in runQueue[p] : e.task = t
    BY <2>3 DEF Places
  <2>4. CASE slot[p][t].req >= 0
    BY <2>4 DEF Places
  <2> QED BY <2>1, <2>2, <2>3, <2>4
<1> QED BY <1>7, <1>8, <1>9

(* Not launched, with a stage somewhere, or ended. *)
LEMMA Classes ==
  ASSUME NEW prog, NEW place, NEW msg, NEW pub, NEW priv, NEW chal,
         Inv(prog, place, msg, pub, priv, chal), NEW p \in Parties, NEW t \in Tasks
  PROVE  /\ t \in Unlaunched(p) <=> prog[p][t] = 0
         /\ t \in Alive(p) <=> prog[p][t] # 0 /\ prog[p][t] < Done(p, t)
         /\ t \in Finished(p) <=> ~(prog[p][t] < Done(p, t))
<1>1. t \in Alive(p) <=> prog[p][t] # 0 /\ prog[p][t] < Done(p, t)
  BY PlacesOne DEF Alive
<1>2. t \in Unlaunched(p) <=> prog[p][t] = 0
  <2>1. prog[p][t] = 0 <=> deps[p][t] > 0 \/ InTodo(p, t)
    BY DEF Inv, Graph, Conserved
  <2>2. t \in ToSet(thr[p][Main].todo) <=> InTodo(p, t)
    BY DEF ToSet, InTodo
  <2> QED BY <2>1, <2>2 DEF Unlaunched
<1>3. Done(p, t) \in Nat /\ Done(p, t) >= 5
  BY DoneFacts DEF Inv, Graph
<1> QED BY <1>1, <1>2, <1>3 DEF Finished

(* All that a launched task needs has ended: the ended tasks and what      *)
(* each needs form a set that is closed under inputs.                      *)
LEMMA NeedsEnded ==
  ASSUME NEW prog, NEW place, NEW msg, NEW pub, NEW priv, NEW chal,
         Inv(prog, place, msg, pub, priv, chal), NEW p \in Parties, NEW t \in Tasks,
         prog[p][t] # 0
  PROVE  \A u \in Ancestors[t] : u \in Tasks /\ ~(prog[p][u] < Done(p, u))
<1>1. Conserved(prog) /\ Counts(prog) /\ SharedTypes
  BY DEF Inv, Graph, Types
<1> DEFINE S == {u \in Tasks : ~(prog[p][u] < Done(p, u))}
<1>2. ASSUME NEW v \in Tasks, prog[p][v] # 0
      PROVE  ToSet(Inputs[v]) \subseteq S
  <2>1. ~(deps[p][v] > 0)
    BY <1>1, <1>2 DEF Conserved
  <2>2. deps[p][v] = Cardinality(Waiting(prog, p, v)) + Cardinality(Pending(p, v))
        /\ IsFiniteSet(Pending(p, v))
    BY <1>1, CountsTask
  <2>3. Cardinality(Waiting(prog, p, v)) \in Nat /\ IsFiniteSet(Waiting(prog, p, v))
        /\ Cardinality(Pending(p, v)) \in Nat
    BY <2>2, CountedFinite, FS_CardinalityType
  <2>4. Cardinality(Waiting(prog, p, v)) = 0
    BY <2>1, <2>2, <2>3
  <2>5. Waiting(prog, p, v) = {}
    BY <2>3, <2>4, FS_EmptySet
  <2>6. \A i \in DOMAIN Inputs[v] : Inputs[v][i] \in Tasks
    BY InputsType
  <2> QED BY <2>5, <2>6 DEF Waiting, ToSet
<1>3. ToSet(Inputs[t]) \subseteq S
  BY <1>2
<1>4. ASSUME NEW v \in S PROVE ToSet(Inputs[v]) \subseteq S
  <2>1. prog[p][v] # 0
    <3>1. Done(p, v) \in Nat /\ Done(p, v) >= 5
      BY <1>1, DoneFacts
    <3> QED BY <3>1
  <2> QED BY <1>2, <2>1
<1>5. S \in SUBSET Tasks
  OBVIOUS
<1>6. Ancestors[t] \subseteq S
  <2> SUFFICES ASSUME NEW u \in Ancestors[t] PROVE u \in S
    OBVIOUS
  <2> HIDE DEF S
  <2>1. \A T \in SUBSET Tasks :
          ToSet(Inputs[t]) \subseteq T /\ (\A v \in T : ToSet(Inputs[v]) \subseteq T) => u \in T
    BY DEF Ancestors
  <2> QED BY <1>3, <1>4, <1>5, <2>1
<1> QED BY <1>6

(* A task's stage exists at a party only when every task it needs,         *)
(* directly or not, has ended there (the countdown of                      *)
(* remaining_dependencies in runner.rs), whatever the order in which the   *)
(* threads notify dependents.                                              *)
THEOREM DependenciesFirstTheorem == Spec => []DependenciesFirst
<1>1. IInv => DependenciesFirst
  <2> SUFFICES ASSUME IInv, NEW p \in Parties, NEW t \in Alive(p), NEW u \in Ancestors[t]
               PROVE  u \in Finished(p)
    BY DEF DependenciesFirst
  <2>1. PICK prog, place, msg, pub, priv, chal : Inv(prog, place, msg, pub, priv, chal)
    BY DEF IInv
  <2>2. t \in Tasks
    BY DEF Alive
  <2>3. prog[p][t] # 0
    BY <2>1, <2>2, Classes
  <2>4. u \in Tasks /\ ~(prog[p][u] < Done(p, u))
    BY <2>1, <2>2, <2>3, NeedsEnded
  <2> QED BY <2>1, <2>4, Classes
<1> QED BY <1>1, Inductive, PTL

LEMMA FewInOne ==
  ASSUME NEW S, NEW z, S \subseteq {z}
  PROVE  Cardinality(S) <= 1
<1>1. IsFiniteSet({z}) /\ Cardinality({z}) = 1
  BY FS_Singleton
<1>2. Cardinality(S) <= Cardinality({z}) /\ IsFiniteSet(S)
  BY <1>1, FS_Subset
<1> QED BY <1>1, <1>2, FS_CardinalityType

(* No stage is lost, duplicated or run twice on its way through slot       *)
(* table, run queue and threads, and num_tasks_remaining counts what has   *)
(* still to end or to notify.                                              *)
THEOREM StageConservedTheorem == Spec => []StageConserved
<1>1. IInv => StageConserved
  <2> SUFFICES ASSUME IInv, NEW p \in Parties
               PROVE  /\ \A t \in Tasks : Cardinality(Places(p, t)) <= 1
                      /\ Alive(p) \cap Unlaunched(p) = {}
                      /\ remaining[p] = Cardinality(Tasks \ Finished(p))
                           + Cardinality({x \in Runners(p) : Notifying(p, x)})
    BY DEF StageConserved
  <2>1. PICK prog, place, msg, pub, priv, chal : Inv(prog, place, msg, pub, priv, chal)
    BY DEF IInv
  <2>2. ASSUME NEW t \in Tasks PROVE Cardinality(Places(p, t)) <= 1
    <3>1. PICK z : Places(p, t) \subseteq {z}
      BY <2>1, PlacesOne
    <3> QED BY <3>1, FewInOne
  <2>3. \A t \in Alive(p) : t \notin Unlaunched(p)
    <3> SUFFICES ASSUME NEW t \in Alive(p) PROVE t \notin Unlaunched(p)
      OBVIOUS
    <3>1. t \in Tasks
      BY DEF Alive
    <3> QED BY <2>1, <3>1, Classes
  <2>4. Tasks \ Finished(p) = {t \in Tasks : prog[p][t] < Done(p, t)}
    <3>1. \A t \in Tasks : t \in Finished(p) <=> ~(prog[p][t] < Done(p, t))
      BY <2>1, Classes
    <3> QED BY <3>1
  <2>5. remaining[p] = Cardinality({t \in Tasks : prog[p][t] < Done(p, t)})
                         + Cardinality({x \in Runners(p) : Notifying(p, x)})
    <3>1. Counts(prog)
      BY <2>1 DEF Inv, Graph
    <3> QED BY <3>1, CountsFacts
  <2> QED BY <2>2, <2>3, <2>4, <2>5
<1> QED BY <1>1, Inductive, PTL

(* What update_incoming_slot leaves alone. *)
LEMMA UpdateRest ==
  ASSUME NEW p, NEW x, UpdateSlot(p, x)
  PROVE  \/ Panic(p, x)
         \/ Do(p, x, AfterUpdate(x, thr[p][x])) /\ UNCHANGED graphVars /\ UNCHANGED outVars
BY DEF UpdateSlot

(* Only the end of a task changes num_tasks_remaining. *)
LEMMA OthersKeepRemaining ==
  ASSUME [Next]_vars
  PROVE  UNCHANGED remaining \/ \E p \in Parties : \E x \in Runners(p) : TaskDone(p, x)
<1>1. CASE UNCHANGED vars
  BY <1>1 DEF vars, graphVars
<1>2. ASSUME NEW p, NEW x, Panic(p, x) PROVE UNCHANGED remaining
  BY <1>2 DEF Panic, graphVars
<1>3. ASSUME NEW p, NEW x, GetSlot(p, x) PROVE UNCHANGED remaining
  <2>1. UNCHANGED graphVars
    BY <1>3 DEF GetSlot
  <2> QED BY <2>1 DEF graphVars
<1>4. ASSUME NEW p, NEW x, UpdateSlot(p, x) PROVE UNCHANGED remaining
  <2>1. UNCHANGED graphVars \/ Panic(p, x)
    BY <1>4, UpdateRest
  <2> QED BY <1>2, <2>1 DEF graphVars
<1>5. ASSUME NEW p, NEW x, NEW open, Stop(p, x, open) PROVE UNCHANGED remaining
  BY <1>5 DEF Stop, graphVars
<1>6. ASSUME NEW p, NEW x, Launch(p, x) PROVE UNCHANGED remaining
  BY <1>2, <1>6 DEF Launch
<1>7. ASSUME NEW p \in Parties, NEW x \in Runners(p), RunnerStep(p, x)
      PROVE  UNCHANGED remaining \/ TaskDone(p, x)
  <2>1. CASE TakeStage(p, x)
    BY <1>2, <2>1 DEF TakeStage, graphVars
  <2>2. CASE SendOutgoing(p, x)
    BY <2>2 DEF SendOutgoing, graphVars
  <2>3. CASE NextStage(p, x)
    BY <1>2, <2>3 DEF NextStage, graphVars
  <2>4. CASE Finish(p, x)
    BY <1>2, <2>4 DEF Finish
  <2>5. CASE NotifyDependent(p, x)
    BY <1>2, <2>5 DEF NotifyDependent
  <2>6. CASE Stop(p, x, runOpen[p])
    BY <2>6 DEF Stop, graphVars
  <2> QED BY <1>3, <1>4, <1>6, <1>7, <2>1, <2>2, <2>3, <2>4, <2>5, <2>6 DEF RunnerStep
<1>8. ASSUME NEW p \in Parties, MainStep(p) PROVE UNCHANGED remaining
  <2>1. CASE MainNext(p)
    BY <2>1 DEF MainNext, graphVars
  <2>2. CASE MainWait(p)
    BY <2>2 DEF MainWait, graphVars
  <2>3. CASE CloseReads(p)
    BY <2>3 DEF CloseReads, graphVars
  <2>4. CASE CloseOutgoing(p)
    BY <2>4 DEF CloseOutgoing, graphVars
  <2>5. CASE CloseChallenges
    BY <2>5 DEF CloseChallenges, graphVars
  <2>6. CASE CloseRunQueue(p)
    BY <2>6 DEF CloseRunQueue, graphVars
  <2>7. CASE Finalize(p)
    BY <2>7 DEF Finalize, graphVars
  <2> QED BY <1>3, <1>4, <1>6, <1>8, <2>1, <2>2, <2>3, <2>4, <2>5, <2>6, <2>7 DEF MainStep
<1>9. ASSUME NEW p \in Parties, NEW x, DiskStep(p, x) \/ OutStep(p, x) \/ InStep(p, x)
      PROVE  UNCHANGED remaining
  <2>1. CASE TakeRead(p, x)
    BY <2>1 DEF TakeRead, graphVars
  <2>2. CASE ReadChunk(p, x)
    BY <2>2 DEF ReadChunk, graphVars
  <2>3. CASE TakeOutgoing(p, x)
    BY <2>3 DEF TakeOutgoing, graphVars
  <2>4. CASE WriteOutgoing(p, x)
    BY <2>4 DEF WriteOutgoing, graphVars
  <2>5. CASE ReadIncoming(p, x)
    BY <2>5 DEF ReadIncoming, graphVars
  <2>6. CASE Stop(p, x, readsOpen[p]) \/ Stop(p, x, outOpen[p])
    BY <2>6 DEF Stop, graphVars
  <2> QED BY <1>3, <1>4, <1>9, <2>1, <2>2, <2>3, <2>4, <2>5, <2>6 DEF DiskStep, OutStep, InStep
<1>10. ASSUME NEW p \in Parties, ChalStep(p) PROVE UNCHANGED remaining
  <2>1. CASE SendChallenge
    BY <2>1 DEF SendChallenge, graphVars
  <2>2. CASE ReadChallenge
    BY <2>2 DEF ReadChallenge, graphVars
  <2>3. CASE Stop(p, Chal, IF p = "verifier" THEN chalOpen
                           ELSE ~At("verifier", Chal, "done") \/ chalNet # <<>>)
    BY <2>3 DEF Stop, graphVars
  <2> QED BY <1>3, <1>4, <1>10, <2>1, <2>2, <2>3 DEF ChalStep
<1> QED BY <1>1, <1>7, <1>8, <1>9, <1>10 DEF Next

AtMostAll == \A p \in Parties : remaining[p] <= NumTasks

LEMMA RemainingBounded ==
  ASSUME IInv, AtMostAll, [Next]_vars
  PROVE  AtMostAll'
<1>1. PICK prog, place, msg, pub, priv, chal : Inv(prog, place, msg, pub, priv, chal)
  BY DEF IInv
<1>2. remaining \in [Parties -> Nat] /\ NumTasks \in Nat
  BY <1>1, ManifestAssumption DEF Inv, Types, SharedTypes
<1>3. CASE UNCHANGED remaining
  BY <1>3 DEF AtMostAll
<1>4. ASSUME NEW p \in Parties, NEW x \in Runners(p), TaskDone(p, x)
      PROVE  AtMostAll'
  <2>1. \/ remaining' = remaining
        \/ remaining' = [remaining EXCEPT ![p] = @ - 1]
    BY <1>4 DEF TaskDone, Panic, graphVars
  <2> QED BY <1>2, <2>1 DEF AtMostAll
<1> QED BY <1>3, <1>4, OthersKeepRemaining

(* Every count stays in its range, whatever the threads' order: the        *)
(* dependency and use counts between 0 and what the circuit says, the      *)
(* steps of a slot's request below those expected, the queue of outgoing   *)
(* data below its capacity; and only the prover reads private data.        *)
THEOREM TypeOKTheorem == Spec => []TypeOK
<1>1. IInv /\ AtMostAll => TypeOK
  <2> SUFFICES ASSUME IInv, AtMostAll, NEW p \in Parties
               PROVE  /\ runQueue[p] \subseteq Stages
                      /\ \A t \in Tasks : /\ deps[p][t] \in 0 .. Len(Inputs[t])
                                          /\ left[p][t] \in 0 .. Len(DependentsOf[t])
                                          /\ slot[p][t].req \in -1 .. ExpectedSteps(p, t) - 1
                      /\ held[p] \subseteq {t \in Tasks : left[p][t] > 0}
                      /\ remaining[p] \in 0 .. NumTasks
                      /\ Len(outq[p]) <= OutCapacity
                      /\ ToSet(outq[p]) \subseteq Messages
                      /\ \A m \in reads[p] : m.kind = "private" => p = "prover"
    BY DEF TypeOK
  <2>1. PICK prog, place, msg, pub, priv, chal : Inv(prog, place, msg, pub, priv, chal)
    BY DEF IInv
  <2>2. SharedTypes /\ Counts(prog) /\ Launched(prog, place) /\ PrivateData(prog, priv)
    BY <2>1 DEF Inv, Types, Graph, Data
  <2>3. ASSUME NEW t \in Tasks
        PROVE  /\ deps[p][t] \in 0 .. Len(Inputs[t])
               /\ left[p][t] \in 0 .. Len(DependentsOf[t])
               /\ slot[p][t].req \in -1 .. ExpectedSteps(p, t) - 1
    <3>1. deps[p][t] \in 0 .. Len(Inputs[t])
      <4>1. deps[p][t] <= Len(Inputs[t])
        BY <2>2, CountsTask
      <4>2. deps[p][t] \in Nat /\ Len(Inputs[t]) \in Nat
        BY <2>2, InputsType DEF SharedTypes
      <4> QED BY <4>1, <4>2
    <3>2. left[p][t] \in 0 .. Len(DependentsOf[t])
      <4>1. left[p][t] = Cardinality(Untaken(prog, p, t))
        BY <2>2, CountsTask
      <4>2. Untaken(prog, p, t) \subseteq UsesOf(t)
        BY DEF Untaken
      <4>3. IsFiniteSet(UsesOf(t)) /\ Cardinality(UsesOf(t)) \in Nat
        BY UsesOrdered
      <4>4. Cardinality(Untaken(prog, p, t)) <= Cardinality(UsesOf(t))
        BY <4>2, <4>3, FS_Subset
      <4>5. Cardinality(Untaken(prog, p, t)) \in Nat
        BY CountedFinite
      <4>6. Len(DependentsOf[t]) = Cardinality(UsesOf(t))
        BY DependentsFacts
      <4> QED BY <4>1, <4>3, <4>4, <4>5, <4>6
    <3>3. slot[p][t].req \in -1 .. ExpectedSteps(p, t) - 1
      <4>1. PICK k : k = slot[p][t].req
        OBVIOUS
      <4>2. k \in Nat \cup {-1} /\ ExpectedSteps(p, t) \in Nat \ {0}
        BY <2>2, <4>1, SlotFacts, StageFacts
      <4>3. k >= 0 => 3 * k + 2 < 3 * ExpectedSteps(p, t) + 2
        BY <2>2, <4>1 DEF Launched, Stands, Done
      <4>4. k \in -1 .. ExpectedSteps(p, t) - 1
        BY <4>2, <4>3
      <4> QED BY <4>1, <4>4
    <3> QED BY <3>1, <3>2, <3>3
  <2>4. held[p] \subseteq {t \in Tasks : left[p][t] > 0}
    <3>1. held[p] \subseteq Tasks
      BY <2>2 DEF SharedTypes
    <3>2. ASSUME NEW t \in held[p] PROVE left[p][t] > 0
      <4>1. t \in Tasks
        BY <3>1
      <4> QED BY <2>2, <4>1, CountsTask
    <3> QED BY <3>1, <3>2
  <2>5. \A m \in reads[p] : m.kind = "private" => p = "prover"
    BY <2>2 DEF PrivateData, PrivateAt
  <2>6. ToSet(outq[p]) \subseteq Messages /\ Len(outq[p]) <= OutCapacity
    <3>1. outq[p] \in Seq(Messages)
      BY <2>2 DEF SharedTypes
    <3>2. \A i \in DOMAIN outq[p] : outq[p][i] \in Messages
      BY <3>1
    <3> QED BY <2>2, <3>2 DEF ToSet, SharedTypes
  <2>7. remaining[p] \in 0 .. NumTasks /\ runQueue[p] \subseteq Stages
    BY <2>2, ManifestAssumption DEF SharedTypes, AtMostAll
  <2> QED BY <2>3, <2>4, <2>5, <2>6, <2>7
<1>2. Init => AtMostAll
  BY ManifestAssumption DEF Init, AtMostAll
<1>3. IInv /\ AtMostAll /\ [Next]_vars => AtMostAll'
  BY RemainingBounded
<1>4. Spec => []AtMostAll
  BY <1>2, <1>3, Inductive, PTL DEF Spec
<1> QED BY <1>1, <1>4, Inductive, PTL

-----------------------------------------------------------------------------
(***************************************************************************)
(* Messages under way.                                                     *)
(***************************************************************************)
Queueing(p, t) == {i \in DOMAIN outq[p] : outq[p][i].task = t}
Writing(p, t) == {x \in Outs : thr[p][x].pc \in {"write"} /\ thr[p][x].task = t}
Travelling(p, t) ==
  {c \in UNION {{d} \X DOMAIN net[p][d] : d \in 1 .. NumConns} : net[p][c[1]][c[2]].task = t}
Arriving(q, t) == {x \in Ins : thr[q][x].pc \in {"getslot", "update"} /\ thr[q][x].task = t}
InSlots(q, t) == IF slot[q][t].inc >= 0 THEN 1 ELSE 0

LEMMA UndeliveredSum ==
  ASSUME NEW p, NEW t
  PROVE  Undelivered(p, t) = Cardinality(Queueing(p, t)) + Cardinality(Writing(p, t))
                               + Cardinality(Travelling(p, t)) + Cardinality(Arriving(Peer(p), t))
                               + InSlots(Peer(p), t)
BY DEF Undelivered, Queueing, Writing, Travelling, Arriving, InSlots

(* Where a message is said to be, it is the only one of its task.          *)
LEMMA Whereabouts ==
  ASSUME NEW prog, NEW place, NEW msg, NEW pub, NEW priv, NEW chal,
         Inv(prog, place, msg, pub, priv, chal), NEW p \in Parties, NEW t \in Tasks
  PROVE  LET q == Peer(p)
             there(where) == msg[p][t] = where /\ prog[q][t] < Done(q, t)
         IN  /\ \A i \in Queueing(p, t) : there(InQueue)
             /\ \A x \in Writing(p, t) : there(OnThread(x)) /\ x[1] = "out"
             /\ \A c \in Travelling(p, t) : there(OnNet(c[1]))
             /\ \A x \in Arriving(q, t) : there(OnThread(x)) /\ x[1] = "in"
             /\ slot[q][t].inc >= 0 => there(InSlot)
             /\ \A i, j \in Queueing(p, t) : i = j
             /\ \A c, d \in Travelling(p, t) : c[1] = d[1] => c = d
<1> DEFINE q == Peer(p)
<1>1. Flights(prog, msg) /\ SharedTypes /\ ThreadTypes /\ Conserved(prog) /\ q \in Parties
  BY Peers DEF Inv, Types, Graph, Data
<1>2. ASSUME NEW k \in Nat, NEW where, UnderWay(prog, msg, p, t, k, where)
      PROVE  msg[p][t] = where /\ prog[q][t] < Done(q, t)
  <2> DEFINE s == StageFor(q, t, k)
  <2>1. Outgoing(p, t, k) /\ msg[p][t] = where /\ prog[q][t] < 3 * s + 3
    BY <1>2 DEF UnderWay
  <2>2. s \in Nat /\ s < ExpectedSteps(q, t) /\ ExpectedSteps(q, t) \in Nat
    BY <2>1, <1>1, MessageFacts, StageFacts
  <2>3. prog[q][t] \in Nat
    BY <1>1, DoneFacts DEF Numbers
  <2> HIDE DEF s
  <2>4. prog[q][t] < 3 * ExpectedSteps(q, t) + 2
    BY <2>1, <2>2, <2>3
  <2> QED BY <2>1, <2>4 DEF Done
<1>3. ASSUME NEW i \in Queueing(p, t)
      PROVE  msg[p][t] = InQueue /\ prog[q][t] < Done(q, t)
  <2>1. i \in DOMAIN outq[p] /\ outq[p][i].task = t
    BY DEF Queueing
  <2>2. outq[p][i] \in Messages
    BY <1>1, <2>1 DEF SharedTypes
  <2>3. outq[p][i].round \in Nat
    BY <2>2 DEF Messages
  <2> QED BY <1>1, <1>2, <2>1, <2>3 DEF Flights
<1>4. ASSUME NEW x \in Writing(p, t)
      PROVE  msg[p][t] = OnThread(x) /\ prog[q][t] < Done(q, t) /\ x[1] = "out"
  <2>1. x \in Outs /\ thr[p][x].pc = "write" /\ thr[p][x].task = t
    BY DEF Writing
  <2>2. x \in Threads(p) /\ x[1] = "out"
    BY <2>1, KindFacts
  <2>3. thr[p][x].step \in Nat
    BY <1>1, <2>2, RecordFacts
  <2>4. UnderWay(prog, msg, p, t, thr[p][x].step, OnThread(x))
    BY <1>1, <2>1 DEF Flights
  <2> QED BY <1>2, <2>2, <2>3, <2>4
<1>5. ASSUME NEW c \in Travelling(p, t)
      PROVE  /\ msg[p][t] = OnNet(c[1]) /\ prog[q][t] < Done(q, t)
             /\ c[1] \in 1 .. NumConns /\ c[2] \in DOMAIN net[p][c[1]]
             /\ net[p][c[1]][c[2]].task = t /\ c = <<c[1], c[2]>>
  <2>1. PICK d \in 1 .. NumConns : c \in {d} \X DOMAIN net[p][d]
    BY DEF Travelling
  <2>2. /\ c[1] \in 1 .. NumConns /\ c[2] \in DOMAIN net[p][c[1]]
        /\ net[p][c[1]][c[2]].task = t /\ c = <<c[1], c[2]>>
    BY <2>1 DEF Travelling
  <2>3. PICK i \in DOMAIN net[p][c[1]], e \in 1 .. NumConns : i = c[2] /\ e = c[1]
    BY <2>2
  <2>4. net[p][e] \in Seq(Messages) /\ i \in DOMAIN net[p][e]
    BY <1>1, <2>3 DEF SharedTypes
  <2>5. net[p][e][i] \in Messages
    BY <2>4
  <2>6. net[p][e][i].round \in Nat
    BY <2>5 DEF Messages
  <2>7. UnderWay(prog, msg, p, t, net[p][e][i].round, OnNet(e))
    BY <1>1, <2>2, <2>3, <2>4 DEF Flights
  <2>8. msg[p][t] = OnNet(e) /\ prog[q][t] < Done(q, t)
    BY <1>2, <2>6, <2>7
  <2> QED BY <2>2, <2>3, <2>8
<1>6. ASSUME NEW x \in Arriving(q, t)
      PROVE  msg[p][t] = OnThread(x) /\ prog[q][t] < Done(q, t) /\ x[1] = "in"
  <2>1. x \in Ins /\ thr[q][x].pc \in {"getslot", "update"} /\ thr[q][x].task = t
    BY DEF Arriving
  <2>2. x \in Threads(q) /\ x[1] = "in"
    BY <1>1, <2>1, KindFacts
  <2>3. thr[q][x].step \in Nat
    BY <1>1, <2>2, RecordFacts
  <2>4. UnderWay(prog, msg, p, t, thr[q][x].step, OnThread(x))
    BY <1>1, <2>1 DEF Flights
  <2> QED BY <1>2, <2>2, <2>3, <2>4
<1>7. ASSUME slot[q][t].inc >= 0
      PROVE  msg[p][t] = InSlot /\ prog[q][t] < Done(q, t)
  <2>1. PICK k : k = slot[q][t].inc
    OBVIOUS
  <2>2. k \in Nat
    <3>1. k \in Nat \cup {-1}
      BY <1>1, <2>1, SlotFacts
    <3> QED BY <1>7, <2>1, <3>1
  <2>3. UnderWay(prog, msg, p, t, k, InSlot)
    BY <1>1, <1>7, <2>1 DEF Flights
  <2> QED BY <1>2, <2>2, <2>3
<1>8. \A i, j \in Queueing(p, t) : i = j
  BY <1>1 DEF Flights, Queueing
<1>9. ASSUME NEW c \in Travelling(p, t), NEW d \in Travelling(p, t), c[1] = d[1]
      PROVE  c = d
  <2>1. c[2] = d[2]
    BY <1>1, <1>5, <1>9 DEF Flights
  <2> QED BY <1>5, <1>9, <2>1
<1> QED BY <1>3, <1>4, <1>5, <1>6, <1>7, <1>8, <1>9

LEMMA OneOrNone ==
  ASSUME NEW S, \A x, y \in S : x = y
  PROVE  /\ Cardinality(S) = IF S = {} THEN 0 ELSE 1
         /\ Cardinality(S) \in {0, 1}
<1>1. CASE S = {}
  BY <1>1, FS_EmptySet
<1>2. CASE S # {}
  <2>1. PICK x : S = {x}
    BY <1>2
  <2> QED BY <1>2, <2>1, FS_Singleton
<1> QED BY <1>1, <1>2

(* The two parties work on a task in lockstep: the messages of two of its  *)
(* rounds are never under way in the same direction, so that the unordered *)
(* connections and incoming threads cannot swap them.                      *)
THEOREM LockstepTheorem == Spec => []Lockstep
<1>1. IInv => Lockstep
  <2> SUFFICES ASSUME IInv, NEW p \in Parties, NEW t \in Tasks
               PROVE  Undelivered(p, t) <= 1
    BY DEF Lockstep
  <2>1. PICK prog, place, msg, pub, priv, chal : Inv(prog, place, msg, pub, priv, chal)
    BY DEF IInv
  <2> DEFINE q == Peer(p)
             a == Cardinality(Queueing(p, t))
             b == Cardinality(Writing(p, t))
             c == Cardinality(Travelling(p, t))
             d == Cardinality(Arriving(q, t))
             e == InSlots(q, t)
  <2>2. a \in {0, 1} /\ (a = 1 => msg[p][t] = InQueue)
    <3>1. \A i, j \in Queueing(p, t) : i = j
      BY <2>1, Whereabouts
    <3>2. \A i \in Queueing(p, t) : msg[p][t] = InQueue
      BY <2>1, Whereabouts
    <3>3. a \in {0, 1} /\ a = IF Queueing(p, t) = {} THEN 0 ELSE 1
      BY <3>1, OneOrNone
    <3> QED BY <3>2, <3>3
  <2>3. b \in {0, 1} /\ (b = 1 => \E x : msg[p][t] = OnThread(x) /\ x[1] = "out")
    <3>1. \A x \in Writing(p, t) : msg[p][t] = OnThread(x) /\ x[1] = "out"
      BY <2>1, Whereabouts
    <3>2. \A x, y \in Writing(p, t) : x = y
      BY <3>1, PlaceFacts
    <3>3. b \in {0, 1} /\ b = IF Writing(p, t) = {} THEN 0 ELSE 1
      BY <3>2, OneOrNone
    <3> QED BY <3>1, <3>3
  <2>4. c \in {0, 1} /\ (c = 1 => \E n : msg[p][t] = OnNet(n))
    <3>1. \A y \in Travelling(p, t) : msg[p][t] = OnNet(y[1])
      BY <2>1, Whereabouts
    <3>2. \A y, z \in Travelling(p, t) : y[1] = z[1] => y = z
      BY <2>1, Whereabouts
    <3>3. \A y, z \in Travelling(p, t) : y = z
      BY <3>1, <3>2, PlaceFacts
    <3>4. c \in {0, 1} /\ c = IF Travelling(p, t) = {} THEN 0 ELSE 1
      BY <3>3, OneOrNone
    <3> QED BY <3>1, <3>4
  <2>5. d \in {0, 1} /\ (d = 1 => \E x : msg[p][t] = OnThread(x) /\ x[1] = "in")
    <3>1. \A x \in Arriving(q, t) : msg[p][t] = OnThread(x) /\ x[1] = "in"
      BY <2>1, Whereabouts
    <3>2. \A x, y \in Arriving(q, t) : x = y
      BY <3>1, PlaceFacts
    <3>3. d \in {0, 1} /\ d = IF Arriving(q, t) = {} THEN 0 ELSE 1
      BY <3>2, OneOrNone
    <3> QED BY <3>1, <3>3
  <2>6. e \in {0, 1} /\ (e = 1 => msg[p][t] = InSlot)
    <3>1. slot[q][t].inc >= 0 => msg[p][t] = InSlot
      BY <2>1, Whereabouts
    <3> QED BY <3>1 DEF InSlots
  <2>7. Undelivered(p, t) = a + b + c + d + e
    BY UndeliveredSum
  <2> HIDE DEF a, b, c, d, e
  <2>8. /\ ~(a = 1 /\ (b = 1 \/ c = 1 \/ d = 1 \/ e = 1))
        /\ ~(e = 1 /\ (b = 1 \/ c = 1 \/ d = 1))
    BY <2>2, <2>3, <2>4, <2>5, <2>6, PlaceFacts
  <2>9. ~(c = 1 /\ (b = 1 \/ d = 1))
    BY <2>3, <2>4, <2>5, PlaceFacts
  <2>10. ~(b = 1 /\ d = 1)
    <3>1. \A x, y : x[1] = "out" /\ y[1] = "in" => x # y
      OBVIOUS
    <3> QED BY <2>3, <2>5, <3>1, PlaceFacts
  <2> QED BY <2>2, <2>3, <2>4, <2>5, <2>6, <2>7, <2>8, <2>9, <2>10
<1> QED BY <1>1, Inductive, PTL

(* Nothing is under way to a party that has ended the task. *)
LEMMA NoneUndelivered ==
  ASSUME NEW prog, NEW place, NEW msg, NEW pub, NEW priv, NEW chal,
         Inv(prog, place, msg, pub, priv, chal), NEW p \in Parties, NEW t \in Tasks,
         ~(prog[Peer(p)][t] < Done(Peer(p), t))
  PROVE  Undelivered(p, t) = 0
<1>1. /\ \A i \in Queueing(p, t) : FALSE
      /\ \A x \in Writing(p, t) : FALSE
      /\ \A c \in Travelling(p, t) : FALSE
      /\ \A x \in Arriving(Peer(p), t) : FALSE
      /\ ~(slot[Peer(p)][t].inc >= 0)
  BY Whereabouts
<1>2. /\ Queueing(p, t) = {} /\ Writing(p, t) = {} /\ Travelling(p, t) = {}
      /\ Arriving(Peer(p), t) = {} /\ InSlots(Peer(p), t) = 0
  BY <1>1 DEF InSlots
<1> QED BY <1>2, UndeliveredSum, FS_EmptySet

(* The prover cannot know a task's challenge before the verifier has ended *)
(* every task that it depends on, and with it received all that the prover *)
(* has to say about them.                                                  *)
THEOREM CommittedBeforeChallengeTheorem == Spec => []CommittedBeforeChallenge
<1>1. IInv => CommittedBeforeChallenge
  <2> SUFFICES ASSUME IInv, NEW t \in Drawn, NEW u \in Ancestors[t]
               PROVE  u \in Finished("verifier") /\ Undelivered("prover", u) = 0
    BY DEF CommittedBeforeChallenge
  <2>1. PICK prog, place, msg, pub, priv, chal : Inv(prog, place, msg, pub, priv, chal)
    BY DEF IInv
  <2>2. Challenges(prog, chal)
    BY <2>1 DEF Inv, Data
  <2>3. \E where : ChallengeAt(prog, chal, t, where)
    <3>1. CASE t \in ToSet(chalq)
      BY <2>2, <3>1 DEF Challenges, ToSet
    <3>2. CASE t \in ToSet(chalNet)
      BY <2>2, <3>2 DEF Challenges, ToSet
    <3>3. CASE t \in Tasks /\ slot["prover"][t].chal
      BY <2>2, <3>3 DEF Challenges
    <3> QED BY <3>1, <3>2, <3>3 DEF Drawn
  <2>4. t \in Tasks /\ prog["verifier"][t] >= 2
    BY <2>3, ManifestAssumption DEF ChallengeAt
  <2>5. "verifier" \in Parties /\ "prover" \in Parties /\ Peer("prover") = "verifier"
    BY DEF Parties, Peer
  <2>6. prog["verifier"][t] # 0
    <3>1. prog["verifier"][t] \in Nat
      BY <2>1, <2>4, <2>5, DoneFacts DEF Inv, Graph, Numbers
    <3> QED BY <2>4, <3>1
  <2>7. u \in Tasks /\ ~(prog["verifier"][u] < Done("verifier", u))
    BY <2>1, <2>4, <2>5, <2>6, NeedsEnded
  <2>8. u \in Finished("verifier")
    BY <2>1, <2>5, <2>7, Classes
  <2>9. Undelivered("prover", u) = 0
    BY <2>1, <2>5, <2>7, NoneUndelivered
  <2> QED BY <2>8, <2>9
<1> QED BY <1>1, Inductive, PTL

-----------------------------------------------------------------------------
(* A thread at a slot works for a task that has not ended at its party.    *)
LEMMA WorksForLive ==
  ASSUME NEW prog, NEW place, NEW msg, NEW pub, NEW priv, NEW chal,
         Inv(prog, place, msg, pub, priv, chal), NEW p \in Parties, NEW x \in Threads(p),
         thr[p][x].pc \in {"read", "getslot", "update", "send", "blocked", "result"}
  PROVE  LET t == thr[p][x].task IN t \in Tasks /\ prog[p][t] < Done(p, t)
<1> DEFINE r == thr[p][x]
           t == r.task
<1>1. ThreadTypes /\ Shape(p, x, r) /\ StageAt(prog, place, p, x, r) /\ Conserved(prog)
      /\ PublicData(prog, pub) /\ PrivateData(prog, priv) /\ Challenges(prog, chal)
  BY DEF Inv, Types, Shapes, Graph, Launched, Data
<1>2. t \in Tasks
  BY <1>1, RecordFacts DEF Working
<1>3. Done(p, t) \in Nat /\ Done(p, t) >= 5
  BY <1>1, <1>2, DoneFacts
<1>4. CASE x[1] \in {"run", "main"}
  <2>1. \/ r.pc \in {"send", "blocked", "result"}
        \/ r.pc \in {"getslot", "update"} /\ r.brings = "request"
    <3>1. CASE x[1] = "run"
      <4>1. RunShape(r)
        BY <1>1, <3>1 DEF Shape
      <4> QED BY <4>1 DEF RunShape
    <3>2. CASE x[1] = "main"
      <4>1. MainShape(r)
        BY <1>1, <3>2 DEF Shape
      <4> QED BY <4>1 DEF MainShape
    <3> QED BY <1>4, <3>1, <3>2
  <2> QED BY <1>1, <1>2, <2>1 DEF StageAt, Stands
<1>5. CASE x[1] = "disk"
  <2>1. Brings(p, x, "public") \/ Brings(p, x, "private")
    BY <1>1, <1>5 DEF Shape, DiskShape, Brings
  <2>2. prog[p][t] = 2
    BY <1>1, <2>1 DEF PublicData, PrivateData, PublicAt, PrivateAt
  <2> QED BY <1>2, <1>3, <2>2
<1>6. CASE x[1] = "in"
  <2>1. x \in Ins /\ r.pc \in {"getslot", "update"}
    BY <1>1, <1>6, KindFacts DEF Shape, InShape
  <2>2. PICK q \in Parties : q = Peer(p) /\ Peer(q) = p
    BY Peers
  <2>3. x \in Arriving(Peer(q), t)
    BY <2>1, <2>2 DEF Arriving
  <2>4. prog[Peer(q)][t] < Done(Peer(q), t)
    BY <1>2, <2>3, Whereabouts
  <2> QED BY <1>2, <2>2, <2>4
<1>7. CASE x[1] = "chal"
  <2>1. p = "prover" /\ x = Chal /\ Brings("prover", Chal, "challenge")
    BY <1>1, <1>7, KindFacts DEF Shape, ChalShape, Brings
  <2>2. prog[p][t] <= 2
    BY <1>1, <2>1 DEF Challenges, ChallengeAt
  <2>3. prog[p][t] \in Nat
    BY <1>1, <1>2, DoneFacts DEF Numbers
  <2> QED BY <1>2, <1>3, <2>2, <2>3
<1>8. CASE x[1] = "out"
  BY <1>1, <1>8 DEF Shape, OutShape
<1> QED BY <1>4, <1>5, <1>6, <1>7, <1>8, KindFacts

(* A slot in the table is that of a task that has not ended.               *)
LEMMA PresentForLive ==
  ASSUME NEW prog, NEW place, NEW msg, NEW pub, NEW priv, NEW chal,
         Inv(prog, place, msg, pub, priv, chal), NEW p \in Parties, NEW t \in Tasks,
         slot[p][t].present
  PROVE  prog[p][t] < Done(p, t)
<1> DEFINE s == slot[p][t]
<1>1. SharedTypes /\ Launched(prog, place) /\ Conserved(prog) /\ SlotTable
      /\ PublicData(prog, pub) /\ PrivateData(prog, priv) /\ Challenges(prog, chal)
  BY DEF Inv, Types, Graph, Data
<1>2. Done(p, t) \in Nat /\ Done(p, t) >= 5 /\ prog[p][t] \in Nat
  BY <1>1, DoneFacts DEF Numbers
<1>3. CASE s.req >= 0
  BY <1>1, <1>3 DEF Launched, Stands
<1>4. CASE s.chal
  <2>1. CASE p = "prover"
    BY <1>1, <1>2, <1>4, <2>1 DEF Challenges, ChallengeAt
  <2>2. CASE p = "verifier"
    <3>1. s.req = 0
      BY <1>1, <1>4, <2>2 DEF Challenges
    <3> QED BY <1>3, <3>1
  <2> QED BY <2>1, <2>2 DEF Parties
<1>5. CASE s.inc >= 0
  <2>1. PICK q \in Parties : q = Peer(p) /\ Peer(q) = p
    BY Peers
  <2> QED BY <1>5, <2>1, Whereabouts
<1>6. CASE s.pub
  <2>1. prog[p][t] = 2
    BY <1>1, <1>6 DEF PublicData, PublicAt
  <2> QED BY <1>2, <2>1
<1>7. CASE s.priv
  <2>1. prog[p][t] = 2
    BY <1>1, <1>7 DEF PrivateData, PrivateAt
  <2> QED BY <1>2, <2>1
<1>8. CASE Blank(s)
  <2>1. PICK x \in Threads(p) : thr[p][x].pc = "update" /\ thr[p][x].task = t
    BY <1>1, <1>8 DEF SlotTable
  <2> QED BY <2>1, WorksForLive
<1>9. \/ s.req >= 0 \/ s.chal \/ s.inc >= 0 \/ s.pub \/ s.priv \/ Blank(s)
  <2>1. s.req \in Nat \cup {-1} /\ s.inc \in Nat \cup {-1}
    BY <1>1, SlotFacts
  <2>2. (s.req >= 0 \/ s.req = -1) /\ (s.inc >= 0 \/ s.inc = -1)
    BY <2>1
  <2> QED BY <2>2 DEF Blank
<1> QED BY <1>3, <1>4, <1>5, <1>6, <1>7, <1>8, <1>9

(* When main finds no_tasks_remain set and closes the queues, nothing that *)
(* it closes or drops is in use: the ends of the tasks that set the flag   *)
(* come after every read, every message received and every stage.          *)
THEOREM QuietAtCloseTheorem == Spec => []QuietAtClose
<1>1. IInv => QuietAtClose
  <2> SUFFICES ASSUME IInv, NEW p \in Parties, noTasks[p]
               PROVE  /\ runQueue[p] = {} /\ reads[p] = {} /\ held[p] = {}
                      /\ \A t \in Tasks : ~slot[p][t].present
                      /\ \A x \in Runners(p) : thr[p][x].pc \in {"idle", "done"}
                      /\ \A x \in Disks \cup Ins : thr[p][x].pc \in {"idle", "done"}
    BY DEF QuietAtClose
  <2>1. PICK prog, place, msg, pub, priv, chal : Inv(prog, place, msg, pub, priv, chal)
    BY DEF IInv
  <2>2. /\ SharedTypes /\ Shapes /\ Launched(prog, place) /\ Conserved(prog) /\ Counts(prog)
        /\ Closing /\ PublicData(prog, pub) /\ PrivateData(prog, priv)
    BY <2>1 DEF Inv, Types, Graph, Data
  <2>3. \A t \in Tasks : ~(prog[p][t] < Done(p, t))
    BY <2>2, AllEnded
  <2>4. \A x \in Runners(p) : ~Notifying(p, x)
    BY <2>2, AllEnded
  <2>5. runQueue[p] = {}
    <3> SUFFICES ASSUME NEW e \in runQueue[p] PROVE FALSE
      OBVIOUS
    <3>1. e \in Stages
      BY <2>2 DEF SharedTypes
    <3>2. e.task \in Tasks
      BY <3>1 DEF Stages
    <3> QED BY <2>2, <2>3, <3>2 DEF Launched, Stands
  <2>6. reads[p] = {}
    <3> SUFFICES ASSUME NEW m \in reads[p] PROVE FALSE
      OBVIOUS
    <3>1. m \in ReadRequests
      BY <2>2 DEF SharedTypes
    <3>2. m.task \in Tasks /\ m.kind \in {"public", "private"}
      BY <3>1 DEF ReadRequests
    <3>3. prog[p][m.task] = 2
      BY <2>2, <3>2 DEF PublicData, PrivateData, PublicAt, PrivateAt
    <3>4. Done(p, m.task) \in Nat /\ Done(p, m.task) >= 5
      BY <2>2, <3>2, DoneFacts
    <3> QED BY <2>3, <3>2, <3>3, <3>4
  <2>7. held[p] = {}
    <3> SUFFICES ASSUME NEW t \in held[p] PROVE FALSE
      OBVIOUS
    <3>1. t \in Tasks
      BY <2>2 DEF SharedTypes
    <3>2. left[p][t] > 0 /\ left[p][t] = Cardinality(Untaken(prog, p, t))
      BY <2>2, <3>1, CountsTask
    <3>3. PICK ti : ti \in Untaken(prog, p, t)
      BY <3>2, FS_EmptySet
    <3>4. ti[1] \in Tasks /\ prog[p][ti[1]] <= 1
      <4>1. ti \in UsesOf(t) /\ prog[p][ti[1]] <= 1
        BY <3>3 DEF Untaken
      <4>2. UsesOf(t) \subseteq Tasks \X Nat
        BY <3>1, UsesOrdered
      <4> QED BY <4>1, <4>2
    <3>5. Done(p, ti[1]) \in Nat /\ Done(p, ti[1]) >= 5 /\ prog[p][ti[1]] \in Nat
      BY <2>2, <3>4, DoneFacts DEF Numbers
    <3> QED BY <2>3, <3>4, <3>5
  <2>8. \A t \in Tasks : ~slot[p][t].present
    BY <2>1, <2>3, PresentForLive
  <2>9. ASSUME NEW x \in Threads(p)
        PROVE  thr[p][x].pc \notin {"read", "getslot", "update", "send", "blocked", "result"}
    BY <2>1, <2>3, WorksForLive
  <2>10. ASSUME NEW x \in Runners(p) PROVE thr[p][x].pc \in {"idle", "done"}
    <3>1. x \in Threads(p) /\ x[1] = "run" /\ ~Notifying(p, x)
      BY <2>4, KindFacts
    <3>2. RunShape(thr[p][x]) /\ thr[p][x].pc \notin {"todo", "launch"}
      BY <2>2, <3>1 DEF Shapes, Shape, Notifying
    <3> QED BY <2>9, <3>1, <3>2 DEF RunShape
  <2>11. ASSUME NEW x \in Disks \cup Ins PROVE thr[p][x].pc \in {"idle", "done"}
    <3>1. x \in Threads(p) /\ x[1] \in {"disk", "in"}
      BY KindFacts
    <3>2. DiskShape(thr[p][x]) \/ InShape(thr[p][x])
      BY <2>2, <3>1 DEF Shapes, Shape
    <3> QED BY <2>9, <3>1, <3>2 DEF DiskShape, InShape
  <2> QED BY <2>5, <2>6, <2>7, <2>8, <2>10, <2>11
<1> QED BY <1>1, Inductive, PTL

-----------------------------------------------------------------------------
(***************************************************************************)
(* The order in which data leaves.                                         *)
(***************************************************************************)
(* No data is of a task that the task of data before it needs: in the      *)
(* queue, between what was taken from the queue and what is in it, and on  *)
(* one connection.                                                         *)
OrderedAt(p) ==
  /\ \A i, j \in DOMAIN outq[p] : i < j => outq[p][j].task \notin Ancestors[outq[p][i].task]
  /\ \A x \in Outs : thr[p][x].pc = "write" =>
       \A i \in DOMAIN outq[p] : outq[p][i].task \notin Ancestors[thr[p][x].task]
  /\ \A c \in 1 .. NumConns : \A k \in DOMAIN net[p][c] :
       /\ \A i \in DOMAIN outq[p] : outq[p][i].task \notin Ancestors[net[p][c][k].task]
       /\ thr[p][<<"out", c>>].pc = "write" =>
            thr[p][<<"out", c>>].task \notin Ancestors[net[p][c][k].task]
       /\ \A l \in DOMAIN net[p][c] :
            k < l => net[p][c][l].task \notin Ancestors[net[p][c][k].task]
Ordered == \A p \in Parties : OrderedAt(p)

(* A step that puts no data in the queue, in a hand or on a connection.    *)
Eases ==
  \A p \in Parties :
    /\ outq'[p] = outq[p] \/ outq'[p] = <<>>
    /\ \A x \in Outs : thr'[p][x].pc = "write" =>
         thr[p][x].pc = "write" /\ thr'[p][x].task = thr[p][x].task
    /\ \A c \in 1 .. NumConns :
         \/ net'[p][c] = net[p][c]
         \/ \A k \in DOMAIN net'[p][c] :
              /\ k \in Nat /\ k + 1 \in DOMAIN net[p][c]
              /\ net'[p][c][k] = net[p][c][k + 1]

LEMMA WriterOf == \A c \in 1 .. NumConns : <<"out", c>> \in Outs
BY DEF Outs

LEMMA OrderedEases ==
  ASSUME Ordered, Eases
  PROVE  Ordered'
<1> SUFFICES ASSUME NEW p \in Parties PROVE OrderedAt(p)'
  BY DEF Ordered
<1>1. OrderedAt(p)
  BY DEF Ordered
<1>2. \A i \in DOMAIN outq'[p] : i \in DOMAIN outq[p] /\ outq'[p][i] = outq[p][i]
  BY DEF Eases
<1>3. \A x \in Outs : thr'[p][x].pc = "write" =>
        thr[p][x].pc = "write" /\ thr'[p][x].task = thr[p][x].task
  BY DEF Eases
<1>4. \A i, j \in DOMAIN outq'[p] : i < j => outq'[p][j].task \notin Ancestors[outq'[p][i].task]
  BY <1>1, <1>2 DEF OrderedAt
<1>5. \A x \in Outs : thr'[p][x].pc = "write" =>
        \A i \in DOMAIN outq'[p] : outq'[p][i].task \notin Ancestors[thr'[p][x].task]
  BY <1>1, <1>2, <1>3 DEF OrderedAt
<1>6. ASSUME NEW c \in 1 .. NumConns, NEW k \in DOMAIN net'[p][c]
      PROVE
         /\ \A i \in DOMAIN outq'[p] : outq'[p][i].task \notin Ancestors[net'[p][c][k].task]
         /\ thr'[p][<<"out", c>>].pc = "write" =>
              thr'[p][<<"out", c>>].task \notin Ancestors[net'[p][c][k].task]
         /\ \A l \in DOMAIN net'[p][c] :
              k < l => net'[p][c][l].task \notin Ancestors[net'[p][c][k].task]
  <2>1. <<"out", c>> \in Outs
    BY WriterOf
  <2>2. CASE net'[p][c] = net[p][c]
    BY <1>1, <1>2, <1>3, <2>1, <2>2 DEF OrderedAt
  <2>3. CASE \A l \in DOMAIN net'[p][c] :
               /\ l \in Nat /\ l + 1 \in DOMAIN net[p][c]
               /\ net'[p][c][l] = net[p][c][l + 1]
    <3>1. k + 1 \in DOMAIN net[p][c] /\ net'[p][c][k] = net[p][c][k + 1]
      BY <2>3
    <3>2. \A l \in DOMAIN net'[p][c] : k < l =>
            /\ l + 1 \in DOMAIN net[p][c] /\ k + 1 < l + 1
            /\ net'[p][c][l] = net[p][c][l + 1]
      BY <2>3
    <3> QED BY <1>1, <1>2, <1>3, <2>1, <3>1, <3>2 DEF OrderedAt
  <2> QED BY <2>2, <2>3 DEF Eases
<1> QED BY <1>4, <1>5, <1>6 DEF OrderedAt

LEMMA DoEases ==
  ASSUME ThreadTypes, NEW p \in Parties, NEW x \in Threads(p), NEW r, Do(p, x, r),
         r.pc # "write", UNCHANGED net,
         \A q \in Parties : outq'[q] = outq[q] \/ outq'[q] = <<>>
  PROVE  Eases
<1>1. \A q \in Parties : \A y \in Outs : thr'[q][y].pc = "write" => thr'[q][y] = thr[q][y]
  BY DoFacts, OutsAndIns
<1> QED BY <1>1 DEF Eases

LEMMA ReadEases ==
  ASSUME ThreadTypes, SharedTypes, NEW o \in Parties, NEW x \in Ins, ReadIncoming(o, x)
  PROVE  Eases
<1>1. PICK p \in Parties, c \in 1 .. NumConns : p = Peer(o) /\ c = x[2]
  BY Peers DEF Ins
<1>2. /\ \E t, s : Do(o, x, [Idle EXCEPT !.pc = "getslot", !.task = t, !.step = s,
                                         !.brings = "incoming"])
      /\ net[p][c] # <<>> /\ net' = [net EXCEPT ![p][c] = Tail(net[p][c])]
      /\ UNCHANGED outq
  BY <1>1 DEF ReadIncoming
<1>3. \A t, s : [Idle EXCEPT !.pc = "getslot", !.task = t, !.step = s,
                             !.brings = "incoming"].pc = "getslot"
  BY DEF Idle
<1>4. \A q \in Parties : \A y \in Outs : thr'[q][y].pc = "write" => thr'[q][y] = thr[q][y]
  <2>1. x \in Threads(o) /\ x[1] = "in"
    BY KindFacts
  <2>2. PICK r : Do(o, x, r) /\ r.pc # "write"
    BY <1>2, <1>3
  <2>3. thr'[o][x] = r /\ \A q \in Parties : \A y \in Threads(q) :
                             q # o \/ y # x => thr'[q][y] = thr[q][y]
    BY <2>1, <2>2, DoFacts
  <2> QED BY <2>2, <2>3, OutsAndIns
<1>5. ASSUME NEW q \in Parties, NEW d \in 1 .. NumConns
      PROVE  \/ net'[q][d] = net[q][d]
             \/ \A k \in DOMAIN net'[q][d] :
                  /\ k \in Nat /\ k + 1 \in DOMAIN net[q][d]
                  /\ net'[q][d][k] = net[q][d][k + 1]
  <2>1. net[p][c] \in Seq(Messages) /\ net \in [Parties -> [1 .. NumConns -> Seq(Messages)]]
    BY DEF SharedTypes
  <2>2. CASE q = p /\ d = c
    <3>1. net'[q][d] = Tail(net[p][c])
      BY <1>2, <2>1, <2>2
    <3>2. \A k \in DOMAIN Tail(net[p][c]) :
            k \in Nat /\ k + 1 \in DOMAIN net[p][c] /\ Tail(net[p][c])[k] = net[p][c][k + 1]
      BY <1>2, <2>1
    <3> QED BY <2>2, <3>1, <3>2
  <2>3. CASE ~(q = p /\ d = c)
    <3>1. net'[q][d] = net[q][d]
      BY <1>2, <2>1, <2>3
    <3> QED BY <3>1
  <2> QED BY <2>2, <2>3
<1> QED BY <1>2, <1>4, <1>5 DEF Eases

(* The steps of the threads that do not send, take or write data.          *)
LEMMA OthersEase ==
  ASSUME IInv, [Next]_vars
  PROVE  \/ Eases
         \/ \E p \in Parties : \E x \in Runners(p) : SendOutgoing(p, x)
         \/ \E p \in Parties : \E x \in Outs : TakeOutgoing(p, x) \/ WriteOutgoing(p, x)
<1>1. ThreadTypes /\ SharedTypes
  BY DEF IInv, Inv, Types
<1>2. ASSUME NEW p \in Parties, NEW x \in Threads(p), NEW r, Do(p, x, r), r.pc # "write",
             UNCHANGED <<outq, net>>
      PROVE  Eases
  BY <1>1, <1>2, DoEases
<1>3. Idle.pc = "idle" /\ \A pc : [Idle EXCEPT !.pc = pc].pc = pc
  BY DEF Idle
<1>4. CASE UNCHANGED vars
  BY <1>4 DEF vars, outVars, Eases
<1>5. ASSUME NEW p \in Parties, NEW x \in Threads(p), Panic(p, x) PROVE Eases
  <2>1. /\ Do(p, x, [Idle EXCEPT !.pc = "panicked"])
        /\ UNCHANGED <<outq, net>>
    BY <1>5 DEF Panic, outVars
  <2> QED BY <1>2, <1>3, <2>1
<1>6. ASSUME NEW p \in Parties, NEW x \in Threads(p), NEW open, Stop(p, x, open) PROVE Eases
  <2>1. /\ Do(p, x, [Idle EXCEPT !.pc = "done"])
        /\ UNCHANGED <<outq, net>>
    BY <1>6 DEF Stop, outVars
  <2> QED BY <1>2, <1>3, <2>1
<1>7. ASSUME NEW p \in Parties, NEW x \in Threads(p), GetSlot(p, x) PROVE Eases
  <2>1. PICK n : Do(p, x, [thr[p][x] EXCEPT !.pc = "update", !.ref = n])
    BY <1>7 DEF GetSlot
  <2>2. UNCHANGED <<outq, net>>
    BY <1>7 DEF GetSlot, outVars
  <2>3. PICK o \in Records : o = thr[p][x]
    BY <1>1, RecordFacts
  <2>4. PICK r : r = [o EXCEPT !.pc = "update", !.ref = n]
    OBVIOUS
  <2>5. r.pc = "update"
    BY <2>4 DEF Records
  <2>6. Do(p, x, r)
    BY <2>1, <2>3, <2>4
  <2> QED BY <1>2, <2>2, <2>5, <2>6
<1>8. ASSUME NEW p \in Parties, NEW x \in Threads(p), UpdateSlot(p, x) PROVE Eases
  <2>1. \/ Panic(p, x)
        \/ Do(p, x, AfterUpdate(x, thr[p][x])) /\ UNCHANGED <<outq, net>>
    <3>1. UNCHANGED outVars => UNCHANGED <<outq, net>>
      BY DEF outVars
    <3> QED BY <1>8, <3>1, UpdateRest
  <2>2. AfterUpdate(x, thr[p][x]).pc \in {"todo", "idle"}
    BY DEF AfterUpdate, Idle
  <2> QED BY <1>2, <1>5, <2>1, <2>2
<1>9. ASSUME NEW p \in Parties, NEW x \in Threads(p), Launch(p, x) PROVE Eases
  <2>1. \/ Panic(p, x)
        \/ /\ \E hit : Do(p, x, [thr[p][x] EXCEPT !.pc = "getslot", !.step = 0, !.hit = hit,
                                                  !.brings = "request"])
           /\ UNCHANGED <<outq, net>>
    BY <1>9 DEF Launch, outVars
  <2>2. PICK o \in Records : o = thr[p][x]
    BY <1>1, RecordFacts
  <2>3. \A hit : [o EXCEPT !.pc = "getslot", !.step = 0, !.hit = hit,
                           !.brings = "request"].pc = "getslot"
    BY DEF Records
  <2> QED BY <1>2, <1>5, <2>1, <2>2, <2>3
<1>10. ASSUME NEW p \in Parties, NEW x \in Runners(p), RunnerStep(p, x), ~SendOutgoing(p, x)
       PROVE  Eases
  <2>1. x \in Threads(p)
    BY KindFacts
  <2>2. PICK o \in Records : o = thr[p][x]
    BY <1>1, <2>1, RecordFacts
  <2>3. CASE TakeStage(p, x)
    <3>1. \/ Panic(p, x)
          \/ /\ \E pc \in {"send", "result"} : \E t, s :
                   Do(p, x, [Idle EXCEPT !.pc = pc, !.task = t, !.step = s])
             /\ UNCHANGED <<outq, net>>
      BY <2>3 DEF TakeStage, outVars
    <3>2. \A pc, t, s : [Idle EXCEPT !.pc = pc, !.task = t, !.step = s].pc = pc
      BY DEF Idle
    <3> QED BY <1>2, <1>5, <2>1, <3>1, <3>2
  <2>4. CASE NextStage(p, x)
    <3>1. \/ Panic(p, x)
          \/ /\ Do(p, x, [o EXCEPT !.pc = "getslot", !.step = @ + 1, !.brings = "request"])
             /\ UNCHANGED <<outq, net>>
      BY <2>2, <2>4 DEF NextStage, outVars
    <3>2. [o EXCEPT !.pc = "getslot", !.step = @ + 1, !.brings = "request"].pc = "getslot"
      BY DEF Records
    <3> QED BY <1>2, <1>5, <2>1, <3>1, <3>2
  <2>5. CASE Finish(p, x)
    <3>1. \/ Panic(p, x)
          \/ /\ \E d : Do(p, x, [Idle EXCEPT !.pc = "todo", !.todo = d])
             /\ UNCHANGED <<outq, net>>
      BY <2>5 DEF Finish, outVars
    <3>2. \A d : [Idle EXCEPT !.pc = "todo", !.todo = d].pc = "todo"
      BY DEF Idle
    <3> QED BY <1>2, <1>5, <2>1, <3>1, <3>2
  <2>6. CASE NotifyDependent(p, x)
    <3>1. \/ Panic(p, x)
          \/ /\ \/ \E d : Do(p, x, [o EXCEPT !.pc = "launch", !.task = d, !.todo = Tail(@)])
                \/ Do(p, x, [o EXCEPT !.todo = Tail(@)])
             /\ UNCHANGED <<outq, net>> /\ o.pc = "todo"
      BY <2>2, <2>6 DEF NotifyDependent, outVars
    <3>2. /\ \A d : [o EXCEPT !.pc = "launch", !.task = d, !.todo = Tail(@)].pc = "launch"
          /\ [o EXCEPT !.todo = Tail(@)].pc = o.pc
      BY DEF Records
    <3> QED BY <1>2, <1>5, <2>1, <3>1, <3>2
  <2>7. CASE TaskDone(p, x)
    <3>1. \/ Panic(p, x)
          \/ Do(p, x, Idle) /\ UNCHANGED <<outq, net>>
      BY <2>7 DEF TaskDone, outVars
    <3> QED BY <1>2, <1>3, <1>5, <2>1, <3>1
  <2>8. CASE Stop(p, x, runOpen[p])
    <3>1. PICK open : open = runOpen[p]
      OBVIOUS
    <3> QED BY <1>6, <2>1, <2>8, <3>1
  <2> QED BY <1>7, <1>8, <1>9, <1>10, <2>1, <2>3, <2>4, <2>5, <2>6, <2>7, <2>8 DEF RunnerStep
<1>11. ASSUME NEW p \in Parties, MainStep(p) PROVE Eases
  <2>1. Main \in Threads(p) /\ Main \in Threads("verifier") /\ "verifier" \in Parties
    BY KindFacts DEF Parties
  <2>2. PICK o \in Records : o = thr[p][Main]
    BY <1>1, <2>1, RecordFacts
  <2>3. CASE MainNext(p)
    <3>1. /\ \E d : Do(p, Main, [o EXCEPT !.pc = "launch", !.task = d, !.todo = Tail(@)])
          /\ UNCHANGED <<outq, net>>
      BY <2>2, <2>3 DEF MainNext, outVars
    <3>2. \A d : [o EXCEPT !.pc = "launch", !.task = d, !.todo = Tail(@)].pc = "launch"
      BY DEF Records
    <3> QED BY <1>2, <2>1, <3>1, <3>2
  <2>4. CASE MainWait(p) \/ CloseReads(p) \/ CloseRunQueue(p) \/ Finalize(p)
    <3>1. /\ \E pc : pc # "write" /\ Do(p, Main, [Idle EXCEPT !.pc = pc])
          /\ UNCHANGED <<outq, net>>
      BY <2>4 DEF MainWait, CloseReads, CloseRunQueue, Finalize, Goto, outVars
    <3> QED BY <1>2, <1>3, <2>1, <3>1
  <2>5. CASE CloseChallenges
    <3>1. /\ Do("verifier", Main, [Idle EXCEPT !.pc = "closerun"])
          /\ UNCHANGED <<outq, net>>
      BY <2>5 DEF CloseChallenges, Goto, outVars
    <3> QED BY <1>2, <1>3, <2>1, <3>1
  <2>6. CASE CloseOutgoing(p)
    <3>1. /\ \E pc : pc # "write" /\ Do(p, Main, [Idle EXCEPT !.pc = pc])
          /\ outq' = [outq EXCEPT ![p] = <<>>] /\ UNCHANGED net
      BY <2>6 DEF CloseOutgoing, Goto
    <3>2. \A q \in Parties : outq'[q] = outq[q] \/ outq'[q] = <<>>
      BY <1>1, <3>1 DEF SharedTypes
    <3> QED BY <1>1, <1>3, <2>1, <3>1, <3>2, DoEases
  <2> QED BY <1>7, <1>8, <1>9, <1>11, <2>1, <2>3, <2>4, <2>5, <2>6 DEF MainStep
<1>12. ASSUME NEW p \in Parties, NEW x \in Disks, DiskStep(p, x) PROVE Eases
  <2>1. x \in Threads(p)
    BY KindFacts
  <2>2. PICK o \in Records : o = thr[p][x]
    BY <1>1, <2>1, RecordFacts
  <2>3. CASE TakeRead(p, x)
    <3>1. /\ \E t, b : Do(p, x, [Idle EXCEPT !.pc = "read", !.task = t, !.brings = b])
          /\ UNCHANGED <<outq, net>>
      BY <2>3 DEF TakeRead, outVars
    <3>2. \A t, b : [Idle EXCEPT !.pc = "read", !.task = t, !.brings = b].pc = "read"
      BY DEF Idle
    <3> QED BY <1>2, <2>1, <3>1, <3>2
  <2>4. CASE ReadChunk(p, x)
    <3>1. Do(p, x, [o EXCEPT !.pc = "getslot"]) /\ UNCHANGED <<outq, net>>
      BY <2>2, <2>4 DEF ReadChunk, outVars
    <3>2. [o EXCEPT !.pc = "getslot"].pc = "getslot"
      BY DEF Records
    <3> QED BY <1>2, <2>1, <3>1, <3>2
  <2>5. CASE Stop(p, x, readsOpen[p])
    <3>1. PICK open : open = readsOpen[p]
      OBVIOUS
    <3> QED BY <1>6, <2>1, <2>5, <3>1
  <2> QED BY <1>7, <1>8, <1>12, <2>1, <2>3, <2>4, <2>5 DEF DiskStep
<1>13. ASSUME NEW p \in Parties, NEW x \in Outs, OutStep(p, x)
       PROVE  Eases \/ TakeOutgoing(p, x) \/ WriteOutgoing(p, x)
  <2>1. x \in Threads(p)
    BY KindFacts
  <2>2. CASE Stop(p, x, outOpen[p])
    <3>1. PICK open : open = outOpen[p]
      OBVIOUS
    <3> QED BY <1>6, <2>1, <2>2, <3>1
  <2> QED BY <1>13, <2>2 DEF OutStep
<1>14. ASSUME NEW p \in Parties, NEW x \in Ins, InStep(p, x) PROVE Eases
  <2>1. x \in Threads(p)
    BY KindFacts
  <2>2. CASE ReadIncoming(p, x)
    BY <1>1, <2>1, <2>2, ReadEases
  <2> QED BY <1>7, <1>8, <1>14, <2>1, <2>2 DEF InStep
<1>15. ASSUME NEW p \in Parties, ChalStep(p) PROVE Eases
  <2>1. Chal \in Threads(p) /\ Chal \in Threads("prover") /\ "prover" \in Parties
    BY KindFacts DEF Parties
  <2>2. CASE SendChallenge
    BY <2>2 DEF SendChallenge, outVars, Eases
  <2>3. CASE ReadChallenge
    <3>1. /\ \E t : Do("prover", Chal, [Idle EXCEPT !.pc = "getslot", !.task = t,
                                                    !.brings = "challenge"])
          /\ UNCHANGED <<outq, net>>
      BY <2>3 DEF ReadChallenge, outVars
    <3>2. \A t : [Idle EXCEPT !.pc = "getslot", !.task = t, !.brings = "challenge"].pc = "getslot"
      BY DEF Idle
    <3> QED BY <1>2, <2>1, <3>1, <3>2
  <2>4. CASE Stop(p, Chal, IF p = "verifier" THEN chalOpen
                           ELSE ~At("verifier", Chal, "done") \/ chalNet # <<>>)
    <3> DEFINE goes == IF p = "verifier" THEN chalOpen
                       ELSE ~At("verifier", Chal, "done") \/ chalNet # <<>>
    <3>1. Stop(p, Chal, goes)
      BY <2>4
    <3> HIDE DEF goes
    <3>2. PICK open : open = goes
      OBVIOUS
    <3> QED BY <1>6, <2>1, <3>1, <3>2
  <2> QED BY <1>7, <1>8, <1>15, <2>1, <2>2, <2>3, <2>4 DEF ChalStep
<1> QED BY <1>4, <1>10, <1>11, <1>12, <1>13, <1>14, <1>15 DEF Next

(* What is in the queue, in a hand or on a connection is of launched tasks, *)
(* so that a task that has not ended is none that they need.                *)
LEMMA NoneNeedsLive ==
  ASSUME NEW prog, NEW place, NEW msg, NEW pub, NEW priv, NEW chal,
         Inv(prog, place, msg, pub, priv, chal), NEW p \in Parties, NEW t \in Tasks,
         prog[p][t] < Done(p, t)
  PROVE  /\ \A i \in DOMAIN outq[p] : t \notin Ancestors[outq[p][i].task]
         /\ \A x \in Outs : thr[p][x].pc = "write" => t \notin Ancestors[thr[p][x].task]
         /\ \A c \in 1 .. NumConns : \A k \in DOMAIN net[p][c] :
              t \notin Ancestors[net[p][c][k].task]
<1>1. Flights(prog, msg) /\ ThreadTypes /\ SharedTypes /\ Conserved(prog)
  BY DEF Inv, Types, Graph, Data
<1>2. ASSUME NEW u \in Tasks, NEW k \in Nat, NEW w, UnderWay(prog, msg, p, u, k, w)
      PROVE  t \notin Ancestors[u]
  <2>1. prog[p][u] # 0
    <3>1. prog[p][u] \in Nat
      BY <1>1, DoneFacts DEF Numbers
    <3>2. prog[p][u] >= 3 * k + 4
      BY <1>2 DEF UnderWay
    <3> QED BY <3>1, <3>2
  <2>2. \A v \in Ancestors[u] : ~(prog[p][v] < Done(p, v))
    BY <2>1, NeedsEnded
  <2> QED BY <2>2
<1>3. /\ \A i \in DOMAIN outq[p] : outq[p][i].task \in Tasks /\ outq[p][i].round \in Nat
      /\ \A c \in 1 .. NumConns : \A k \in DOMAIN net[p][c] :
           net[p][c][k].task \in Tasks /\ net[p][c][k].round \in Nat
      /\ \A x \in Outs : thr[p][x].pc = "write" =>
           thr[p][x].task \in Tasks /\ thr[p][x].step \in Nat
  BY <1>1, MessagesNamed, OutsAndIns
<1>4. \A i \in DOMAIN outq[p] : t \notin Ancestors[outq[p][i].task]
  BY <1>1, <1>2, <1>3 DEF Flights
<1>5. \A x \in Outs : thr[p][x].pc = "write" => t \notin Ancestors[thr[p][x].task]
  BY <1>1, <1>2, <1>3 DEF Flights
<1>6. \A c \in 1 .. NumConns : \A k \in DOMAIN net[p][c] : t \notin Ancestors[net[p][c][k].task]
  BY <1>1, <1>2, <1>3 DEF Flights
<1> QED BY <1>4, <1>5, <1>6

(* The other party's data is not touched. *)
LEMMA OrderedElsewhere ==
  ASSUME Ordered, ThreadTypes, NEW p \in Parties, NEW x \in Threads(p), NEW r, Do(p, x, r),
         \A q \in Parties : q # p => outq'[q] = outq[q] /\ net'[q] = net[q],
         OrderedAt(p)'
  PROVE  Ordered'
<1>1. ASSUME NEW q \in Parties, q # p PROVE OrderedAt(q)'
  <2>1. \A y \in Outs : thr'[q][y] = thr[q][y]
    BY <1>1, DoFacts, OutsAndIns
  <2>2. outq'[q] = outq[q] /\ net'[q] = net[q] /\ OrderedAt(q)
    BY <1>1 DEF Ordered
  <2> QED BY <2>1, <2>2, WriterOf DEF OrderedAt
<1>2. \A q \in Parties : OrderedAt(q)'
  BY <1>1
<1> QED BY <1>2 DEF Ordered

LEMMA SendOrdered ==
  ASSUME IInv, Ordered, NEW p \in Parties, NEW x \in Runners(p), SendOutgoing(p, x)
  PROVE  Ordered'
<1>1. PICK prog, place, msg, pub, priv, chal : Inv(prog, place, msg, pub, priv, chal)
  BY DEF IInv
<1>2. ThreadTypes /\ SharedTypes /\ x \in Threads(p) /\ x[1] = "run"
  BY <1>1, KindFacts DEF Inv, Types
<1>3. thr[p][x].pc \in {"send", "blocked"}
  BY DEF SendOutgoing
<1>4. PICK t \in Tasks : t = thr[p][x].task /\ prog[p][t] < Done(p, t)
  BY <1>1, <1>2, <1>3, WorksForLive
<1>5. PICK s \in Nat : s = thr[p][x].step
  BY <1>2, RecordFacts
<1>6. PICK o \in Records : o = thr[p][x]
  BY <1>2, RecordFacts
<1>7. \E r : Do(p, x, r) /\ r.pc # "write"
  <2>1. \E pc \in {"blocked", "result"} : Do(p, x, [o EXCEPT !.pc = pc])
    BY <1>6 DEF SendOutgoing
  <2>2. \A pc : [o EXCEPT !.pc = pc].pc = pc
    BY DEF Records
  <2> QED BY <2>1, <2>2
<1>8. PICK r : Do(p, x, r) /\ r.pc # "write"
  BY <1>7
<1> DEFINE m == [task |-> t, round |-> s]
<1>9. /\ outq' = outq \/ outq' = [outq EXCEPT ![p] = Append(@, m)]
      /\ UNCHANGED net
  BY <1>4, <1>5 DEF SendOutgoing, Queued, Message
<1>10. m \in Messages /\ m.task = t
  BY DEF Messages
<1> HIDE DEF m
<1>11. CASE outq' = outq
  <2>1. Eases
    BY <1>2, <1>8, <1>9, <1>11, DoEases
  <2> QED BY <2>1, OrderedEases
<1>12. CASE outq' = [outq EXCEPT ![p] = Append(@, m)]
  <2>1. outq[p] \in Seq(Messages) /\ outq'[p] = Append(outq[p], m)
        /\ \A q \in Parties : q # p => outq'[q] = outq[q]
    BY <1>2, <1>12 DEF SharedTypes
  <2>2. /\ \A i \in DOMAIN outq[p] : outq'[p][i] = outq[p][i] /\ i \in Nat /\ i < Len(outq[p]) + 1
        /\ \A i \in DOMAIN outq'[p] : i \in DOMAIN outq[p] \/ i = Len(outq[p]) + 1
        /\ outq'[p][Len(outq[p]) + 1].task = t /\ Len(outq[p]) \in Nat
    <3>1. /\ \A i \in DOMAIN outq[p] : outq'[p][i] = outq[p][i]
          /\ \A i \in DOMAIN outq'[p] : i \in DOMAIN outq[p] \/ i = Len(outq[p]) + 1
          /\ outq'[p][Len(outq[p]) + 1].task = t /\ Len(outq[p]) \in Nat
      BY <1>10, <2>1, AppendFacts
    <3>2. \A i \in DOMAIN outq[p] : i \in Nat /\ i < Len(outq[p]) + 1
      BY <2>1
    <3> QED BY <3>1, <3>2
  <2>3. /\ \A i \in DOMAIN outq[p] : t \notin Ancestors[outq[p][i].task]
        /\ \A y \in Outs : thr[p][y].pc = "write" => t \notin Ancestors[thr[p][y].task]
        /\ \A c \in 1 .. NumConns : \A k \in DOMAIN net[p][c] :
             t \notin Ancestors[net[p][c][k].task]
    BY <1>1, <1>4, NoneNeedsLive
  <2>4. OrderedAt(p)
    BY DEF Ordered
  <2>5. \A y \in Outs : thr'[p][y].pc = "write" => thr'[p][y] = thr[p][y]
    BY <1>2, <1>8, DoFacts, OutsAndIns
  <2>6. \A i, j \in DOMAIN outq'[p] : i < j => outq'[p][j].task \notin Ancestors[outq'[p][i].task]
    <3> SUFFICES ASSUME NEW i \in DOMAIN outq'[p], NEW j \in DOMAIN outq'[p], i < j
                 PROVE  outq'[p][j].task \notin Ancestors[outq'[p][i].task]
      OBVIOUS
    <3>1. i \in DOMAIN outq[p]
      BY <2>2
    <3>2. CASE j \in DOMAIN outq[p]
      BY <2>2, <2>4, <3>1, <3>2 DEF OrderedAt
    <3>3. CASE j = Len(outq[p]) + 1
      BY <2>2, <2>3, <3>1, <3>3
    <3> QED BY <2>2, <3>2, <3>3
  <2>7. \A y \in Outs : thr'[p][y].pc = "write" =>
          \A i \in DOMAIN outq'[p] : outq'[p][i].task \notin Ancestors[thr'[p][y].task]
    BY <2>2, <2>3, <2>4, <2>5 DEF OrderedAt
  <2>8. ASSUME NEW c \in 1 .. NumConns, NEW k \in DOMAIN net'[p][c]
        PROVE
          /\ \A i \in DOMAIN outq'[p] : outq'[p][i].task \notin Ancestors[net'[p][c][k].task]
          /\ thr'[p][<<"out", c>>].pc = "write" =>
               thr'[p][<<"out", c>>].task \notin Ancestors[net'[p][c][k].task]
          /\ \A l \in DOMAIN net'[p][c] :
               k < l => net'[p][c][l].task \notin Ancestors[net'[p][c][k].task]
    <3>1. net' = net /\ <<"out", c>> \in Outs
      BY <1>9, WriterOf
    <3> QED BY <2>2, <2>3, <2>4, <2>5, <3>1 DEF OrderedAt
  <2>9. OrderedAt(p)'
    BY <2>6, <2>7, <2>8 DEF OrderedAt
  <2> QED BY <1>2, <1>8, <1>9, <2>1, <2>9, OrderedElsewhere
<1> QED BY <1>9, <1>11, <1>12

LEMMA TakeOrdered ==
  ASSUME IInv, Ordered, NEW p \in Parties, NEW x \in Outs, TakeOutgoing(p, x)
  PROVE  Ordered'
<1>1. ThreadTypes /\ SharedTypes /\ x \in Threads(p) /\ OrderedAt(p)
  BY KindFacts DEF IInv, Inv, Types, Ordered
<1>2. outq[p] \in Seq(Messages) /\ outq[p] # <<>> /\ outq \in [Parties -> Seq(Messages)]
  BY <1>1 DEF SharedTypes, TakeOutgoing
<1>3. PICK m \in Messages : m = Head(outq[p])
  BY <1>2, TailFacts
<1>4. PICK r : Do(p, x, r) /\ r.task = m.task
  <2>1. /\ Do(p, x, [Idle EXCEPT !.pc = "write", !.task = m.task, !.step = m.round])
        /\ [Idle EXCEPT !.pc = "write", !.task = m.task, !.step = m.round].task = m.task
    BY <1>3 DEF TakeOutgoing, Idle
  <2> QED BY <2>1
<1>5. /\ outq'[p] = Tail(outq[p]) /\ UNCHANGED net
      /\ \A q \in Parties : q # p => outq'[q] = outq[q]
  BY <1>2 DEF TakeOutgoing, Dequeued
<1>6. /\ outq[p][1] = m /\ 1 \in DOMAIN outq[p]
      /\ \A i \in DOMAIN outq'[p] : /\ i \in Nat /\ i + 1 \in DOMAIN outq[p] /\ 1 < i + 1
                                    /\ outq'[p][i] = outq[p][i + 1]
  <2>1. \A i \in DOMAIN Tail(outq[p]) :
          i \in Nat /\ i + 1 \in DOMAIN outq[p] /\ Tail(outq[p])[i] = outq[p][i + 1] /\ 1 < i + 1
    BY <1>2
  <2> QED BY <1>2, <1>3, <1>5, <2>1, TailFacts
<1>7. \A y \in Outs : thr'[p][y].task = m.task \/ thr'[p][y] = thr[p][y]
  <2>1. thr'[p][x] = r /\ \A y \in Threads(p) : y # x => thr'[p][y] = thr[p][y]
    BY <1>1, <1>4, DoFacts
  <2> QED BY <1>4, <2>1, KindFacts
<1>8. \A i, j \in DOMAIN outq'[p] : i < j => outq'[p][j].task \notin Ancestors[outq'[p][i].task]
  <2> SUFFICES ASSUME NEW i \in DOMAIN outq'[p], NEW j \in DOMAIN outq'[p], i < j
               PROVE  outq'[p][j].task \notin Ancestors[outq'[p][i].task]
    OBVIOUS
  <2>1. i + 1 \in DOMAIN outq[p] /\ j + 1 \in DOMAIN outq[p] /\ i + 1 < j + 1
    BY <1>6
  <2> QED BY <1>1, <1>6, <2>1 DEF OrderedAt
<1>9. \A i \in DOMAIN outq'[p] : outq'[p][i].task \notin Ancestors[m.task]
  <2> SUFFICES ASSUME NEW i \in DOMAIN outq'[p]
               PROVE  outq'[p][i].task \notin Ancestors[m.task]
    OBVIOUS
  <2>1. i + 1 \in DOMAIN outq[p] /\ 1 < i + 1
    BY <1>6
  <2> QED BY <1>1, <1>6, <2>1 DEF OrderedAt
<1>10. \A y \in Outs : thr'[p][y].pc = "write" =>
         \A i \in DOMAIN outq'[p] : outq'[p][i].task \notin Ancestors[thr'[p][y].task]
  BY <1>1, <1>6, <1>7, <1>9 DEF OrderedAt
<1>11. ASSUME NEW c \in 1 .. NumConns, NEW k \in DOMAIN net'[p][c]
       PROVE  /\ \A i \in DOMAIN outq'[p] : outq'[p][i].task \notin Ancestors[net'[p][c][k].task]
              /\ thr'[p][<<"out", c>>].pc = "write" =>
                   thr'[p][<<"out", c>>].task \notin Ancestors[net'[p][c][k].task]
              /\ \A l \in DOMAIN net'[p][c] :
                   k < l => net'[p][c][l].task \notin Ancestors[net'[p][c][k].task]
  <2>1. net'[p] = net[p] /\ <<"out", c>> \in Outs
    BY <1>5, WriterOf
  <2>2. m.task \notin Ancestors[net[p][c][k].task]
    BY <1>1, <1>6, <2>1 DEF OrderedAt
  <2> QED BY <1>1, <1>6, <1>7, <2>1, <2>2 DEF OrderedAt
<1>12. OrderedAt(p)'
  BY <1>8, <1>10, <1>11 DEF OrderedAt
<1> QED BY <1>1, <1>4, <1>5, <1>12, OrderedElsewhere

LEMMA WriteOrdered ==
  ASSUME IInv, Ordered, NEW p \in Parties, NEW x \in Outs, WriteOutgoing(p, x)
  PROVE  Ordered'
<1>1. ThreadTypes /\ SharedTypes /\ x \in Threads(p) /\ OrderedAt(p) /\ thr[p][x].pc = "write"
  BY KindFacts DEF IInv, Inv, Types, Ordered, WriteOutgoing, At
<1>2. PICK t \in Tasks : t = thr[p][x].task
  BY <1>1, RecordFacts DEF Working
<1>3. PICK s \in Nat : s = thr[p][x].step
  BY <1>1, RecordFacts
<1>4. PICK d \in 1 .. NumConns : d = x[2]
  BY DEF Outs
<1> DEFINE m == [task |-> t, round |-> s]
<1>5. m \in Messages /\ m.task = t
  BY DEF Messages
<1>6. Do(p, x, Idle) /\ net' = [net EXCEPT ![p][d] = Append(@, m)] /\ UNCHANGED outq
  BY <1>2, <1>3, <1>4 DEF WriteOutgoing
<1> HIDE DEF m
<1>7. net[p][d] \in Seq(Messages)
  <2>1. net \in [Parties -> [1 .. NumConns -> Seq(Messages)]]
    BY <1>1 DEF SharedTypes
  <2> QED BY <2>1
<1>8. /\ net'[p][d] = Append(net[p][d], m)
      /\ \A c \in 1 .. NumConns : c # d => net'[p][c] = net[p][c]
      /\ \A q \in Parties : q # p => net'[q] = net[q]
  <2>1. net \in [Parties -> [1 .. NumConns -> Seq(Messages)]]
    BY <1>1 DEF SharedTypes
  <2> QED BY <1>6, <2>1
<1>9. \A y \in Outs : thr'[p][y].pc = "write" => y # x /\ thr'[p][y] = thr[p][y]
  <2>1. thr'[p][x] = Idle /\ Idle.pc # "write"
        /\ \A y \in Threads(p) : y # x => thr'[p][y] = thr[p][y]
    BY <1>1, <1>6, DoFacts DEF Idle
  <2> QED BY <2>1, KindFacts
<1>10. ASSUME NEW c \in 1 .. NumConns, NEW k \in DOMAIN net'[p][c]
       PROVE  /\ \A i \in DOMAIN outq[p] : outq[p][i].task \notin Ancestors[net'[p][c][k].task]
              /\ thr'[p][<<"out", c>>].pc = "write" =>
                   thr'[p][<<"out", c>>].task \notin Ancestors[net'[p][c][k].task]
              /\ \A l \in DOMAIN net'[p][c] :
                   k < l => net'[p][c][l].task \notin Ancestors[net'[p][c][k].task]
  <2>1. CASE c # d
    <3>1. net'[p][c] = net[p][c] /\ <<"out", c>> \in Outs
      BY <1>8, <2>1, WriterOf
    <3> QED BY <1>1, <1>9, <3>1 DEF OrderedAt
  <2>2. CASE c = d
    <3>1. x = <<"out", c>>
      BY <1>4, <2>2 DEF Outs
    <3>2. \A l \in DOMAIN net'[p][d] :
            \/ l \in DOMAIN net[p][d] /\ net'[p][d][l] = net[p][d][l]
            \/ l = Len(net[p][d]) + 1 /\ net'[p][d][l] = m
      BY <1>5, <1>7, <1>8, AppendFacts
    <3>3. \A l \in DOMAIN net[p][d] : l \in Nat /\ ~(Len(net[p][d]) + 1 < l)
          /\ m.task \notin Ancestors[net[p][d][l].task]
      <4>1. \A l \in DOMAIN net[p][d] : l \in Nat /\ ~(Len(net[p][d]) + 1 < l)
        BY <1>7
      <4> QED BY <1>1, <1>2, <1>5, <2>2, <3>1, <4>1 DEF OrderedAt
    <3>4. \A i \in DOMAIN outq[p] : outq[p][i].task \notin Ancestors[m.task]
      BY <1>1, <1>2, <1>5 DEF OrderedAt
    <3>5. \A i \in DOMAIN outq[p] : outq[p][i].task \notin Ancestors[net'[p][c][k].task]
      BY <1>1, <2>2, <3>2, <3>4 DEF OrderedAt
    <3>6. thr'[p][<<"out", c>>].pc # "write"
      BY <1>9, <3>1
    <3>7. ASSUME NEW l \in DOMAIN net'[p][c], k < l
          PROVE  net'[p][c][l].task \notin Ancestors[net'[p][c][k].task]
      <4>1. k \in DOMAIN net[p][d] /\ net'[p][c][k] = net[p][d][k]
        <5>1. Len(net[p][d]) \in Nat /\ ~(Len(net[p][d]) + 1 < Len(net[p][d]) + 1)
          BY <1>7
        <5> QED BY <2>2, <3>2, <3>3, <3>7, <5>1
      <4>2. CASE l \in DOMAIN net[p][d] /\ net'[p][d][l] = net[p][d][l]
        BY <1>1, <2>2, <3>7, <4>1, <4>2 DEF OrderedAt
      <4>3. CASE net'[p][d][l] = m
        BY <2>2, <3>3, <4>1, <4>3
      <4> QED BY <2>2, <3>2, <4>2, <4>3
    <3> QED BY <3>5, <3>6, <3>7
  <2> QED BY <2>1, <2>2
<1>11. \A y \in Outs : thr'[p][y].pc = "write" =>
         \A i \in DOMAIN outq[p] : outq[p][i].task \notin Ancestors[thr'[p][y].task]
  BY <1>1, <1>9 DEF OrderedAt
<1>12. OrderedAt(p)'
  BY <1>1, <1>6, <1>10, <1>11 DEF OrderedAt
<1> QED BY <1>1, <1>6, <1>8, <1>12, OrderedElsewhere

(* Three sequences behind one another.                                     *)
LEMMA ConcatFacts ==
  ASSUME NEW S, NEW a \in Seq(S), NEW b \in Seq(S), NEW c \in Seq(S)
  PROVE  /\ DOMAIN (a \o b \o c) = 1 .. Len(a) + Len(b) + Len(c)
         /\ \A i \in DOMAIN (a \o b \o c) :
              (a \o b \o c)[i] = IF i <= Len(a) THEN a[i]
                               ELSE IF i <= Len(a) + Len(b) THEN b[i - Len(a)]
                               ELSE c[i - Len(a) - Len(b)]
<1>1. a \o b \in Seq(S) /\ Len(a \o b) = Len(a) + Len(b)
  OBVIOUS
<1>2. \A i \in 1 .. Len(a) + Len(b) :
        (a \o b)[i] = IF i <= Len(a) THEN a[i] ELSE b[i - Len(a)]
  OBVIOUS
<1>3. PICK ab \in Seq(S) : ab = a \o b
  BY <1>1
<1>4. /\ DOMAIN (ab \o c) = 1 .. Len(ab) + Len(c)
      /\ \A i \in 1 .. Len(ab) + Len(c) :
           (ab \o c)[i] = IF i <= Len(ab) THEN ab[i] ELSE c[i - Len(ab)]
  OBVIOUS
<1> QED BY <1>1, <1>2, <1>3, <1>4

LEMMA LinesOrdered ==
  ASSUME IInv, Ordered
  PROVE  SentInOrder
<1> SUFFICES ASSUME NEW p \in Parties, NEW c \in 1 .. NumConns,
                    NEW i \in DOMAIN Line(p, c), NEW j \in DOMAIN Line(p, c), i < j
             PROVE  Line(p, c)[j].task \notin Ancestors[Line(p, c)[i].task]
  BY DEF SentInOrder
<1>1. ThreadTypes /\ SharedTypes /\ OrderedAt(p)
  BY DEF IInv, Inv, Types, Ordered
<1> DEFINE x == <<"out", c>>
<1>2. x \in Outs /\ x \in Threads(p)
  BY WriterOf, KindFacts
<1>3. PICK n \in Seq(Messages) : n = net[p][c]
  BY <1>1 DEF SharedTypes
<1>4. PICK q \in Seq(Messages) : q = outq[p]
  BY <1>1 DEF SharedTypes
<1>5. PICK h \in Seq(Messages) :
        /\ h = Hand(p, x) /\ Len(h) \in {0, 1}
        /\ Len(h) = 1 => thr[p][x].pc = "write" /\ h[1].task = thr[p][x].task
  <2>1. CASE thr[p][x].pc = "write"
    <3>1. thr[p][x].task \in Tasks /\ thr[p][x].step \in Nat
      BY <1>1, <1>2, <2>1, RecordFacts DEF Working
    <3>2. PICK t \in Tasks, s \in Nat : t = thr[p][x].task /\ s = thr[p][x].step
      BY <3>1
    <3>3. PICK m \in Messages : m = [task |-> t, round |-> s] /\ m.task = t
      <4>1. [task |-> t, round |-> s] \in Messages /\ [task |-> t, round |-> s].task = t
        BY DEF Messages
      <4> QED BY <4>1
    <3>4. <<m>> \in Seq(Messages) /\ Len(<<m>>) = 1 /\ <<m>>[1] = m
      OBVIOUS
    <3>5. Hand(p, x) = <<m>>
      BY <2>1, <3>2, <3>3 DEF Hand
    <3> QED BY <2>1, <3>2, <3>3, <3>4, <3>5
  <2>2. CASE thr[p][x].pc # "write"
    <3>1. Hand(p, x) = <<>>
      BY <2>2 DEF Hand
    <3>2. <<>> \in Seq(Messages) /\ Len(<<>>) = 0
      OBVIOUS
    <3>3. PICK e \in Seq(Messages) : e = <<>> /\ Len(e) = 0
      BY <3>2
    <3>4. e = Hand(p, x) /\ Len(e) \in {0, 1} /\ Len(e) # 1
      BY <3>1, <3>3
    <3> QED BY <3>4
  <2> QED BY <2>1, <2>2
<1>6. Line(p, c) = n \o h \o q
  BY <1>3, <1>4, <1>5 DEF Line
<1>7. /\ \A k, l \in DOMAIN n : k < l => n[l].task \notin Ancestors[n[k].task]
      /\ Len(h) = 1 => \A k \in DOMAIN n : h[1].task \notin Ancestors[n[k].task]
      /\ \A k \in DOMAIN n : \A l \in DOMAIN q : q[l].task \notin Ancestors[n[k].task]
      /\ Len(h) = 1 => \A l \in DOMAIN q : q[l].task \notin Ancestors[h[1].task]
      /\ \A k, l \in DOMAIN q : k < l => q[l].task \notin Ancestors[q[k].task]
  BY <1>1, <1>2, <1>3, <1>4, <1>5 DEF OrderedAt
<1> HIDE DEF x
<1>8. /\ i \in 1 .. Len(n) + Len(h) + Len(q) /\ j \in 1 .. Len(n) + Len(h) + Len(q)
      /\ \A k \in {i, j} :
           Line(p, c)[k] = IF k <= Len(n) THEN n[k]
                           ELSE IF k <= Len(n) + Len(h) THEN h[k - Len(n)]
                           ELSE q[k - Len(n) - Len(h)]
  <2>1. /\ DOMAIN (n \o h \o q) = 1 .. Len(n) + Len(h) + Len(q)
        /\ \A k \in DOMAIN (n \o h \o q) :
             (n \o h \o q)[k] = IF k <= Len(n) THEN n[k]
                              ELSE IF k <= Len(n) + Len(h) THEN h[k - Len(n)]
                              ELSE q[k - Len(n) - Len(h)]
    BY ConcatFacts
  <2>2. i \in DOMAIN (n \o h \o q) /\ j \in DOMAIN (n \o h \o q)
    BY <1>6
  <2> QED BY <1>6, <2>1, <2>2
<1>9. Len(n) \in Nat /\ Len(q) \in Nat /\ DOMAIN n = 1 .. Len(n) /\ DOMAIN q = 1 .. Len(q)
  OBVIOUS
<1>10. ASSUME NEW k \in {i, j}
       PROVE  \/ k \in DOMAIN n /\ Line(p, c)[k] = n[k]
              \/ Len(h) = 1 /\ k = Len(n) + 1 /\ Line(p, c)[k] = h[1]
              \/ /\ k - Len(n) - Len(h) \in DOMAIN q
                 /\ Line(p, c)[k] = q[k - Len(n) - Len(h)]
                 /\ k > Len(n) + Len(h)
  <2>1. k \in Nat /\ 1 <= k /\ k <= Len(n) + Len(h) + Len(q) /\ Len(h) \in {0, 1}
    BY <1>5, <1>8, <1>9
  <2>2. CASE k <= Len(n)
    BY <1>8, <1>9, <2>1, <2>2
  <2>3. CASE ~(k <= Len(n)) /\ k <= Len(n) + Len(h)
    <3>1. Len(h) = 1 /\ k = Len(n) + 1 /\ k - Len(n) = 1
      <4>1. PICK a \in Nat, b \in {0, 1} : a = Len(n) /\ b = Len(h)
        BY <1>9, <2>1
      <4>2. k > a /\ k <= a + b /\ k \in Nat
        BY <2>1, <2>3, <4>1
      <4>3. b = 1 /\ k = a + 1 /\ k - a = 1
        BY <4>2
      <4> QED BY <4>1, <4>3
    <3>2. Line(p, c)[k] = h[k - Len(n)]
      BY <1>8, <2>3
    <3> QED BY <3>1, <3>2
  <2>4. CASE ~(k <= Len(n)) /\ ~(k <= Len(n) + Len(h))
    <3>1. k - Len(n) - Len(h) \in DOMAIN q /\ k > Len(n) + Len(h)
      BY <1>9, <2>1, <2>4
    <3> QED BY <1>8, <2>4, <3>1
  <2> QED BY <2>2, <2>3, <2>4
<1>11. i \in Nat /\ j \in Nat /\ Len(h) \in {0, 1}
  BY <1>5, <1>8
<1>12. CASE i \in DOMAIN n /\ Line(p, c)[i] = n[i]
  <2>1. CASE j \in DOMAIN n /\ Line(p, c)[j] = n[j]
    BY <1>7, <1>12, <2>1
  <2>2. CASE Len(h) = 1 /\ Line(p, c)[j] = h[1]
    BY <1>7, <1>12, <2>2
  <2>3. CASE \E l \in DOMAIN q : Line(p, c)[j] = q[l]
    BY <1>7, <1>12, <2>3
  <2> QED BY <1>10, <2>1, <2>2, <2>3
<1>13. CASE Len(h) = 1 /\ i = Len(n) + 1 /\ Line(p, c)[i] = h[1]
  <2>1. j - Len(n) - Len(h) \in DOMAIN q /\ Line(p, c)[j] = q[j - Len(n) - Len(h)]
    <3>1. ~(j \in DOMAIN n) /\ j # Len(n) + 1
      BY <1>9, <1>11, <1>13
    <3> QED BY <1>10, <3>1
  <2> QED BY <1>7, <1>13, <2>1
<1>14. CASE /\ i - Len(n) - Len(h) \in DOMAIN q
            /\ Line(p, c)[i] = q[i - Len(n) - Len(h)]
            /\ i > Len(n) + Len(h)
  <2>1. j - Len(n) - Len(h) \in DOMAIN q /\ Line(p, c)[j] = q[j - Len(n) - Len(h)]
    <3>1. ~(j \in DOMAIN n) /\ ~(Len(h) = 1 /\ j = Len(n) + 1)
      BY <1>9, <1>11, <1>14
    <3> QED BY <1>10, <3>1
  <2>2. i - Len(n) - Len(h) < j - Len(n) - Len(h)
    BY <1>9, <1>11
  <2> QED BY <1>7, <1>14, <2>1, <2>2
<1> QED BY <1>10, <1>12, <1>13, <1>14

(* For every number of runner threads and connections, what a party sends  *)
(* by one connection is in topological order, from the queue to the wire:  *)
(* send_outgoing queues a task's data before the task can launch others    *)
(* (runner.rs:272-276), and queue and thread keep the order.               *)
THEOREM SentInOrderTheorem == Spec => []SentInOrder
<1>1. Init => Ordered
  <2> SUFFICES ASSUME Init PROVE Ordered
    OBVIOUS
  <2>1. \A p \in Parties : outq[p] = <<>> /\ \A c \in 1 .. NumConns : net[p][c] = <<>>
    BY DEF Init
  <2>2. \A p \in Parties : \A x \in Outs : thr[p][x].pc # "write"
    <3>1. ASSUME NEW p \in Parties, NEW x \in Outs PROVE thr[p][x] = Idle
      <4>1. x \in Threads(p) /\ x # Main
        BY KindFacts
      <4> QED BY <4>1 DEF Init
    <3> QED BY <3>1 DEF Idle
  <2> QED BY <2>1, <2>2, WriterOf DEF Ordered, OrderedAt
<1>2. IInv /\ Ordered /\ [Next]_vars => Ordered'
  <2> SUFFICES ASSUME IInv, Ordered, [Next]_vars PROVE Ordered'
    OBVIOUS
  <2>1. CASE Eases
    BY <2>1, OrderedEases
  <2>2. ASSUME NEW p \in Parties, NEW x \in Runners(p), SendOutgoing(p, x) PROVE Ordered'
    BY <2>2, SendOrdered
  <2>3. ASSUME NEW p \in Parties, NEW x \in Outs, TakeOutgoing(p, x) \/ WriteOutgoing(p, x)
        PROVE  Ordered'
    BY <2>3, TakeOrdered, WriteOrdered
  <2> QED BY <2>1, <2>2, <2>3, OthersEase
<1>3. IInv /\ Ordered => SentInOrder
  BY LinesOrdered
<1> QED BY <1>1, <1>2, <1>3, Inductive, PTL DEF Spec
=============================================================================
