------------------------- MODULE PeerExchangeProofs -------------------------
(***************************************************************************)
(* Proofs about PeerExchange, for every number and size of edaBits, every  *)
(* cut and choose, all pools, buffers and sockets.                         *)
(*                                                                         *)
(* The two programs are the views of one script of events (Paired).  A     *)
(* script determines a run: a draw from an empty pool puts an extension    *)
(* before itself, which depends on nothing but the pools.  The invariant   *)
(* says that each peer is somewhere on that run and that the channel holds *)
(* the messages in between, so a reader meets what the writer sent from    *)
(* the very same state.                                                    *)
(***************************************************************************)
EXTENDS PeerExchange, FiniteSetTheorems, SequenceTheorems, TLAPS

(* What messages carry.                                                    *)
Names == {"corrections", "values", "mac", "zero seed", "chi", "u v", "seed",
          "shuffle seed", "shares", "toss com", "toss", "toss opening",
          "ot columns", "ot check", "ot keys", "eq com", "eq x", "eq opening",
          "a prime", "d", "x star"}
Msgs == Coms \X Names \X Nat
Messages == [msg : Msgs, used : [Coms -> Nat], corrected : [Coms -> Nat]]
Ops == [do : {"draw", "refill"}, com : Coms]
         \cup [do : {"write", "read"}, msg : Msgs] \cup [do : {"flush"}]
(* An event of the protocol: a draw or a refill that both peers make, or   *)
(* a message of one to the other; and what a peer does about it.           *)
Events == [do : {"draw", "refill"}, com : Coms]
            \cup [do : {"message"}, from : Parties, msg : Msgs]
View(p, e) ==
  IF e.do = "message"
  THEN [do |-> IF e.from = p THEN "write" ELSE "read", msg |-> e.msg]
  ELSE e

(* Where in a program the events of a script are: in order, each once,     *)
(* and nothing but flushes in between.                                     *)
Places(p, ops, script) ==
  {f \in [DOMAIN script -> DOMAIN ops] :
     /\ \A i, j \in DOMAIN script : i < j => f[i] < f[j]
     /\ \A i \in DOMAIN script : ops[f[i]] = View(p, script[i])
     /\ \A k \in DOMAIN ops : ops[k].do = "flush" \/ \E i \in DOMAIN script : f[i] = k}
Follows(p, ops, script) ==
  /\ ops \in Seq(Ops) /\ script \in Seq(Events)
  /\ Places(p, ops, script) # {}

(* A set of numbers that is not empty has a least one.                     *)
LEMMA LeastNat ==
  ASSUME NEW T \in SUBSET Nat, T # {}
  PROVE  \E x \in T : \A y \in T : x <= y
<1>1. \E x \in T : \A y \in T : ~ (<<y, x>> \in OpToRel(<, Nat))
  BY NatLessThanWellFounded, WFMin
<1>2. PICK x \in T : \A y \in T : ~ (<<y, x>> \in OpToRel(<, Nat))
  BY <1>1
<1>3. \A y \in T : ~(y < x)
  BY <1>2 DEF OpToRel
<1> QED BY <1>3

(* Induction, on sets: what holds 0 and the successor of each it holds is  *)
(* Nat.                                                                    *)
LEMMA ByInduction ==
  ASSUME NEW S \in SUBSET Nat, 0 \in S, \A n \in S : n + 1 \in S
  PROVE  S = Nat
<1> SUFFICES ASSUME S # Nat PROVE FALSE OBVIOUS
<1>1. PICK x \in Nat \ S : \A y \in Nat \ S : x <= y
  BY LeastNat
<1>2. x - 1 \in Nat /\ x - 1 \notin Nat \ S
  BY <1>1
<1> QED BY <1>1, <1>2

(* What a peer does about an event is an operation, and no flush.          *)
LEMMA ViewType ==
  ASSUME NEW p \in Parties, NEW e \in Events
  PROVE  View(p, e) \in Ops /\ View(p, e).do # "flush"
BY DEF View, Ops, Events

(* An empty program and a flush alone follow the empty script.             *)
LEMMA FollowsNothing ==
  ASSUME NEW p \in Parties
  PROVE  Follows(p, <<>>, <<>>) /\ Follows(p, Flush, <<>>)
<1> DEFINE none == [i \in DOMAIN <<>> |-> 1]
<1>1. <<>> \in Seq(Ops) /\ <<>> \in Seq(Events) /\ Flush \in Seq(Ops)
  BY DEF Flush, Ops
<1>2. none \in Places(p, <<>>, <<>>)
  BY DEF Places
<1>3. none \in Places(p, Flush, <<>>)
  BY DEF Places, Flush
<1> QED BY <1>1, <1>2, <1>3 DEF Follows

(* The view of one event follows it.                                       *)
LEMMA FollowsEvent ==
  ASSUME NEW p \in Parties, NEW e \in Events
  PROVE  Follows(p, <<View(p, e)>>, <<e>>)
<1> DEFINE f == [i \in DOMAIN <<e>> |-> 1]
<1>1. f \in Places(p, <<View(p, e)>>, <<e>>)
  BY DEF Places
<1> QED BY <1>1, ViewType DEF Follows

(* Programs one after the other follow their scripts one after the other.  *)
LEMMA FollowsConcat ==
  ASSUME NEW p \in Parties, NEW a, NEW b, NEW s, NEW t,
         Follows(p, a, s), Follows(p, b, t)
  PROVE  Follows(p, a \o b, s \o t)
<1>1. /\ a \in Seq(Ops) /\ b \in Seq(Ops) /\ s \in Seq(Events) /\ t \in Seq(Events)
      /\ a \o b \in Seq(Ops) /\ s \o t \in Seq(Events)
  BY DEF Follows
<1>2. PICK f \in Places(p, a, s), g \in Places(p, b, t) : TRUE
  BY DEF Follows
<1>3. /\ f \in [DOMAIN s -> DOMAIN a]
      /\ \A i, j \in DOMAIN s : i < j => f[i] < f[j]
      /\ \A i \in DOMAIN s : a[f[i]] = View(p, s[i])
      /\ \A k \in DOMAIN a : a[k].do = "flush" \/ \E i \in DOMAIN s : f[i] = k
  BY <1>2 DEF Places
<1>4. /\ g \in [DOMAIN t -> DOMAIN b]
      /\ \A i, j \in DOMAIN t : i < j => g[i] < g[j]
      /\ \A i \in DOMAIN t : b[g[i]] = View(p, t[i])
      /\ \A k \in DOMAIN b : b[k].do = "flush" \/ \E i \in DOMAIN t : g[i] = k
  BY <1>2 DEF Places
<1> DEFINE h == [i \in DOMAIN (s \o t) |-> IF i <= Len(s) THEN f[i] ELSE g[i - Len(s)] + Len(a)]
<1>5. /\ DOMAIN s = 1 .. Len(s) /\ DOMAIN t = 1 .. Len(t)
      /\ DOMAIN a = 1 .. Len(a) /\ DOMAIN b = 1 .. Len(b)
      /\ DOMAIN (s \o t) = 1 .. Len(s) + Len(t)
      /\ DOMAIN (a \o b) = 1 .. Len(a) + Len(b)
      /\ Len(s) \in Nat /\ Len(t) \in Nat /\ Len(a) \in Nat /\ Len(b) \in Nat
      /\ \A i \in 1 .. Len(s) + Len(t) :
            (s \o t)[i] = IF i <= Len(s) THEN s[i] ELSE t[i - Len(s)]
      /\ \A i \in 1 .. Len(a) + Len(b) :
            (a \o b)[i] = IF i <= Len(a) THEN a[i] ELSE b[i - Len(a)]
  BY <1>1
<1>6. \A i \in DOMAIN (s \o t) :
        IF i <= Len(s) THEN h[i] = f[i] /\ i \in DOMAIN s /\ f[i] \in DOMAIN a
        ELSE h[i] = g[i - Len(s)] + Len(a) /\ i - Len(s) \in DOMAIN t /\ g[i - Len(s)] \in DOMAIN b
  BY <1>3, <1>4, <1>5
<1> HIDE DEF h
<1>7. h \in [DOMAIN (s \o t) -> DOMAIN (a \o b)]
  <2>1. h = [i \in DOMAIN (s \o t) |-> h[i]]
    BY DEF h
  <2>2. \A i \in DOMAIN (s \o t) : h[i] \in DOMAIN (a \o b)
    BY SMTT(30), <1>5, <1>6
  <2> QED BY <2>1, <2>2
<1>8. \A i, j \in DOMAIN (s \o t) : i < j => h[i] < h[j]
  <2> SUFFICES ASSUME NEW i \in DOMAIN (s \o t), NEW j \in DOMAIN (s \o t), i < j
               PROVE  h[i] < h[j]
    OBVIOUS
  <2>1. CASE j <= Len(s)
    BY <1>3, <1>5, <1>6, <2>1
  <2>2. CASE i > Len(s)
    <3>1. /\ i - Len(s) \in DOMAIN t /\ j - Len(s) \in DOMAIN t /\ i - Len(s) < j - Len(s)
          /\ h[i] = g[i - Len(s)] + Len(a) /\ h[j] = g[j - Len(s)] + Len(a)
          /\ g[i - Len(s)] \in DOMAIN b /\ g[j - Len(s)] \in DOMAIN b
      BY <1>5, <1>6, <2>2
    <3>2. g[i - Len(s)] < g[j - Len(s)]
      BY <1>4, <3>1
    <3> QED BY SMTT(30), <1>5, <3>1, <3>2
  <2>3. CASE i <= Len(s) /\ j > Len(s)
    BY <1>5, <1>6, <2>3
  <2> QED BY <1>5, <2>1, <2>2, <2>3
<1>9. \A i \in DOMAIN (s \o t) : (a \o b)[h[i]] = View(p, (s \o t)[i])
  <2> SUFFICES ASSUME NEW i \in DOMAIN (s \o t)
               PROVE  (a \o b)[h[i]] = View(p, (s \o t)[i])
    OBVIOUS
  <2>1. CASE i <= Len(s)
    <3>1. h[i] = f[i] /\ i \in DOMAIN s /\ f[i] \in 1 .. Len(a)
      BY <1>5, <1>6, <2>1
    <3>2. (a \o b)[f[i]] = a[f[i]]
      BY <1>5, <3>1
    <3>3. (s \o t)[i] = s[i]
      BY <1>5, <2>1
    <3> QED BY <1>3, <3>1, <3>2, <3>3
  <2>2. CASE ~(i <= Len(s))
    <3>1. h[i] = g[i - Len(s)] + Len(a) /\ i - Len(s) \in DOMAIN t /\ g[i - Len(s)] \in 1 .. Len(b)
      BY <1>5, <1>6, <2>2
    <3>2. (a \o b)[h[i]] = b[g[i - Len(s)]]
      BY SMTT(30), <1>5, <3>1
    <3>3. (s \o t)[i] = t[i - Len(s)]
      BY <1>5, <2>2
    <3> QED BY <1>4, <3>1, <3>2, <3>3
  <2> QED BY <2>1, <2>2
<1>10. \A k \in DOMAIN (a \o b) :
          (a \o b)[k].do = "flush" \/ \E i \in DOMAIN (s \o t) : h[i] = k
  <2> SUFFICES ASSUME NEW k \in DOMAIN (a \o b), (a \o b)[k].do # "flush"
               PROVE  \E i \in DOMAIN (s \o t) : h[i] = k
    OBVIOUS
  <2>1. CASE k <= Len(a)
    <3>1. k \in DOMAIN a /\ a[k].do # "flush"
      BY <1>5, <2>1
    <3>2. PICK i \in DOMAIN s : f[i] = k
      BY <1>3, <3>1
    <3>3. i \in DOMAIN (s \o t) /\ h[i] = k
      BY <1>5, <1>6, <3>2
    <3> QED BY <3>3
  <2>2. CASE ~(k <= Len(a))
    <3>1. k - Len(a) \in DOMAIN b /\ b[k - Len(a)].do # "flush"
      BY <1>5, <2>2
    <3>2. PICK i \in DOMAIN t : g[i] = k - Len(a)
      BY <1>4, <3>1
    <3>3. i + Len(s) \in DOMAIN (s \o t) /\ (i + Len(s)) - Len(s) = i /\ ~(i + Len(s) <= Len(s))
      BY <1>5, <3>2
    <3>4. h[i + Len(s)] = g[i] + Len(a)
      BY <1>6, <3>3
    <3>5. h[i + Len(s)] = k
      BY <1>5, <3>2, <3>4
    <3> QED BY <3>3, <3>5
  <2> QED BY <2>1, <2>2
<1>11. h \in Places(p, a \o b, s \o t)
  BY <1>7, <1>8, <1>9, <1>10 DEF Places
<1> QED BY <1>1, <1>11 DEF Follows

(* The first operation of a program is a flush, and the rest still         *)
(* follows the script, or it is the view of the first event, and the rest  *)
(* follows the rest.                                                       *)
LEMMA FollowsHead ==
  ASSUME NEW p \in Parties, NEW a, NEW s, Follows(p, a, s), a # <<>>
  PROVE  /\ Head(a).do = "flush" => Follows(p, Tail(a), s)
         /\ Head(a).do # "flush" =>
              /\ s # <<>> /\ Head(s) \in Events
              /\ Head(a) = View(p, Head(s))
              /\ Follows(p, Tail(a), Tail(s))
<1>1. /\ a \in Seq(Ops) /\ s \in Seq(Events)
      /\ DOMAIN s = 1 .. Len(s) /\ DOMAIN a = 1 .. Len(a)
      /\ Len(a) \in Nat /\ Len(s) \in Nat /\ Len(a) >= 1
      /\ Tail(a) \in Seq(Ops) /\ DOMAIN Tail(a) = 1 .. Len(a) - 1
      /\ Head(a) = a[1] /\ \A i \in 1 .. Len(a) - 1 : Tail(a)[i] = a[i + 1]
  BY DEF Follows
<1>2. PICK f \in Places(p, a, s) : TRUE
  BY DEF Follows
<1>3. /\ f \in [DOMAIN s -> DOMAIN a]
      /\ \A i, j \in DOMAIN s : i < j => f[i] < f[j]
      /\ \A i \in DOMAIN s : a[f[i]] = View(p, s[i])
      /\ \A k \in DOMAIN a : a[k].do = "flush" \/ \E i \in DOMAIN s : f[i] = k
  BY <1>2 DEF Places
<1>4. ASSUME Head(a).do = "flush" PROVE Follows(p, Tail(a), s)
  <2> DEFINE g == [i \in DOMAIN s |-> f[i] - 1]
  <2>1. \A i \in DOMAIN s : f[i] # 1
    <3> SUFFICES ASSUME NEW i \in DOMAIN s, f[i] = 1 PROVE FALSE
      OBVIOUS
    <3>1. s[i] \in Events
      BY <1>1
    <3> QED BY <1>1, <1>3, <1>4, <3>1, ViewType
  <2>2. g \in [DOMAIN s -> DOMAIN Tail(a)]
    BY <1>1, <1>3, <2>1
  <2>3. \A i, j \in DOMAIN s : i < j => g[i] < g[j]
    BY <1>1, <1>3
  <2>4. \A i \in DOMAIN s : Tail(a)[g[i]] = View(p, s[i])
    BY <1>1, <1>3, <2>2
  <2>5. \A k \in DOMAIN Tail(a) : Tail(a)[k].do = "flush" \/ \E i \in DOMAIN s : g[i] = k
    BY <1>1, <1>3
  <2>6. g \in Places(p, Tail(a), s)
    BY <2>2, <2>3, <2>4, <2>5 DEF Places
  <2> QED BY <1>1, <2>6 DEF Follows
<1>5. ASSUME Head(a).do # "flush"
      PROVE  /\ s # <<>> /\ Head(s) \in Events
             /\ Head(a) = View(p, Head(s))
             /\ Follows(p, Tail(a), Tail(s))
  <2>1. PICK i \in DOMAIN s : f[i] = 1
    BY <1>1, <1>3, <1>5
  <2>2. i = 1
    <3>1. 1 \in DOMAIN s /\ f[1] \in DOMAIN a
      BY <1>1, <1>3, <2>1
    <3>2. ~(1 < i)
      BY <1>1, <1>3, <2>1, <3>1
    <3> QED BY <1>1, <3>2
  <2>3. /\ s # <<>> /\ Tail(s) \in Seq(Events) /\ DOMAIN Tail(s) = 1 .. Len(s) - 1
        /\ Head(s) = s[1] /\ \A j \in 1 .. Len(s) - 1 : Tail(s)[j] = s[j + 1]
        /\ Head(s) \in Events
    BY <1>1, <2>1
  <2>4. Head(a) = View(p, Head(s))
    BY <1>1, <1>3, <2>1, <2>2, <2>3
  <2> DEFINE g == [j \in DOMAIN Tail(s) |-> f[j + 1] - 1]
  <2>5. \A j \in 1 .. Len(s) - 1 : j + 1 \in DOMAIN s /\ f[j + 1] \in DOMAIN a /\ f[j + 1] > 1
    BY <1>1, <1>3, <2>1, <2>2
  <2>6. g \in [DOMAIN Tail(s) -> DOMAIN Tail(a)]
    BY <1>1, <2>3, <2>5
  <2>7. \A j, k \in DOMAIN Tail(s) : j < k => g[j] < g[k]
    <3> SUFFICES ASSUME NEW j \in DOMAIN Tail(s), NEW k \in DOMAIN Tail(s), j < k
                 PROVE  g[j] < g[k]
      OBVIOUS
    <3>1. /\ j \in 1 .. Len(s) - 1 /\ k \in 1 .. Len(s) - 1
          /\ g[j] = f[j + 1] - 1 /\ g[k] = f[k + 1] - 1
      BY <2>3
    <3>2. /\ j + 1 \in DOMAIN s /\ k + 1 \in DOMAIN s /\ j + 1 < k + 1
          /\ f[j + 1] \in Int /\ f[k + 1] \in Int
      BY <1>1, <2>5, <3>1
    <3>3. f[j + 1] < f[k + 1]
      BY <1>3, <3>2
    <3> QED BY <3>1, <3>2, <3>3
  <2>8. \A j \in DOMAIN Tail(s) : Tail(a)[g[j]] = View(p, Tail(s)[j])
    <3> SUFFICES ASSUME NEW j \in DOMAIN Tail(s)
                 PROVE  Tail(a)[g[j]] = View(p, Tail(s)[j])
      OBVIOUS
    <3>1. /\ j \in 1 .. Len(s) - 1 /\ Tail(s)[j] = s[j + 1] /\ g[j] = f[j + 1] - 1
      BY <2>3
    <3>2. /\ j + 1 \in DOMAIN s /\ g[j] \in 1 .. Len(a) - 1 /\ g[j] + 1 = f[j + 1]
      BY <1>1, <2>5, <3>1
    <3>3. Tail(a)[g[j]] = a[f[j + 1]]
      BY <1>1, <3>2
    <3> QED BY <1>3, <3>1, <3>2, <3>3
  <2>9. \A k \in DOMAIN Tail(a) : Tail(a)[k].do = "flush" \/ \E j \in DOMAIN Tail(s) : g[j] = k
    <3> SUFFICES ASSUME NEW k \in DOMAIN Tail(a), Tail(a)[k].do # "flush"
                 PROVE  \E j \in DOMAIN Tail(s) : g[j] = k
      OBVIOUS
    <3>1. PICK j \in DOMAIN s : f[j] = k + 1
      BY <1>1, <1>3
    <3>2. j # 1
      BY <1>1, <2>1, <2>2, <3>1
    <3>3. j - 1 \in DOMAIN Tail(s) /\ g[j - 1] = k
      BY <1>1, <2>3, <3>1, <3>2
    <3> QED BY <3>3
  <2>10. g \in Places(p, Tail(a), Tail(s))
    BY <2>6, <2>7, <2>8, <2>9 DEF Places
  <2> QED BY <1>1, <2>3, <2>4, <2>10 DEF Follows
<1> QED BY <1>4, <1>5

(* One script is followed by both peers.                                   *)
Paired(p, a, b) == \E s : Follows(p, a, s) /\ Follows(Peer(p), b, s)

(* There are two peers.                                                    *)
LEMMA PeerFacts ==
  ASSUME NEW p \in Parties
  PROVE  Peer(p) \in Parties /\ Peer(Peer(p)) = p /\ Peer(p) # p /\ \A r \in Parties : r = p \/ r = Peer(p)
BY DEF Parties, Peer

(* Pairing does not depend on whose program comes first.                   *)
LEMMA PairedSwap ==
  ASSUME NEW p \in Parties, NEW a, NEW b, Paired(p, a, b)
  PROVE  Paired(Peer(p), b, a)
BY PeerFacts DEF Paired

(* A flush is paired with nothing.                                         *)
LEMMA PairedNothing ==
  ASSUME NEW p \in Parties
  PROVE  Paired(p, <<>>, <<>>) /\ Paired(p, Flush, <<>>) /\ Paired(p, <<>>, Flush)
BY FollowsNothing, PeerFacts DEF Paired

(* Paired programs are sequences of operations.                            *)
LEMMA PairedSeqs ==
  ASSUME NEW p \in Parties, NEW a, NEW b, Paired(p, a, b)
  PROVE  a \in Seq(Ops) /\ b \in Seq(Ops)
BY DEF Paired, Follows

(* Programs paired part by part are paired.                                *)
LEMMA PairedConcat ==
  ASSUME NEW p \in Parties, NEW a, NEW b, NEW c, NEW d,
         Paired(p, a, b), Paired(p, c, d)
  PROVE  Paired(p, a \o c, b \o d)
<1>1. PICK s : Follows(p, a, s) /\ Follows(Peer(p), b, s)
  BY DEF Paired
<1>2. PICK t : Follows(p, c, t) /\ Follows(Peer(p), d, t)
  BY DEF Paired
<1>3. Follows(p, a \o c, s \o t) /\ Follows(Peer(p), b \o d, s \o t)
  BY <1>1, <1>2, FollowsConcat, PeerFacts
<1> QED BY <1>3 DEF Paired

(* A flush added on either side changes nothing.                           *)
LEMMA PairedFlush ==
  ASSUME NEW p \in Parties, NEW a, NEW b, Paired(p, a, b)
  PROVE  Paired(p, a \o Flush, b) /\ Paired(p, a, b \o Flush)
<1>1. Paired(p, a \o Flush, b \o <<>>) /\ Paired(p, a \o <<>>, b \o Flush)
  BY PairedNothing, PairedConcat
<1>2. a \o <<>> = a /\ b \o <<>> = b
  BY PairedSeqs
<1> QED BY <1>1, <1>2

(* A write is paired with the read of the same message (homcom.rs,         *)
(* channel of scuttlebutt).                                                *)
LEMMA PairedMessage ==
  ASSUME NEW p \in Parties, NEW c \in Coms, NEW what \in Names, NEW n \in Nat
  PROVE  Paired(p, Write(c, what, n), Read(c, what, n)) /\ Paired(p, Read(c, what, n), Write(c, what, n))
<1>1. ASSUME NEW q \in Parties
      PROVE  Paired(q, Write(c, what, n), Read(c, what, n))
  <2> DEFINE e == [do |-> "message", from |-> q, msg |-> <<c, what, n>>]
  <2>1. e \in Events
    BY DEF Events, Msgs
  <2>2. <<View(q, e)>> = Write(c, what, n) /\ <<View(Peer(q), e)>> = Read(c, what, n)
    BY PeerFacts DEF View, Write, Read
  <2> HIDE DEF e
  <2> QED BY <2>1, <2>2, FollowsEvent, PeerFacts DEF Paired
<1> QED BY <1>1, PairedSwap, PeerFacts

(* The same draws are paired with themselves.                              *)
LEMMA PairedDraws ==
  ASSUME NEW p \in Parties, NEW c \in Coms, NEW n \in Nat
  PROVE  Paired(p, Draws(c, n), Draws(c, n))
<1> DEFINE d == Draws(c, n)
           f == [i \in DOMAIN d |-> i]
<1>1. d \in Seq(Ops) /\ d \in Seq(Events) /\ DOMAIN d = 1 .. n
      /\ \A i \in 1 .. n : d[i] = [do |-> "draw", com |-> c]
  BY DEF Draws, Ops, Events
<1>2. ASSUME NEW q \in Parties PROVE f \in Places(q, d, d)
  BY <1>1 DEF Places, View
<1> QED BY <1>1, <1>2, PeerFacts DEF Paired, Follows

(* A repetition is the last element of the sequence of its prefixes: the   *)
(* recursive function of FlattenSeq has a solution, by induction on its    *)
(* length.                                                                 *)
LEMMA TimesUnfolds ==
  ASSUME NEW n \in Nat, n > 0, NEW a
  PROVE  \E f : f = [i \in 1 .. n |-> IF i = 1 THEN a ELSE f[i - 1] \o a] /\ Times(n, a) = f[n]
<1> DEFINE Def(f, k) == f = [i \in 1 .. k |-> IF i = 1 THEN a ELSE f[i - 1] \o a]
           S == {k \in Nat : \E f : Def(f, k)}
<1>1. 0 \in S
  <2>1. Def([i \in 1 .. 0 |-> a], 0)
    OBVIOUS
  <2> QED BY <2>1
<1>2. ASSUME NEW k \in S PROVE k + 1 \in S
  <2>1. PICK f : Def(f, k)
    OBVIOUS
  <2> DEFINE g == [i \in 1 .. k + 1 |-> IF i = 1 THEN a ELSE f[i - 1] \o a]
  <2>2. ASSUME NEW i \in 1 .. k PROVE g[i] = f[i]
    <3>1. f[i] = IF i = 1 THEN a ELSE f[i - 1] \o a
      BY <2>1, Zenon
    <3>2. i \in 1 .. k + 1
      OBVIOUS
    <3> QED BY <3>1, <3>2
  <2>3. ASSUME NEW i \in 1 .. k + 1
        PROVE  g[i] = IF i = 1 THEN a ELSE g[i - 1] \o a
    <3>1. CASE i = 1
      BY <3>1
    <3>2. CASE i # 1
      <4>1. i - 1 \in 1 .. k
        BY <3>2
      <4>2. g[i - 1] = f[i - 1]
        BY <2>2, <4>1
      <4> QED BY <3>2, <4>2
    <3> QED BY <3>1, <3>2
  <2>4. g = [i \in 1 .. k + 1 |-> g[i]]
    OBVIOUS
  <2> HIDE DEF g
  <2>5. [i \in 1 .. k + 1 |-> g[i]] = [i \in 1 .. k + 1 |-> IF i = 1 THEN a ELSE g[i - 1] \o a]
    BY <2>3
  <2>6. Def(g, k + 1)
    BY <2>4, <2>5, Zenon
  <2>7. k + 1 \in Nat
    OBVIOUS
  <2> HIDE DEF Def
  <2> QED BY <2>6, <2>7
<1> HIDE DEF Def
<1>3. S = Nat
  BY <1>1, <1>2, ByInduction
<1>4. \E f : Def(f, n)
  BY <1>3
<1> DEFINE seqs == [i \in 1 .. n |-> a]
<1>5. Len(seqs) = n /\ Len(seqs) # 0 /\ \A i \in 1 .. n : seqs[i] = a
  OBVIOUS
<1> DEFINE flatten == CHOOSE f : f = [i \in 1 .. Len(seqs) |-> IF i = 1 THEN seqs[i] ELSE f[i - 1] \o seqs[i]]
<1>6. Times(n, a) = flatten[n]
  <2>1. Times(n, a) = FlattenSeq(seqs)
    BY DEF Times
  <2>2. FlattenSeq(seqs) = flatten[Len(seqs)]
    BY <1>5, Zenon DEF FlattenSeq
  <2> QED BY <1>5, <2>1, <2>2
<1> HIDE DEF seqs
<1>7. ASSUME NEW f
      PROVE  [i \in 1 .. Len(seqs) |-> IF i = 1 THEN seqs[i] ELSE f[i - 1] \o seqs[i]]
               = [i \in 1 .. n |-> IF i = 1 THEN a ELSE f[i - 1] \o a]
  <2>1. [i \in 1 .. n |-> IF i = 1 THEN seqs[i] ELSE f[i - 1] \o seqs[i]]
          = [i \in 1 .. n |-> IF i = 1 THEN a ELSE f[i - 1] \o a]
    BY <1>5
  <2> QED BY <1>5, <2>1, Zenon
<1>8. Def(flatten, n)
  <2>1. PICK f : f = [i \in 1 .. n |-> IF i = 1 THEN a ELSE f[i - 1] \o a]
    BY <1>4, Zenon DEF Def
  <2>3. f = [i \in 1 .. Len(seqs) |-> IF i = 1 THEN seqs[i] ELSE f[i - 1] \o seqs[i]]
    BY <2>1, <1>7, Zenon
  <2>2. flatten = [i \in 1 .. Len(seqs) |-> IF i = 1 THEN seqs[i] ELSE flatten[i - 1] \o seqs[i]]
    BY <2>3, Zenon
  <2> QED BY <1>7, <2>2, Zenon DEF Def
<1> HIDE DEF flatten
<1> QED BY <1>6, <1>8, Zenon DEF Def

(* Loops are paired when their bodies are, by induction on the rounds.     *)
LEMMA PairedTimes ==
  ASSUME NEW p \in Parties, NEW n \in Nat, NEW a, NEW b, Paired(p, a, b)
  PROVE  Paired(p, Times(n, a), Times(n, b))
<1>1. CASE n = 0
  <2>1. Times(n, a) = <<>> /\ Times(n, b) = <<>>
    BY <1>1 DEF Times, FlattenSeq
  <2> QED BY <2>1, PairedNothing
<1>2. CASE n > 0
  <2>1. PICK f : f = [i \in 1 .. n |-> IF i = 1 THEN a ELSE f[i - 1] \o a] /\ Times(n, a) = f[n]
    BY <1>2, TimesUnfolds
  <2>2. PICK g : g = [i \in 1 .. n |-> IF i = 1 THEN b ELSE g[i - 1] \o b] /\ Times(n, b) = g[n]
    BY <1>2, TimesUnfolds
  <2> DEFINE S == {k \in Nat : k + 1 \in 1 .. n => Paired(p, f[k + 1], g[k + 1])}
  <2>3. ASSUME NEW i \in 1 .. n
        PROVE  /\ f[i] = IF i = 1 THEN a ELSE f[i - 1] \o a
               /\ g[i] = IF i = 1 THEN b ELSE g[i - 1] \o b
    BY <2>1, <2>2, Zenon
  <2>4. 0 \in S
    BY <2>3
  <2>5. ASSUME NEW k \in S PROVE k + 1 \in S
    <3> SUFFICES ASSUME k + 2 \in 1 .. n PROVE Paired(p, f[k + 2], g[k + 2])
      OBVIOUS
    <3>1. /\ k + 1 \in 1 .. n /\ k + 1 = k + 2 - 1 /\ k + 2 # 1 /\ k + 2 = (k + 1) + 1
          /\ Paired(p, f[k + 1], g[k + 1])
      OBVIOUS
    <3>2. f[k + 2] = f[k + 1] \o a /\ g[k + 2] = g[k + 1] \o b
      <4> DEFINE i == k + 2
      <4>1. i \in 1 .. n /\ i # 1 /\ i - 1 = k + 1
        BY <3>1
      <4> HIDE DEF i
      <4>2. f[i] = f[i - 1] \o a /\ g[i] = g[i - 1] \o b
        BY <2>3, <4>1
      <4> QED BY <4>1, <4>2 DEF i
    <3> QED BY <3>1, <3>2, PairedConcat
  <2>6. S = Nat
    BY <2>4, <2>5, ByInduction
  <2>7. n - 1 \in Nat /\ n - 1 + 1 = n /\ n \in 1 .. n
    BY <1>2
  <2>8. n - 1 \in S
    BY <2>6, <2>7, Zenon
  <2>9. Paired(p, f[n], g[n])
    BY <2>7, <2>8
  <2> QED BY <2>1, <2>2, <2>9
<1> QED BY <1>1, <1>2

(* homcom.rs, input: the verifier draws and reads as the prover draws and  *)
(* writes.                                                                 *)
LEMMA PairedInput ==
  ASSUME NEW p \in Parties, NEW c \in Coms, NEW n \in Nat
  PROVE  Paired(p, ProverInput(c, n), VerifierInput(c, n))
<1>1. Paired(p, Write(c, "corrections", n), Read(c, "corrections", n))
  BY PairedMessage DEF Names
<1> QED BY PairedDraws, <1>1, PairedConcat DEF ProverInput, VerifierInput

(* homcom.rs, open.                                                        *)
LEMMA PairedOpen ==
  ASSUME NEW p \in Parties, NEW c \in Coms, NEW n \in Nat
  PROVE  Paired(p, ProverOpen(c, n), VerifierOpen(c, n))
<1>1. Paired(p, Write(c, "values", n), Read(c, "values", n))
  BY PairedMessage DEF Names
<1>2. Paired(p, Write(c, "mac", 1), Read(c, "mac", 1))
  BY PairedMessage DEF Names
<1>3. Paired(p, Write(c, "values", n) \o Write(c, "mac", 1),
                Read(c, "values", n) \o Read(c, "mac", 1))
  BY <1>1, <1>2, PairedConcat
<1> QED BY <1>3, PairedFlush DEF ProverOpen, VerifierOpen

(* homcom.rs, check_zero.                                                  *)
LEMMA PairedCheckZero ==
  ASSUME NEW p \in Parties, NEW c \in Coms
  PROVE  Paired(p, ProverCheckZero(c), VerifierCheckZero(c))
<1>1. Paired(p, Read(c, "zero seed", 1), Write(c, "zero seed", 1))
  BY PairedMessage DEF Names
<1>2. Paired(p, Write(c, "mac", 1), Read(c, "mac", 1))
  BY PairedMessage DEF Names
<1>3. Paired(p, Read(c, "zero seed", 1), Write(c, "zero seed", 1) \o Flush)
  BY <1>1, PairedFlush
<1>4. Paired(p, Read(c, "zero seed", 1) \o Write(c, "mac", 1),
                Write(c, "zero seed", 1) \o Flush \o Read(c, "mac", 1))
  BY <1>3, <1>2, PairedConcat
<1> QED BY <1>4, PairedFlush DEF ProverCheckZero, VerifierCheckZero

(* homcom.rs, quicksilver_check_multiply: both draw the masks after the    *)
(* challenge.                                                              *)
LEMMA PairedCheckMultiply ==
  ASSUME NEW p \in Parties, NEW c \in Coms
  PROVE  Paired(p, ProverCheckMultiply(c), VerifierCheckMultiply(c))
<1> DEFINE n == Degree[c[2]]
<1>0. n \in Nat /\ Paired(p, Draws(c, n), Draws(c, n))
  BY PairedDraws, ProgramsAssumption DEF Coms
<1> HIDE DEF n
<1>1. Paired(p, Read(c, "chi", 1), Write(c, "chi", 1))
  BY PairedMessage DEF Names
<1>2. Paired(p, Write(c, "u v", 2), Read(c, "u v", 2))
  BY PairedMessage DEF Names
<1>3. Paired(p, Read(c, "chi", 1), Write(c, "chi", 1) \o Flush)
  BY <1>1, PairedFlush
<1>4. Paired(p, Read(c, "chi", 1) \o Draws(c, n),
                Write(c, "chi", 1) \o Flush \o Draws(c, n))
  BY <1>3, <1>0, PairedConcat
<1>5. Paired(p, Read(c, "chi", 1) \o Draws(c, n) \o Write(c, "u v", 2),
                Write(c, "chi", 1) \o Flush \o Draws(c, n) \o Read(c, "u v", 2))
  BY <1>4, <1>2, PairedConcat
<1> QED BY <1>5, PairedFlush DEF n, ProverCheckMultiply, VerifierCheckMultiply

(* cointoss.rs.                                                            *)
LEMMA PairedCointoss ==
  ASSUME NEW p \in Parties, NEW c \in Coms
  PROVE  Paired(p, CointossReceive(c), CointossSend(c))
<1>1. Paired(p, Read(c, "toss com", 1), Write(c, "toss com", 1))
  BY PairedMessage DEF Names
<1>2. Paired(p, Write(c, "toss", 1), Read(c, "toss", 1))
  BY PairedMessage DEF Names
<1>3. Paired(p, Read(c, "toss opening", 1), Write(c, "toss opening", 1))
  BY PairedMessage DEF Names
<1>4. Paired(p, Read(c, "toss com", 1), Write(c, "toss com", 1) \o Flush)
  BY <1>1, PairedFlush
<1>5. Paired(p, Read(c, "toss com", 1) \o Write(c, "toss", 1),
                Write(c, "toss com", 1) \o Flush \o Read(c, "toss", 1))
  BY <1>4, <1>2, PairedConcat
<1>6. Paired(p, Read(c, "toss com", 1) \o Write(c, "toss", 1) \o Flush,
                Write(c, "toss com", 1) \o Flush \o Read(c, "toss", 1))
  BY <1>5, PairedFlush
<1>7. Paired(p, Read(c, "toss com", 1) \o Write(c, "toss", 1) \o Flush
    \o Read(c, "toss opening", 1),
                Write(c, "toss com", 1) \o Flush \o Read(c, "toss", 1)
                    \o Write(c, "toss opening", 1))
  BY <1>6, <1>3, PairedConcat
<1> QED BY <1>7, PairedFlush DEF CointossReceive, CointossSend

(* kos.rs over alsz.rs, with the coin tossing inside.                      *)
LEMMA PairedKos ==
  ASSUME NEW p \in Parties, NEW c \in Coms
  PROVE  Paired(p, KosReceive(c), KosSend(c))
<1>1. Paired(p, Write(c, "ot columns", 1), Read(c, "ot columns", 1))
  BY PairedMessage DEF Names
<1>2. Paired(p, Write(c, "ot check", 3), Read(c, "ot check", 3))
  BY PairedMessage DEF Names
<1>3. Paired(p, Read(c, "ot keys", 2), Write(c, "ot keys", 2))
  BY PairedMessage DEF Names
<1>4. Paired(p, Write(c, "ot columns", 1) \o Flush, Read(c, "ot columns", 1))
  BY <1>1, PairedFlush
<1>5. Paired(p, Write(c, "ot columns", 1) \o Flush \o CointossReceive(c),
                Read(c, "ot columns", 1) \o CointossSend(c))
  BY <1>4, PairedCointoss, PairedConcat
<1>6. Paired(p, Write(c, "ot columns", 1) \o Flush \o CointossReceive(c) \o Write(c, "ot check", 3),
                Read(c, "ot columns", 1) \o CointossSend(c) \o Read(c, "ot check", 3))
  BY <1>5, <1>2, PairedConcat
<1>7. Paired(p, Write(c, "ot columns", 1) \o Flush \o CointossReceive(c)
    \o Write(c, "ot check", 3) \o Flush,
                Read(c, "ot columns", 1) \o CointossSend(c) \o Read(c, "ot check", 3))
  BY <1>6, PairedFlush
<1>8. Paired(p, Write(c, "ot columns", 1) \o Flush \o CointossReceive(c)
    \o Write(c, "ot check", 3) \o Flush \o Read(c, "ot keys", 2),
                Read(c, "ot columns", 1) \o CointossSend(c) \o Read(c, "ot check", 3)
                    \o Write(c, "ot keys", 2))
  BY <1>7, <1>3, PairedConcat
<1> QED BY <1>8, PairedFlush DEF KosReceive, KosSend

(* The equality test at the end of spsvole.rs.                             *)
LEMMA PairedEq ==
  ASSUME NEW p \in Parties, NEW c \in Coms
  PROVE  Paired(p, EqSend(c), EqReceive(c))
<1>1. Paired(p, Read(c, "eq com", 1), Write(c, "eq com", 1))
  BY PairedMessage DEF Names
<1>2. Paired(p, Write(c, "eq x", 1), Read(c, "eq x", 1))
  BY PairedMessage DEF Names
<1>3. Paired(p, Read(c, "eq opening", 2), Write(c, "eq opening", 2))
  BY PairedMessage DEF Names
<1>4. Paired(p, Read(c, "eq com", 1), Write(c, "eq com", 1) \o Flush)
  BY <1>1, PairedFlush
<1>5. Paired(p, Read(c, "eq com", 1) \o Write(c, "eq x", 1),
                Write(c, "eq com", 1) \o Flush \o Read(c, "eq x", 1))
  BY <1>4, <1>2, PairedConcat
<1>6. Paired(p, Read(c, "eq com", 1) \o Write(c, "eq x", 1) \o Flush,
                Write(c, "eq com", 1) \o Flush \o Read(c, "eq x", 1))
  BY <1>5, PairedFlush
<1>7. Paired(p, Read(c, "eq com", 1) \o Write(c, "eq x", 1) \o Flush \o Read(c, "eq opening", 2),
                Write(c, "eq com", 1) \o Flush \o Read(c, "eq x", 1) \o Write(c, "eq opening", 2))
  BY <1>6, <1>3, PairedConcat
<1> QED BY <1>7, PairedFlush DEF EqSend, EqReceive

(* svole.rs: an extension of the pools, sender against receiver.           *)
LEMMA PairedSvole ==
  ASSUME NEW p \in Parties, NEW c \in Coms
  PROVE  Paired(p, SvoleSend(c), SvoleReceive(c))
<1>1. Paired(p, Write(c, "a prime", 1), Read(c, "a prime", 1))
  BY PairedMessage DEF Names
<1>2. Paired(p, Read(c, "d", 1), Write(c, "d", 1))
  BY PairedMessage DEF Names
<1>3. Paired(p, Write(c, "x star", 2), Read(c, "x star", 2))
  BY PairedMessage DEF Names
<1>4. Paired(p, Write(c, "a prime", 1) \o KosReceive(c),
                Read(c, "a prime", 1) \o KosSend(c))
  BY <1>1, PairedKos, PairedConcat
<1>5. Paired(p, Write(c, "a prime", 1) \o KosReceive(c) \o Read(c, "d", 1),
                Read(c, "a prime", 1) \o KosSend(c) \o Write(c, "d", 1))
  BY <1>4, <1>2, PairedConcat
<1>6. Paired(p, Write(c, "a prime", 1) \o KosReceive(c) \o Read(c, "d", 1),
                Read(c, "a prime", 1) \o KosSend(c) \o Write(c, "d", 1) \o Flush)
  BY <1>5, PairedFlush
<1>7. Paired(p, Write(c, "a prime", 1) \o KosReceive(c) \o Read(c, "d", 1) \o Write(c, "x star", 2),
                Read(c, "a prime", 1) \o KosSend(c) \o Write(c, "d", 1) \o Flush
                    \o Read(c, "x star", 2))
  BY <1>6, <1>3, PairedConcat
<1>8. Paired(p, Write(c, "a prime", 1) \o KosReceive(c) \o Read(c, "d", 1)
    \o Write(c, "x star", 2) \o Flush,
                Read(c, "a prime", 1) \o KosSend(c) \o Write(c, "d", 1) \o Flush
                    \o Read(c, "x star", 2))
  BY <1>7, PairedFlush
<1> QED BY <1>8, PairedEq, PairedConcat DEF SvoleSend, SvoleReceive

(* The commitments of a peer are commitments.                              *)
LEMMA ComsOf ==
  ASSUME NEW d \in Parties
  PROVE  F2(d) \in Coms /\ FE(d) \in Coms /\ <<d, "f2">> \in Coms /\ <<d, "fe">> \in Coms
BY DEF F2, FE, Coms

(* The counts of the loops are numbers.                                    *)
LEMMA NatClosed ==
  ASSUME NEW m \in Nat, NEW n \in Nat
  PROVE  m * n \in Nat /\ n * m \in Nat /\ m + n \in Nat
OBVIOUS

(* The bit length of edabits.rs:625 is a number.                           *)
LEMMA GammaType ==
  ASSUME NEW n \in Nat
  PROVE  Gamma(n) \in Nat
<1>1. IsFiniteSet(0 .. n)
  BY FS_Interval
<1>2. IsFiniteSet({g \in 0 .. n : 2 ^ g <= n + 1})
  BY <1>1, FS_Subset
<1> QED BY <1>2, FS_CardinalityType DEF Gamma

(* edabits.rs, random_edabits.                                             *)
LEMMA PairedRandomEdabits ==
  ASSUME NEW p \in Parties, NEW d \in Parties, NEW n \in Nat
  PROVE  Paired(p, ProverRandomEdabits(d, n), VerifierRandomEdabits(d, n))
<1>0. F2(d) \in Coms /\ FE(d) \in Coms /\ n * Bits \in Nat
  BY ProgramsAssumption, ComsOf, NatClosed
<1> USE <1>0
<1>1. Paired(p, Draws(F2(d), n * Bits), Draws(F2(d), n * Bits))
  BY PairedDraws
<1>2. Paired(p, ProverInput(FE(d), n), VerifierInput(FE(d), n))
  BY PairedInput
<1> QED BY <1>1, <1>2, PairedConcat DEF ProverRandomEdabits, VerifierRandomEdabits

(* edabits.rs, random_dabits.                                              *)
LEMMA PairedRandomDabits ==
  ASSUME NEW p \in Parties, NEW d \in Parties, NEW n \in Nat
  PROVE  Paired(p, ProverRandomDabits(d, n), VerifierRandomDabits(d, n))
<1>0. F2(d) \in Coms /\ FE(d) \in Coms
  BY ProgramsAssumption, ComsOf, NatClosed
<1> USE <1>0
<1>1. Paired(p, Draws(F2(d), n), Draws(F2(d), n))
  BY PairedDraws
<1>2. Paired(p, ProverInput(FE(d), n), VerifierInput(FE(d), n))
  BY PairedInput
<1> QED BY <1>1, <1>2, PairedConcat DEF ProverRandomDabits, VerifierRandomDabits

(* edabits.rs, random_triples: the flush of the prover has no              *)
(* counterpart.                                                            *)
LEMMA PairedRandomTriples ==
  ASSUME NEW p \in Parties, NEW d \in Parties, NEW n \in Nat
  PROVE  Paired(p, ProverRandomTriples(d, n), VerifierRandomTriples(d, n))
<1>0. F2(d) \in Coms /\ FE(d) \in Coms /\ 2 * n \in Nat
  BY ProgramsAssumption, ComsOf, NatClosed
<1> USE <1>0
<1>1. Paired(p, Draws(F2(d), 2 * n), Draws(F2(d), 2 * n))
  BY PairedDraws
<1>2. Paired(p, ProverInput(F2(d), n), VerifierInput(F2(d), n))
  BY PairedInput
<1>3. Paired(p, Draws(F2(d), 2 * n) \o ProverInput(F2(d), n),
                Draws(F2(d), 2 * n) \o VerifierInput(F2(d), n))
  BY <1>1, <1>2, PairedConcat
<1> QED BY <1>3, PairedFlush DEF ProverRandomTriples, VerifierRandomTriples

(* edabits.rs, fdabit: inputs, the seed, the openings, the check.          *)
LEMMA PairedFdabit ==
  ASSUME NEW p \in Parties, NEW d \in Parties, NEW n \in Nat
  PROVE  Paired(p, ProverFdabit(d, n), VerifierFdabit(d, n))
<1>0. F2(d) \in Coms /\ FE(d) \in Coms
      /\ Gamma(n) \in Nat /\ Security \in Nat /\ Security * Gamma(n) \in Nat
  BY ProgramsAssumption, ComsOf, NatClosed, GammaType
<1> USE <1>0
<1>1. Paired(p, Times(Security, ProverInput(FE(d), Gamma(n))),
                Times(Security, VerifierInput(FE(d), Gamma(n))))
  BY PairedInput, PairedTimes, ProgramsAssumption
<1>2. Paired(p, ProverInput(F2(d), Security), VerifierInput(F2(d), Security))
  BY PairedInput
<1>3. Paired(p, ProverInput(FE(d), Security * Gamma(n)),
                VerifierInput(FE(d), Security * Gamma(n)))
  BY PairedInput
<1>4. Paired(p, ProverOpen(F2(d), Security), VerifierOpen(F2(d), Security))
  BY PairedOpen
<1>5. Paired(p, ProverOpen(FE(d), Security), VerifierOpen(FE(d), Security))
  BY PairedOpen
<1>6. Paired(p, ProverCheckMultiply(FE(d)), VerifierCheckMultiply(FE(d)))
  BY PairedCheckMultiply
<1>7. Paired(p, Read(FE(d), "seed", 1), Write(FE(d), "seed", 1))
  BY PairedMessage DEF Names
<1>8. Paired(p, Times(Security, ProverInput(FE(d), Gamma(n))) \o ProverInput(F2(d), Security),
                Times(Security, VerifierInput(FE(d), Gamma(n))) \o VerifierInput(F2(d), Security))
  BY <1>1, <1>2, PairedConcat
<1>9. Paired(p, Times(Security, ProverInput(FE(d), Gamma(n)))
    \o ProverInput(F2(d), Security) \o ProverInput(FE(d), Security * Gamma(n)),
                Times(Security, VerifierInput(FE(d), Gamma(n)))
                    \o VerifierInput(F2(d), Security) \o VerifierInput(FE(d), Security * Gamma(n)))
  BY <1>8, <1>3, PairedConcat
<1>10. Paired(p, Times(Security, ProverInput(FE(d), Gamma(n)))
    \o ProverInput(F2(d), Security) \o ProverInput(FE(d), Security * Gamma(n)) \o Flush,
                Times(Security, VerifierInput(FE(d), Gamma(n)))
                    \o VerifierInput(F2(d), Security) \o VerifierInput(FE(d), Security * Gamma(n)))
  BY <1>9, PairedFlush
<1>11. Paired(p, Times(Security, ProverInput(FE(d), Gamma(n)))
    \o ProverInput(F2(d), Security) \o ProverInput(FE(d), Security * Gamma(n)) \o Flush
        \o Read(FE(d), "seed", 1),
                Times(Security, VerifierInput(FE(d), Gamma(n)))
                    \o VerifierInput(F2(d), Security)
                        \o VerifierInput(FE(d), Security * Gamma(n)) \o Write(FE(d), "seed", 1))
  BY <1>10, <1>7, PairedConcat
<1>12. Paired(p, Times(Security, ProverInput(FE(d), Gamma(n)))
    \o ProverInput(F2(d), Security) \o ProverInput(FE(d), Security * Gamma(n)) \o Flush
        \o Read(FE(d), "seed", 1),
                Times(Security, VerifierInput(FE(d), Gamma(n)))
                    \o VerifierInput(F2(d), Security)
                        \o VerifierInput(FE(d), Security * Gamma(n))
                            \o Write(FE(d), "seed", 1) \o Flush)
  BY <1>11, PairedFlush
<1>13. Paired(p, Times(Security, ProverInput(FE(d), Gamma(n)))
    \o ProverInput(F2(d), Security) \o ProverInput(FE(d), Security * Gamma(n)) \o Flush
        \o Read(FE(d), "seed", 1) \o ProverOpen(F2(d), Security),
                Times(Security, VerifierInput(FE(d), Gamma(n)))
                    \o VerifierInput(F2(d), Security)
                        \o VerifierInput(FE(d), Security * Gamma(n))
                            \o Write(FE(d), "seed", 1) \o Flush \o VerifierOpen(F2(d), Security))
  BY <1>12, <1>4, PairedConcat
<1>14. Paired(p, Times(Security, ProverInput(FE(d), Gamma(n)))
    \o ProverInput(F2(d), Security) \o ProverInput(FE(d), Security * Gamma(n)) \o Flush
        \o Read(FE(d), "seed", 1) \o ProverOpen(F2(d), Security) \o ProverOpen(FE(d), Security),
                Times(Security, VerifierInput(FE(d), Gamma(n)))
                    \o VerifierInput(F2(d), Security)
                        \o VerifierInput(FE(d), Security * Gamma(n))
                            \o Write(FE(d), "seed", 1) \o Flush
                                \o VerifierOpen(F2(d), Security) \o VerifierOpen(FE(d), Security))
  BY <1>13, <1>5, PairedConcat
<1> QED BY <1>14, <1>6, PairedConcat DEF ProverFdabit, VerifierFdabit

(* edabits.rs, bit_add_carry.                                              *)
LEMMA PairedBitAddCarry ==
  ASSUME NEW p \in Parties, NEW d \in Parties, NEW n \in Nat
  PROVE  Paired(p, ProverBitAddCarry(d, n), VerifierBitAddCarry(d, n))
<1>0. F2(d) \in Coms /\ FE(d) \in Coms /\ Bits + 1 \in Nat
  BY ProgramsAssumption, ComsOf, NatClosed
<1> USE <1>0
<1>1. Paired(p, Times(Bits + 1, ProverInput(F2(d), n)),
                Times(Bits + 1, VerifierInput(F2(d), n)))
  BY PairedInput, PairedTimes
<1>2. Paired(p, ProverCheckMultiply(F2(d)), VerifierCheckMultiply(F2(d)))
  BY PairedCheckMultiply
<1>3. Paired(p, Times(Bits + 1, ProverInput(F2(d), n)) \o Flush,
                Times(Bits + 1, VerifierInput(F2(d), n)))
  BY <1>1, PairedFlush
<1> QED BY <1>3, <1>2, PairedConcat DEF ProverBitAddCarry, VerifierBitAddCarry

(* edabits.rs, conv_loop.                                                  *)
LEMMA PairedConvLoop ==
  ASSUME NEW p \in Parties, NEW d \in Parties, NEW n \in Nat
  PROVE  Paired(p, ProverConvLoop(d, n), VerifierConvLoop(d, n))
<1>0. F2(d) \in Coms /\ FE(d) \in Coms /\ n * Bits \in Nat
  BY ProgramsAssumption, ComsOf, NatClosed
<1> USE <1>0
<1>1. Paired(p, ProverBitAddCarry(d, n), VerifierBitAddCarry(d, n))
  BY PairedBitAddCarry
<1>2. Paired(p, ProverOpen(F2(d), n), VerifierOpen(F2(d), n))
  BY PairedOpen
<1>3. Paired(p, ProverOpen(F2(d), n * Bits), VerifierOpen(F2(d), n * Bits))
  BY PairedOpen
<1>4. Paired(p, ProverCheckZero(FE(d)), VerifierCheckZero(FE(d)))
  BY PairedCheckZero
<1>5. Paired(p, ProverBitAddCarry(d, n) \o ProverOpen(F2(d), n),
                VerifierBitAddCarry(d, n) \o VerifierOpen(F2(d), n))
  BY <1>1, <1>2, PairedConcat
<1>6. Paired(p, ProverBitAddCarry(d, n) \o ProverOpen(F2(d), n) \o ProverOpen(F2(d), n * Bits),
                VerifierBitAddCarry(d, n) \o VerifierOpen(F2(d), n)
                    \o VerifierOpen(F2(d), n * Bits))
  BY <1>5, <1>3, PairedConcat
<1> QED BY <1>6, <1>4, PairedConcat DEF ProverConvLoop, VerifierConvLoop

(* edabits.rs, conv, with nothing to convert and with something.           *)
LEMMA PairedConv ==
  ASSUME NEW p \in Parties, NEW d \in Parties, NEW n \in Nat
  PROVE  Paired(p, ProverConv(d, n), VerifierConv(d, n))
<1>0. /\ F2(d) \in Coms /\ FE(d) \in Coms /\ Bits \in Nat
      /\ n * Buckets \in Nat /\ n * Buckets + Cut \in Nat
  BY ProgramsAssumption, ComsOf, NatClosed
<1> USE <1>0
<1>1. CASE n = 0
  BY <1>1, PairedNothing DEF ProverConv, VerifierConv
<1>2. CASE n # 0
  <2>11. Paired(p, ProverRandomEdabits(d, n * Buckets + Cut),
                  VerifierRandomEdabits(d, n * Buckets + Cut))
    BY PairedRandomEdabits
  <2>12. Paired(p, ProverRandomDabits(d, n * Buckets), VerifierRandomDabits(d, n * Buckets))
    BY PairedRandomDabits
  <2>13. Paired(p, ProverFdabit(d, n * Buckets), VerifierFdabit(d, n * Buckets))
    BY PairedFdabit
  <2>14. Paired(p, ProverOpen(F2(d), Bits), VerifierOpen(F2(d), Bits))
    BY PairedOpen
  <2>15. Paired(p, ProverOpen(FE(d), 1), VerifierOpen(FE(d), 1))
    BY PairedOpen
  <2>16. Paired(p, ProverOpen(F2(d), Bits) \o ProverOpen(FE(d), 1),
                  VerifierOpen(F2(d), Bits) \o VerifierOpen(FE(d), 1))
    BY <2>14, <2>15, PairedConcat
  <2>17. Paired(p, Times(Cut, ProverOpen(F2(d), Bits) \o ProverOpen(FE(d), 1)),
                  Times(Cut, VerifierOpen(F2(d), Bits) \o VerifierOpen(FE(d), 1)))
    BY <2>16, PairedTimes, ProgramsAssumption
  <2>18. Paired(p, ProverConvLoop(d, n), VerifierConvLoop(d, n))
    BY PairedConvLoop
  <2>19. Paired(p, Times(Buckets, ProverConvLoop(d, n)), Times(Buckets, VerifierConvLoop(d, n)))
    BY <2>18, PairedTimes, ProgramsAssumption
  <2>1. Paired(p, Read(FE(d), "shuffle seed", 1), Write(FE(d), "shuffle seed", 1))
    BY PairedMessage DEF Names
  <2>2. Paired(p, ProverRandomEdabits(d, n * Buckets + Cut) \o ProverRandomDabits(d, n * Buckets),
                  VerifierRandomEdabits(d, n * Buckets + Cut)
                      \o VerifierRandomDabits(d, n * Buckets))
    BY <2>11, <2>12, PairedConcat
  <2>3. Paired(p, ProverRandomEdabits(d, n * Buckets + Cut)
      \o ProverRandomDabits(d, n * Buckets) \o ProverFdabit(d, n * Buckets),
                  VerifierRandomEdabits(d, n * Buckets + Cut)
                      \o VerifierRandomDabits(d, n * Buckets) \o VerifierFdabit(d, n * Buckets))
    BY <2>2, <2>13, PairedConcat
  <2>4. Paired(p, ProverRandomEdabits(d, n * Buckets + Cut)
      \o ProverRandomDabits(d, n * Buckets) \o ProverFdabit(d, n * Buckets)
          \o Read(FE(d), "shuffle seed", 1),
                  VerifierRandomEdabits(d, n * Buckets + Cut)
                      \o VerifierRandomDabits(d, n * Buckets)
                          \o VerifierFdabit(d, n * Buckets) \o Write(FE(d), "shuffle seed", 1))
    BY <2>3, <2>1, PairedConcat
  <2>5. Paired(p, ProverRandomEdabits(d, n * Buckets + Cut)
      \o ProverRandomDabits(d, n * Buckets) \o ProverFdabit(d, n * Buckets)
          \o Read(FE(d), "shuffle seed", 1),
                  VerifierRandomEdabits(d, n * Buckets + Cut)
                      \o VerifierRandomDabits(d, n * Buckets)
                          \o VerifierFdabit(d, n * Buckets)
                              \o Write(FE(d), "shuffle seed", 1) \o Flush)
    BY <2>4, PairedFlush
  <2>6. Paired(p, ProverRandomEdabits(d, n * Buckets + Cut)
      \o ProverRandomDabits(d, n * Buckets) \o ProverFdabit(d, n * Buckets)
          \o Read(FE(d), "shuffle seed", 1) \o Times(Cut, ProverOpen(F2(d), Bits)
              \o ProverOpen(FE(d), 1)),
                  VerifierRandomEdabits(d, n * Buckets + Cut)
                      \o VerifierRandomDabits(d, n * Buckets)
                          \o VerifierFdabit(d, n * Buckets)
                              \o Write(FE(d), "shuffle seed", 1) \o Flush
                                  \o Times(Cut, VerifierOpen(F2(d), Bits)
                                      \o VerifierOpen(FE(d), 1)))
    BY <2>5, <2>17, PairedConcat
  <2> QED BY <1>2, <2>6, <2>19, PairedConcat DEF ProverConv, VerifierConv
<1> QED BY <1>1, <1>2

(* The two peers, by name.                                                 *)
LEMMA PartiesAre ==
  /\ "first" \in Parties /\ "second" \in Parties
  /\ Peer("first") = "second" /\ Peer("second") = "first"
  /\ First("first") /\ ~First("second")
BY DEF Parties, Peer, First

(* mpc_edabits_common.rs: a peer shares values it owns.                    *)
LEMMA PairedShareOwned ==
  ASSUME NEW f \in {"f2", "fe"}, NEW n \in Nat
  PROVE  Paired("first", ShareOwned("first", f, n), ReceiveShared("second", f, n))
<1>0. <<"first", f>> \in Coms /\ <<"second", f>> \in Coms
  BY PartiesAre DEF Coms
<1> USE <1>0, PartiesAre
<1>1. Paired("first", ProverInput(<<"first", f>>, n), VerifierInput(<<"first", f>>, n))
  BY PairedInput
<1>2. Paired("first", Write(<<"first", f>>, "shares", n),
                      Read(<<"first", f>>, "shares", n))
  BY PairedMessage DEF Names
<1>3. Paired("first", VerifierInput(<<"second", f>>, n), ProverInput(<<"second", f>>, n))
  BY PairedInput, PairedSwap
<1>4. Paired("first", ProverInput(<<"first", f>>, n) \o Write(<<"first", f>>, "shares", n),
                      VerifierInput(<<"first", f>>, n) \o Read(<<"first", f>>, "shares", n))
  BY <1>1, <1>2, PairedConcat
<1>5. Paired("first", ProverInput(<<"first", f>>, n) \o Write(<<"first", f>>, "shares", n) \o Flush,
                      VerifierInput(<<"first", f>>, n) \o Read(<<"first", f>>, "shares", n))
  BY <1>4, PairedFlush
<1>6. Paired("first", ProverInput(<<"first", f>>, n) \o Write(<<"first", f>>, "shares", n)
    \o Flush \o VerifierInput(<<"second", f>>, n),
                      VerifierInput(<<"first", f>>, n) \o Read(<<"first", f>>, "shares", n)
                          \o ProverInput(<<"second", f>>, n))
  BY <1>5, <1>3, PairedConcat
<1> QED BY <1>6, PairedFlush DEF ShareOwned, ReceiveShared

(* mpc_edabits_common.rs: an opening in both directions.                   *)
LEMMA PairedOpenShared ==
  ASSUME NEW f \in {"f2", "fe"}, NEW n \in Nat
  PROVE  Paired("first", OpenShared("first", f, n), OpenShared("second", f, n))
<1>0. <<"first", f>> \in Coms /\ <<"second", f>> \in Coms
  BY PartiesAre DEF Coms
<1> USE <1>0, PartiesAre
<1>1. Paired("first", ProverOpen(<<"first", f>>, n), VerifierOpen(<<"first", f>>, n))
  BY PairedOpen
<1>2. Paired("first", VerifierOpen(<<"second", f>>, n), ProverOpen(<<"second", f>>, n))
  BY PairedOpen, PairedSwap
<1> QED BY <1>1, <1>2, PairedConcat DEF OpenShared

(* mpc_edabits.rs: the first peer shares its edaBits, with either policy.  *)
LEMMA PairedSharedByFirst ==
  ASSUME NEW policy
  PROVE  Paired("first", SharePrivate("first", policy),
                     ReceivePrivate("second", policy))
<1>0. /\ F2("first") \in Coms /\ F2("second") \in Coms /\ FE("first") \in Coms /\ FE("second") \in Coms
      /\ Num \in Nat /\ Bits \in Nat /\ Num * Bits \in Nat
  BY PartiesAre, ComsOf, ProgramsAssumption, NatClosed
<1> USE <1>0, PartiesAre
<1>1. Paired("first", ProverInput(F2("first"), Num * Bits),
                      VerifierInput(F2("first"), Num * Bits))
  BY PairedInput
<1>2. Paired("first", ProverInput(FE("first"), Num), VerifierInput(FE("first"), Num))
  BY PairedInput
<1>3. Paired("first", ProverInput(F2("first"), Num * Bits) \o ProverInput(FE("first"), Num),
                      VerifierInput(F2("first"), Num * Bits) \o VerifierInput(FE("first"), Num))
  BY <1>1, <1>2, PairedConcat
<1>4. CASE policy = "random"
  <2> DEFINE a == Write(F2("first"), "shares", Num * Bits)
      \o Write(FE("first"), "shares", Num) \o Flush
          \o VerifierInput(F2("second"), Num * Bits) \o VerifierInput(FE("second"), Num)
             b == Read(F2("first"), "shares", Num * Bits)
                 \o Read(FE("first"), "shares", Num)
                     \o ProverInput(F2("second"), Num * Bits) \o ProverInput(FE("second"), Num)
  <2>1. Paired("first", a, b)
    <3>1. Paired("first", Write(F2("first"), "shares", Num * Bits),
                          Read(F2("first"), "shares", Num * Bits))
      BY PairedMessage DEF Names
    <3>2. Paired("first", Write(FE("first"), "shares", Num),
                          Read(FE("first"), "shares", Num))
      BY PairedMessage DEF Names
    <3>3. Paired("first", VerifierInput(F2("second"), Num * Bits),
                          ProverInput(F2("second"), Num * Bits))
      BY PairedInput, PairedSwap
    <3>4. Paired("first", VerifierInput(FE("second"), Num), ProverInput(FE("second"), Num))
      BY PairedInput, PairedSwap
    <3>5. Paired("first", Write(F2("first"), "shares", Num * Bits)
        \o Write(FE("first"), "shares", Num),
                          Read(F2("first"), "shares", Num * Bits)
                              \o Read(FE("first"), "shares", Num))
      BY <3>1, <3>2, PairedConcat
    <3>6. Paired("first", Write(F2("first"), "shares", Num * Bits)
        \o Write(FE("first"), "shares", Num) \o Flush,
                          Read(F2("first"), "shares", Num * Bits)
                              \o Read(FE("first"), "shares", Num))
      BY <3>5, PairedFlush
    <3>7. Paired("first", Write(F2("first"), "shares", Num * Bits)
        \o Write(FE("first"), "shares", Num) \o Flush \o VerifierInput(F2("second"), Num * Bits),
                          Read(F2("first"), "shares", Num * Bits)
                              \o Read(FE("first"), "shares", Num)
                                  \o ProverInput(F2("second"), Num * Bits))
      BY <3>6, <3>3, PairedConcat
    <3> QED BY <3>7, <3>4, PairedConcat
  <2> HIDE DEF a, b
  <2>2. Paired("first", (ProverInput(F2("first"), Num * Bits)
      \o ProverInput(FE("first"), Num)) \o a,
                        (VerifierInput(F2("first"), Num * Bits)
                            \o VerifierInput(FE("first"), Num)) \o b)
    BY <1>3, <2>1, PairedConcat
  <2> QED BY <1>4, <2>2 DEF a, b, SharePrivate, ReceivePrivate
<1>5. CASE policy # "random"
  <2>1. Paired("first", (ProverInput(F2("first"), Num * Bits)
      \o ProverInput(FE("first"), Num)) \o Flush,
                        (VerifierInput(F2("first"), Num * Bits)
                            \o VerifierInput(FE("first"), Num)) \o <<>>)
    BY <1>3, PairedNothing, PairedConcat
  <2> QED BY <1>5, <2>1 DEF SharePrivate, ReceivePrivate
<1> QED BY <1>4, <1>5

(* The same for the edaBits of the second peer.                            *)
LEMMA PairedSharedBySecond ==
  ASSUME NEW policy
  PROVE  Paired("first", ReceivePrivate("first", policy),
                     SharePrivate("second", policy))
<1>0. /\ F2("first") \in Coms /\ F2("second") \in Coms /\ FE("first") \in Coms /\ FE("second") \in Coms
      /\ Num \in Nat /\ Bits \in Nat /\ Num * Bits \in Nat
  BY PartiesAre, ComsOf, ProgramsAssumption, NatClosed
<1> USE <1>0, PartiesAre
<1>1. Paired("first", VerifierInput(F2("second"), Num * Bits),
                      ProverInput(F2("second"), Num * Bits))
  BY PairedInput, PairedSwap
<1>2. Paired("first", VerifierInput(FE("second"), Num), ProverInput(FE("second"), Num))
  BY PairedInput, PairedSwap
<1>3. Paired("first", VerifierInput(F2("second"), Num * Bits) \o VerifierInput(FE("second"), Num),
                      ProverInput(F2("second"), Num * Bits) \o ProverInput(FE("second"), Num))
  BY <1>1, <1>2, PairedConcat
<1>4. CASE policy = "random"
  <2> DEFINE a == Read(F2("second"), "shares", Num * Bits)
      \o Read(FE("second"), "shares", Num) \o ProverInput(F2("first"), Num * Bits)
          \o ProverInput(FE("first"), Num)
             b == Write(F2("second"), "shares", Num * Bits)
                 \o Write(FE("second"), "shares", Num) \o Flush
                     \o VerifierInput(F2("first"), Num * Bits) \o VerifierInput(FE("first"), Num)
  <2>1. Paired("first", a, b)
    <3>1. Paired("first", Read(F2("second"), "shares", Num * Bits),
                          Write(F2("second"), "shares", Num * Bits))
      BY PairedMessage DEF Names
    <3>2. Paired("first", Read(FE("second"), "shares", Num),
                          Write(FE("second"), "shares", Num))
      BY PairedMessage DEF Names
    <3>3. Paired("first", ProverInput(F2("first"), Num * Bits),
                          VerifierInput(F2("first"), Num * Bits))
      BY PairedInput
    <3>4. Paired("first", ProverInput(FE("first"), Num), VerifierInput(FE("first"), Num))
      BY PairedInput
    <3>5. Paired("first", Read(F2("second"), "shares", Num * Bits)
        \o Read(FE("second"), "shares", Num),
                          Write(F2("second"), "shares", Num * Bits)
                              \o Write(FE("second"), "shares", Num))
      BY <3>1, <3>2, PairedConcat
    <3>6. Paired("first", Read(F2("second"), "shares", Num * Bits)
        \o Read(FE("second"), "shares", Num),
                          Write(F2("second"), "shares", Num * Bits)
                              \o Write(FE("second"), "shares", Num) \o Flush)
      BY <3>5, PairedFlush
    <3>7. Paired("first", Read(F2("second"), "shares", Num * Bits)
        \o Read(FE("second"), "shares", Num) \o ProverInput(F2("first"), Num * Bits),
                          Write(F2("second"), "shares", Num * Bits)
                              \o Write(FE("second"), "shares", Num) \o Flush
                                  \o VerifierInput(F2("first"), Num * Bits))
      BY <3>6, <3>3, PairedConcat
    <3> QED BY <3>7, <3>4, PairedConcat
  <2> HIDE DEF a, b
  <2>2. Paired("first", (VerifierInput(F2("second"), Num * Bits)
      \o VerifierInput(FE("second"), Num)) \o a,
                        (ProverInput(F2("second"), Num * Bits)
                            \o ProverInput(FE("second"), Num)) \o b)
    BY <1>3, <2>1, PairedConcat
  <2> QED BY <1>4, <2>2 DEF a, b, SharePrivate, ReceivePrivate
<1>5. CASE policy # "random"
  <2>1. Paired("first", (VerifierInput(F2("second"), Num * Bits)
      \o VerifierInput(FE("second"), Num)) \o <<>>,
                        (ProverInput(F2("second"), Num * Bits)
                            \o ProverInput(FE("second"), Num)) \o Flush)
    BY <1>3, PairedNothing, PairedConcat
  <2> QED BY <1>5, <2>1 DEF SharePrivate, ReceivePrivate
<1> QED BY <1>4, <1>5

(* mpc_edabits.rs: the peers sample and share in turn.                     *)
LEMMA PairedSampleAndShare ==
  ASSUME NEW policy
  PROVE  Paired("first", SampleAndShare("first", policy),
                     SampleAndShare("second", policy))
<1>0. /\ F2("first") \in Coms /\ F2("second") \in Coms /\ FE("first") \in Coms /\ FE("second") \in Coms
      /\ Num \in Nat /\ Bits \in Nat /\ Num * Bits \in Nat
  BY PartiesAre, ComsOf, ProgramsAssumption, NatClosed
<1> USE <1>0, PartiesAre
<1>1. Paired("first", SamplePrivate("first", policy), ReceivePeerPrivate("second", policy))
  BY PairedRandomEdabits, PairedSharedByFirst, PairedConcat DEF SamplePrivate, ReceivePeerPrivate
<1>2. Paired("first", ReceivePeerPrivate("first", policy), SamplePrivate("second", policy))
  BY PairedRandomEdabits, PairedSwap, PairedSharedBySecond, PairedConcat DEF SamplePrivate, ReceivePeerPrivate
<1> QED BY <1>1, <1>2, PairedConcat DEF SampleAndShare

(* mpc_edabits.rs: the two cut and chooses.                                *)
LEMMA PairedCutAndChoose == Paired("first", CutAndChoose("first"), CutAndChoose("second"))
<1>0. /\ F2("first") \in Coms /\ F2("second") \in Coms /\ FE("first") \in Coms /\ FE("second") \in Coms
      /\ Num \in Nat /\ Bits \in Nat /\ Num * Bits \in Nat
  BY PartiesAre, ComsOf, ProgramsAssumption, NatClosed
<1> USE <1>0, PartiesAre
<1>1. Paired("first", ProverConv("first", Num), VerifierConv("first", Num))
  BY PairedConv
<1>2. Paired("second", ProverConv("second", Num), VerifierConv("second", Num))
  BY PairedConv
<1>3. Paired("first", VerifierConv("second", Num), ProverConv("second", Num))
  BY <1>2, PairedSwap
<1> QED BY <1>1, <1>3, PairedConcat DEF CutAndChoose

(* mpc_edabits_common.rs, generate_checked_shared_bit_triples.             *)
LEMMA PairedTriples ==
  ASSUME NEW n \in Nat
  PROVE  Paired("first", GenerateTriples("first", n), GenerateTriples("second", n))
<1>0. F2("first") \in Coms /\ F2("second") \in Coms /\ FE("first") \in Coms /\ FE("second") \in Coms
  BY PartiesAre, ComsOf
<1> USE <1>0, PartiesAre
<1>1. Paired("first", ProverRandomTriples("first", n), VerifierRandomTriples("first", n))
  BY PairedRandomTriples
<1>2. Paired("first", ProverCheckMultiply(F2("first")), VerifierCheckMultiply(F2("first")))
  BY PairedCheckMultiply
<1>3. Paired("first", Times(3, ShareOwned("first", "f2", n)),
                      Times(3, ReceiveShared("second", "f2", n)))
  BY PairedShareOwned, PairedTimes
<1>4. Paired("first", ProverRandomTriples("first", n) \o ProverCheckMultiply(F2("first")),
                      VerifierRandomTriples("first", n) \o VerifierCheckMultiply(F2("first")))
  BY <1>1, <1>2, PairedConcat
<1> QED BY <1>4, <1>3, PairedConcat DEF GenerateTriples

(* mpc_edabits_common.rs, the daBits of the combination.                   *)
LEMMA PairedDabits ==
  ASSUME NEW n \in Nat
  PROVE  Paired("first", GenerateDabits("first", n), GenerateDabits("second", n))
<1>0. F2("first") \in Coms /\ F2("second") \in Coms /\ FE("first") \in Coms /\ FE("second") \in Coms
  BY PartiesAre, ComsOf
<1> USE <1>0, PartiesAre
<1>1. Paired("first", ProverRandomDabits("first", n), VerifierRandomDabits("first", n))
  BY PairedRandomDabits
<1>2. Paired("first", ProverFdabit("first", n), VerifierFdabit("first", n))
  BY PairedFdabit
<1>3. Paired("first", ShareOwned("first", "f2", n), ReceiveShared("second", "f2", n))
  BY PairedShareOwned
<1>4. Paired("first", ShareOwned("first", "fe", n), ReceiveShared("second", "fe", n))
  BY PairedShareOwned
<1>5. Paired("first", ProverRandomDabits("first", n) \o ProverFdabit("first", n),
                      VerifierRandomDabits("first", n) \o VerifierFdabit("first", n))
  BY <1>1, <1>2, PairedConcat
<1>6. Paired("first", ProverRandomDabits("first", n) \o ProverFdabit("first", n)
    \o ShareOwned("first", "f2", n),
                      VerifierRandomDabits("first", n) \o VerifierFdabit("first", n)
                          \o ReceiveShared("second", "f2", n))
  BY <1>5, <1>3, PairedConcat
<1> QED BY <1>6, <1>4, PairedConcat DEF GenerateDabits

(* mpc_edabits.rs, the combination to global edaBits.                      *)
LEMMA PairedCombine == Paired("first", Combine("first"), Combine("second"))
<1>0. /\ F2("first") \in Coms /\ F2("second") \in Coms /\ FE("first") \in Coms /\ FE("second") \in Coms
      /\ Num \in Nat /\ Bits \in Nat /\ Num * Bits \in Nat
  BY PartiesAre, ComsOf, ProgramsAssumption, NatClosed
<1> USE <1>0, PartiesAre
<1>1. Paired("first", GenerateTriples("first", Num * Bits),
                      GenerateTriples("second", Num * Bits))
  BY PairedTriples
<1>2. Paired("first", GenerateDabits("first", Num), GenerateDabits("second", Num))
  BY PairedDabits
<1>3. Paired("first", MultiplyShared("first", Num), MultiplyShared("second", Num))
  BY PairedOpenShared, PairedConcat DEF MultiplyShared
<1>4. Paired("first", Times(Bits, MultiplyShared("first", Num)),
                      Times(Bits, MultiplyShared("second", Num)))
  BY <1>3, PairedTimes
<1>5. Paired("first", OpenShared("first", "f2", Num), OpenShared("second", "f2", Num))
  BY PairedOpenShared
<1>6. Paired("first", GenerateTriples("first", Num * Bits) \o GenerateDabits("first", Num),
                      GenerateTriples("second", Num * Bits) \o GenerateDabits("second", Num))
  BY <1>1, <1>2, PairedConcat
<1>7. Paired("first", GenerateTriples("first", Num * Bits) \o GenerateDabits("first", Num)
                        \o Times(Bits, MultiplyShared("first", Num)),
                      GenerateTriples("second", Num * Bits) \o GenerateDabits("second", Num)
                        \o Times(Bits, MultiplyShared("second", Num)))
  BY <1>4, <1>6, PairedConcat
<1> QED BY <1>5, <1>7, PairedConcat DEF Combine

(* mpc_edabits.rs, open_global_edabits.                                    *)
LEMMA PairedOpenGlobal == Paired("first", OpenGlobal("first"), OpenGlobal("second"))
<1>0. /\ F2("first") \in Coms /\ F2("second") \in Coms /\ FE("first") \in Coms /\ FE("second") \in Coms
      /\ Num \in Nat /\ Bits \in Nat /\ Num * Bits \in Nat
  BY PartiesAre, ComsOf, ProgramsAssumption, NatClosed
<1> USE <1>0, PartiesAre
<1>1. /\ Paired("first", OpenShared("first", "f2", 1), OpenShared("second", "f2", 1))
      /\ Paired("first", OpenShared("first", "fe", 1), OpenShared("second", "fe", 1))
  BY PairedOpenShared
<1>2. Paired("first", Times(Bits, OpenShared("first", "f2", 1)),
                      Times(Bits, OpenShared("second", "f2", 1)))
  BY <1>1, PairedTimes
<1>3. Paired("first", Times(Bits, OpenShared("first", "f2", 1)) \o OpenShared("first", "fe", 1),
                      Times(Bits, OpenShared("second", "f2", 1)) \o OpenShared("second", "fe", 1))
  BY <1>1, <1>2, PairedConcat
<1> QED BY <1>3, PairedTimes DEF OpenGlobal

(* The programs of the two peers are paired, whatever the counts, the      *)
(* sizes and the policy: one script of events has both as its views.       *)
LEMMA PairedPrograms ==
  ASSUME NEW policy
  PROVE  Paired("first", Program("first", policy), Program("second", policy))
<1>1. Paired("first", SampleAndShare("first", policy) \o CutAndChoose("first"),
                      SampleAndShare("second", policy) \o CutAndChoose("second"))
  BY PairedSampleAndShare, PairedCutAndChoose, PairedConcat, PartiesAre
<1>2. Paired("first", SampleAndShare("first", policy) \o CutAndChoose("first") \o Combine("first"),
                      SampleAndShare("second", policy) \o CutAndChoose("second")
                          \o Combine("second"))
  BY <1>1, PairedCombine, PairedConcat, PartiesAre
<1> QED BY <1>2, PairedOpenGlobal, PairedConcat, PartiesAre DEF Program

(* The run both peers go through: what is left of the script, the pools,   *)
(* the counts, and how many messages each has sent.                        *)
States == [script : Seq(Events), pool : [Coms -> Nat], used : [Coms -> Nat],
           corrected : [Coms -> Nat], sent : [Parties -> Nat]]

IsMessage(s) == s.script # <<>> /\ Head(s.script).do = "message"
IsDraw(s) == s.script # <<>> /\ Head(s.script).do = "draw"
IsRefill(s) == s.script # <<>> /\ Head(s.script).do = "refill"

ExtensionScript(c) ==
  CHOOSE script \in Seq(Events) : \A p \in Parties : Follows(p, Extension(p, c), script)

Counted(counts, i) == [counts EXCEPT ![i] = @ + 1]
Drawn(s) == LET c == Head(s.script).com IN
  [script |-> Tail(s.script), pool |-> [s.pool EXCEPT ![c] = @ - 1],
   used |-> Counted(s.used, c), corrected |-> s.corrected, sent |-> s.sent]
Extended(s) == LET c == Head(s.script).com IN
  [script |-> ExtensionScript(c) \o <<[do |-> "refill", com |-> c]>> \o s.script,
   pool |-> s.pool, used |-> s.used, corrected |-> s.corrected, sent |-> s.sent]
Refilled(s) == LET c == Head(s.script).com IN
  [script |-> Tail(s.script), pool |-> [s.pool EXCEPT ![c] = @ + Fetch],
   used |-> s.used, corrected |-> s.corrected, sent |-> s.sent]
Corrected(counts, msg) == IF msg[2] = "corrections" THEN Counted(counts, msg[1])
                          ELSE counts
Passed(s) == LET e == Head(s.script) IN
  [script |-> Tail(s.script), pool |-> s.pool, used |-> s.used,
   corrected |-> Corrected(s.corrected, e.msg), sent |-> Counted(s.sent, e.from)]

After(s) ==
  IF IsMessage(s) THEN Passed(s)
  ELSE IF IsRefill(s) THEN Refilled(s)
  ELSE IF s.pool[Head(s.script).com] = 0 THEN Extended(s)
  ELSE Drawn(s)

(* Both peers follow the chosen script of an extension, as its prover or   *)
(* as its verifier.                                                        *)
LEMMA ExtensionIsPaired ==
  ASSUME NEW c \in Coms
  PROVE  /\ ExtensionScript(c) \in Seq(Events)
         /\ \A p \in Parties : Follows(p, Extension(p, c), ExtensionScript(c))
<1>1. c[1] \in Parties
  BY DEF Coms
<1>2. PICK s : Follows(c[1], SvoleSend(c), s) /\ Follows(Peer(c[1]), SvoleReceive(c), s)
  BY <1>1, PairedSvole DEF Paired
<1>3. \A p \in Parties : Follows(p, Extension(p, c), s)
  BY <1>1, <1>2, PeerFacts DEF Extension
<1>4. s \in Seq(Events)
  BY <1>2 DEF Follows
<1> QED BY <1>3, <1>4 DEF ExtensionScript

(* Counting corrections yields counts.                                     *)
LEMMA CorrectedType ==
  ASSUME NEW counts \in [Coms -> Nat], NEW msg \in Msgs
  PROVE  Corrected(counts, msg) \in [Coms -> Nat]
BY DEF Corrected, Counted, Msgs

(* What the first event of a script can be.                                *)
LEMMA HeadKinds ==
  ASSUME NEW s \in States, s.script # <<>>
  PROVE  /\ Head(s.script) \in Events /\ Tail(s.script) \in Seq(Events)
         /\ IsMessage(s) \/ IsDraw(s) \/ IsRefill(s)
         /\ IsMessage(s) => /\ Head(s.script).from \in Parties
                            /\ Head(s.script).msg \in Msgs
                            /\ ~IsDraw(s) /\ ~IsRefill(s)
         /\ IsDraw(s) \/ IsRefill(s) => Head(s.script).com \in Coms
         /\ IsDraw(s) => ~IsRefill(s)
<1>1. s.script \in Seq(Events)
  BY DEF States
<1>2. Head(s.script) \in Events /\ Tail(s.script) \in Seq(Events)
  BY <1>1
<1> QED BY <1>2 DEF Events, IsMessage, IsDraw, IsRefill

(* The types of the parts of a state.                                      *)
LEMMA StateParts ==
  ASSUME NEW s \in States
  PROVE  /\ s.script \in Seq(Events) /\ s.pool \in [Coms -> Nat] /\ s.used \in [Coms -> Nat]
         /\ s.corrected \in [Coms -> Nat] /\ s.sent \in [Parties -> Nat]
BY DEF States

(* Counting yields counts.                                                 *)
LEMMA CountedType ==
  ASSUME NEW S, NEW counts \in [S -> Nat], NEW i \in S
  PROVE  Counted(counts, i) \in [S -> Nat]
BY DEF Counted

(* The event after a state leads to a state.                               *)
LEMMA AfterType ==
  ASSUME NEW s \in States, s.script # <<>>
  PROVE  After(s) \in States
<1> DEFINE c == Head(s.script).com
<1>1. CASE IsMessage(s)
  <2>1. /\ Corrected(s.corrected, Head(s.script).msg) \in [Coms -> Nat]
        /\ Counted(s.sent, Head(s.script).from) \in [Parties -> Nat]
    BY <1>1, HeadKinds, CorrectedType, CountedType, StateParts
  <2>2. After(s) = Passed(s)
    BY <1>1 DEF After
  <2> QED BY <2>1, <2>2, HeadKinds, StateParts DEF Passed, States
<1>2. CASE IsRefill(s)
  <2>1. [s.pool EXCEPT ![c] = @ + Fetch] \in [Coms -> Nat]
    BY <1>2, HeadKinds, ExchangeAssumption, StateParts
  <2>2. After(s) = Refilled(s)
    BY <1>2, HeadKinds DEF After
  <2> QED BY <2>1, <2>2, HeadKinds, StateParts DEF Refilled, States
<1>3. CASE IsDraw(s)
  <2>1. c \in Coms /\ s.pool[c] \in Nat
    BY <1>3, HeadKinds, StateParts
  <2>2. CASE s.pool[c] = 0
    <3>1. <<[do |-> "refill", com |-> c]>> \in Seq(Events)
      BY <2>1 DEF Events
    <3>2. ExtensionScript(c) \o <<[do |-> "refill", com |-> c]>> \o s.script \in Seq(Events)
      BY <2>1, <3>1, ExtensionIsPaired, StateParts
    <3>3. After(s) = Extended(s)
      BY <1>3, <2>2, HeadKinds DEF After
    <3> QED BY <3>2, <3>3, StateParts DEF Extended, States
  <2>3. CASE s.pool[c] # 0
    <3>1. After(s) = Drawn(s)
      BY <1>3, <2>3, HeadKinds DEF After
    <3>2. [s.pool EXCEPT ![c] = @ - 1] \in [Coms -> Nat]
      BY <2>1, <2>3, StateParts
    <3>3. Counted(s.used, c) \in [Coms -> Nat]
      BY <2>1, StateParts, CountedType
    <3> QED BY <3>1, <3>2, <3>3, HeadKinds, StateParts DEF Drawn, States
  <2> QED BY <2>2, <2>3
<1> QED BY <1>1, <1>2, <1>3, HeadKinds

(* A peer is in a state of the run.                                        *)
Mirrors(p, s) ==
  /\ Follows(p, todo[p], s.script)
  /\ pool[p] = s.pool /\ used[p] = s.used /\ corrected[p] = s.corrected

(* A peer at an operation other than a flush has that event before it in   *)
(* the script.                                                             *)
LEMMA MirrorsHead ==
  ASSUME NEW p \in Parties, NEW s \in States, Mirrors(p, s), todo[p] # <<>>,
         Head(todo[p]).do # "flush"
  PROVE  /\ s.script # <<>> /\ Head(s.script) \in Events
         /\ Follows(p, Tail(todo[p]), Tail(s.script))
         /\ At(p, "draw") => IsDraw(s) /\ Head(todo[p]).com = Head(s.script).com
         /\ At(p, "refill") => IsRefill(s) /\ Head(todo[p]).com = Head(s.script).com
         /\ At(p, "write") => IsMessage(s) /\ Head(s.script).from = p
                                /\ Head(todo[p]).msg = Head(s.script).msg
         /\ At(p, "read") => IsMessage(s) /\ Head(s.script).from = Peer(p)
                                /\ Head(todo[p]).msg = Head(s.script).msg
<1>1. /\ s.script # <<>> /\ Head(s.script) \in Events
      /\ Head(todo[p]) = View(p, Head(s.script))
      /\ Follows(p, Tail(todo[p]), Tail(s.script))
  BY FollowsHead DEF Mirrors
<1>2. CASE Head(s.script).do = "message"
  <2>1. Head(s.script).from \in Parties
    BY <1>1, <1>2 DEF Events
  <2>2. Head(todo[p]) = [do |-> IF Head(s.script).from = p THEN "write" ELSE "read",
                         msg |-> Head(s.script).msg]
    BY <1>1, <1>2 DEF View
  <2> QED BY <1>1, <1>2, <2>1, <2>2, PeerFacts DEF At, IsMessage
<1>3. CASE Head(s.script).do # "message"
  <2>1. Head(todo[p]) = Head(s.script) /\ Head(s.script).do \in {"draw", "refill"}
    BY <1>1, <1>3 DEF View, Events
  <2> QED BY <1>1, <2>1 DEF At, IsDraw, IsRefill
<1> QED BY <1>2, <1>3

IsFrom(s, p) == IsMessage(s) /\ Head(s.script).from = p
Stamp(s) == [msg |-> Head(s.script).msg, used |-> s.used, corrected |-> s.corrected]

(* A run of n events, and what a channel holds when its writer is w        *)
(* events into the run and its reader r.                                   *)
Sent(s, p) == s.sent[p]
Run(n, path) ==
  /\ path \in [0 .. n -> States]
  /\ \A i \in 0 .. n : i # n => path[i].script # <<>> /\ path[i + 1] = After(path[i])
  /\ \A i, j \in 0 .. n : i <= j => \A p \in Parties : Sent(path[i], p) <= Sent(path[j], p)

Channel(p, n, path, w, r, t) ==
  /\ Len(t) = IF r <= w THEN Sent(path[w], p) - Sent(path[r], p) ELSE 0
  /\ \A i \in 0 .. n : IsFrom(path[i], p) /\ i < r => i < w
  /\ \A i \in 0 .. n : IsFrom(path[i], p) /\ r <= i /\ i < w =>
       t[Sent(path[i], p) - Sent(path[r], p) + 1] = Stamp(path[i])

(* An event counts as sent for the writer of its message alone.            *)
LEMMA AfterSent ==
  ASSUME NEW s \in States, s.script # <<>>, NEW p \in Parties
  PROVE  Sent(After(s), p) = IF IsFrom(s, p) THEN Sent(s, p) + 1 ELSE Sent(s, p)
<1>1. CASE IsMessage(s)
  <2>1. After(s).sent = Counted(s.sent, Head(s.script).from)
    BY <1>1 DEF After, Passed
  <2>2. Head(s.script).from \in Parties /\ s.sent \in [Parties -> Nat]
    BY <1>1, HeadKinds, StateParts
  <2> QED BY <1>1, <2>1, <2>2 DEF Counted, IsFrom, Sent
<1>2. CASE ~IsMessage(s)
  <2>1. After(s).sent = s.sent
    BY <1>2 DEF After, Extended, Drawn, Refilled
  <2> QED BY <1>2, <2>1 DEF IsFrom, Sent
<1> QED BY <1>1, <1>2

(* A run that has an event to come can be continued.                       *)
LEMMA RunExtends ==
  ASSUME NEW n \in Nat, NEW path, Run(n, path), path[n].script # <<>>
  PROVE  \E longer : /\ Run(n + 1, longer)
                     /\ \A j \in 0 .. n : longer[j] = path[j]
<1> DEFINE longer == [i \in 0 .. n + 1 |-> IF i = n + 1 THEN After(path[n]) ELSE path[i]]
<1>1. /\ path \in [0 .. n -> States]
      /\ \A i \in 0 .. n : i # n => path[i].script # <<>> /\ path[i + 1] = After(path[i])
      /\ \A i, j \in 0 .. n : i <= j => \A p \in Parties : Sent(path[i], p) <= Sent(path[j], p)
  BY DEF Run
<1>2. path[n] \in States /\ After(path[n]) \in States
  BY <1>1, AfterType
<1>3. longer \in [0 .. n + 1 -> States]
  BY <1>1, <1>2
<1>4. longer[n + 1] = After(path[n]) /\ \A j \in 0 .. n : longer[j] = path[j]
  OBVIOUS
<1> HIDE DEF longer
<1>5. \A i \in 0 .. n + 1 : i # n + 1 => longer[i].script # <<>> /\ longer[i + 1] = After(longer[i])
  <2> SUFFICES ASSUME NEW i \in 0 .. n + 1, i # n + 1
               PROVE  longer[i].script # <<>> /\ longer[i + 1] = After(longer[i])
    OBVIOUS
  <2>1. i \in 0 .. n /\ longer[i] = path[i]
    BY <1>4
  <2>2. CASE i = n
    BY <1>4, <2>1, <2>2
  <2>3. CASE i # n
    <3>1. i + 1 \in 0 .. n
      BY <2>1, <2>3
    <3> QED BY <1>1, <1>4, <2>1, <2>3, <3>1
  <2> QED BY <2>2, <2>3
<1>6. \A i, j \in 0 .. n + 1 : i <= j => \A p \in Parties : Sent(longer[i], p) <= Sent(longer[j], p)
  <2> SUFFICES ASSUME NEW i \in 0 .. n + 1, NEW j \in 0 .. n + 1, i <= j, NEW p \in Parties
               PROVE  Sent(longer[i], p) <= Sent(longer[j], p)
    OBVIOUS
  <2>1. /\ Sent(longer[i], p) \in Nat /\ Sent(longer[j], p) \in Nat /\ Sent(path[n], p) \in Nat
    BY <1>2, <1>3, StateParts DEF Sent
  <2>2. CASE j # n + 1
    <3>1. i \in 0 .. n /\ j \in 0 .. n
      BY <2>2
    <3> QED BY <1>1, <1>4, <3>1
  <2>3. CASE j = n + 1 /\ i # n + 1
    <3>1. i \in 0 .. n /\ n \in 0 .. n /\ i <= n
      BY <2>3
    <3>2. Sent(longer[i], p) <= Sent(path[n], p)
      BY <1>1, <1>4, <3>1
    <3>3. Sent(path[n], p) <= Sent(longer[j], p)
      BY <1>2, <1>4, <2>1, <2>3, AfterSent
    <3> QED BY <2>1, <3>2, <3>3
  <2>4. CASE j = n + 1 /\ i = n + 1
    BY <2>1, <2>4
  <2> QED BY <2>2, <2>3, <2>4
<1>7. Run(n + 1, longer)
  BY <1>3, <1>5, <1>6 DEF Run
<1> QED BY <1>4, <1>7

(* The facts about a run that the channel needs.                           *)
LEMMA RunParts ==
  ASSUME NEW n \in Nat, NEW path, Run(n, path), NEW p \in Parties
  PROVE  /\ \A i \in 0 .. n : path[i] \in States /\ Sent(path[i], p) \in Nat
         /\ \A i \in 0 .. n : i # n =>
              Sent(path[i + 1], p) = IF IsFrom(path[i], p) THEN Sent(path[i], p) + 1
                                    ELSE Sent(path[i], p)
         /\ \A i, j \in 0 .. n : i <= j => Sent(path[i], p) <= Sent(path[j], p)
<1>1. \A i \in 0 .. n : path[i] \in States /\ Sent(path[i], p) \in Nat
  BY StateParts DEF Run, Sent
<1> QED BY <1>1, AfterSent DEF Run

(* A writer that moves past an event that is no message of its own leaves  *)
(* the channel as it was.                                                  *)
LEMMA WriterPasses ==
  ASSUME NEW n \in Nat, NEW path, Run(n, path), NEW p \in Parties,
         NEW w \in 0 .. n, NEW r \in 0 .. n, NEW t, w # n,
         Channel(p, n, path, w, r, t), ~IsFrom(path[w], p)
  PROVE  Channel(p, n, path, w + 1, r, t)
<1>1. w + 1 \in 0 .. n /\ Sent(path[w + 1], p) = Sent(path[w], p)
      /\ Sent(path[w], p) \in Nat /\ Sent(path[r], p) \in Nat
  BY RunParts
<1>2. Len(t) = IF r <= w + 1 THEN Sent(path[w + 1], p) - Sent(path[r], p) ELSE 0
  <2>1. CASE r = w + 1
    BY <1>1, <2>1 DEF Channel
  <2>2. CASE r # w + 1
    BY <1>1, <2>2 DEF Channel
  <2> QED BY <2>1, <2>2
<1>3. \A i \in 0 .. n : IsFrom(path[i], p) /\ i < r => i < w + 1
  BY DEF Channel
<1>4. \A i \in 0 .. n : IsFrom(path[i], p) /\ i < w + 1 => i < w
  OBVIOUS
<1>5. \A i \in 0 .. n : IsFrom(path[i], p) /\ r <= i /\ i < w + 1 =>
        t[Sent(path[i], p) - Sent(path[r], p) + 1] = Stamp(path[i])
  BY <1>4 DEF Channel
<1> QED BY <1>2, <1>3, <1>5 DEF Channel

(* So does a reader past an event that is no message to it.                *)
LEMMA ReaderPasses ==
  ASSUME NEW n \in Nat, NEW path, Run(n, path), NEW p \in Parties,
         NEW w \in 0 .. n, NEW r \in 0 .. n, NEW t, r # n,
         Channel(p, n, path, w, r, t), ~IsFrom(path[r], p)
  PROVE  Channel(p, n, path, w, r + 1, t)
<1>1. r + 1 \in 0 .. n /\ Sent(path[r + 1], p) = Sent(path[r], p)
      /\ Sent(path[w], p) \in Nat /\ Sent(path[r], p) \in Nat
  BY RunParts
<1>2. Len(t) = IF r + 1 <= w THEN Sent(path[w], p) - Sent(path[r + 1], p) ELSE 0
  <2>1. CASE r = w
    BY <1>1, <2>1 DEF Channel
  <2>2. CASE r # w
    BY <1>1, <2>2 DEF Channel
  <2> QED BY <2>1, <2>2
<1>3. \A i \in 0 .. n : IsFrom(path[i], p) /\ i < r + 1 => i < r
  OBVIOUS
<1>4. \A i \in 0 .. n : IsFrom(path[i], p) /\ i < r + 1 => i < w
  BY <1>3 DEF Channel
<1>5. \A i \in 0 .. n : IsFrom(path[i], p) /\ r + 1 <= i /\ i < w =>
        t[Sent(path[i], p) - Sent(path[r + 1], p) + 1] = Stamp(path[i])
  <2> SUFFICES ASSUME NEW i \in 0 .. n, IsFrom(path[i], p), r + 1 <= i, i < w
               PROVE  t[Sent(path[i], p) - Sent(path[r + 1], p) + 1] = Stamp(path[i])
    OBVIOUS
  <2>1. r <= i
    OBVIOUS
  <2> QED BY <1>1, <2>1 DEF Channel
<1> QED BY <1>2, <1>4, <1>5 DEF Channel

(* A message written is the next of the channel.                           *)
LEMMA WriterSends ==
  ASSUME NEW n \in Nat, NEW path, Run(n, path), NEW p \in Parties,
         NEW w \in 0 .. n, NEW r \in 0 .. n, NEW t \in Seq(Messages), w # n,
         Channel(p, n, path, w, r, t), IsFrom(path[w], p), Stamp(path[w]) \in Messages
  PROVE  Channel(p, n, path, w + 1, r, Append(t, Stamp(path[w])))
<1> DEFINE u == Append(t, Stamp(path[w]))
<1>1. w + 1 \in 0 .. n /\ Sent(path[w + 1], p) = Sent(path[w], p) + 1
      /\ Sent(path[w], p) \in Nat /\ Sent(path[r], p) \in Nat
  BY RunParts
<1>2. r <= w
  BY DEF Channel
<1>3. Len(t) = Sent(path[w], p) - Sent(path[r], p)
  BY <1>2 DEF Channel
<1>4. /\ Len(u) = Len(t) + 1 /\ u[Len(t) + 1] = Stamp(path[w])
      /\ \A k \in 1 .. Len(t) : u[k] = t[k]
  OBVIOUS
<1> HIDE DEF u
<1>5. Len(u) = IF r <= w + 1 THEN Sent(path[w + 1], p) - Sent(path[r], p) ELSE 0
  BY <1>1, <1>2, <1>3, <1>4
<1>6. \A i \in 0 .. n : IsFrom(path[i], p) /\ i < r => i < w + 1
  BY DEF Channel
<1>7. \A i \in 0 .. n : IsFrom(path[i], p) /\ r <= i /\ i < w + 1 =>
        u[Sent(path[i], p) - Sent(path[r], p) + 1] = Stamp(path[i])
  <2> SUFFICES ASSUME NEW i \in 0 .. n, IsFrom(path[i], p), r <= i, i < w + 1
               PROVE  u[Sent(path[i], p) - Sent(path[r], p) + 1] = Stamp(path[i])
    OBVIOUS
  <2>1. CASE i = w
    BY <1>1, <1>3, <1>4, <2>1
  <2>2. CASE i # w
    <3>1. i < w /\ i + 1 \in 0 .. n /\ i + 1 <= w /\ i # n
      BY <2>2
    <3>2. /\ Sent(path[i + 1], p) = Sent(path[i], p) + 1 /\ Sent(path[i], p) \in Nat
          /\ Sent(path[i + 1], p) <= Sent(path[w], p) /\ Sent(path[r], p) <= Sent(path[i], p)
      BY <3>1, RunParts
    <3>3. Sent(path[i], p) - Sent(path[r], p) + 1 \in 1 .. Len(t)
      BY SMTT(30), <1>1, <1>3, <3>2
    <3>4. t[Sent(path[i], p) - Sent(path[r], p) + 1] = Stamp(path[i])
      BY <3>1 DEF Channel
    <3> QED BY <1>4, <3>3, <3>4
  <2> QED BY <2>1, <2>2
<1>8. Channel(p, n, path, w + 1, r, u)
  BY <1>5, <1>6, <1>7 DEF Channel
<1> QED BY <1>8 DEF u

(* The message that a reader finds is the one of the event before it.      *)
LEMMA ReaderReceives ==
  ASSUME NEW n \in Nat, NEW path, Run(n, path), NEW p \in Parties,
         NEW w \in 0 .. n, NEW r \in 0 .. n, NEW t \in Seq(Messages), r # n,
         Channel(p, n, path, w, r, t), IsFrom(path[r], p), t # <<>>
  PROVE  /\ Head(t) = Stamp(path[r])
         /\ Channel(p, n, path, w, r + 1, Tail(t))
<1>1. r + 1 \in 0 .. n /\ Sent(path[r + 1], p) = Sent(path[r], p) + 1
      /\ Sent(path[w], p) \in Nat /\ Sent(path[r], p) \in Nat
  BY RunParts
<1>2. /\ Len(t) \in Nat /\ Len(t) > 0 /\ Len(Tail(t)) = Len(t) - 1 /\ Head(t) = t[1]
      /\ \A k \in 1 .. Len(t) - 1 : Tail(t)[k] = t[k + 1]
  OBVIOUS
<1>3. r < w /\ Len(t) = Sent(path[w], p) - Sent(path[r], p)
  <2>1. r <= w
    BY <1>2 DEF Channel
  <2>2. r # w
    BY <1>1, <1>2 DEF Channel
  <2> QED BY <2>1, <2>2 DEF Channel
<1>4. Head(t) = Stamp(path[r])
  <2>1. t[Sent(path[r], p) - Sent(path[r], p) + 1] = Stamp(path[r])
    BY <1>3 DEF Channel
  <2> QED BY <1>1, <1>2, <2>1
<1>5. Len(Tail(t)) = IF r + 1 <= w THEN Sent(path[w], p) - Sent(path[r + 1], p) ELSE 0
  BY <1>1, <1>2, <1>3
<1>6. \A i \in 0 .. n : IsFrom(path[i], p) /\ i < r + 1 => i < w
  BY <1>3
<1>7. \A i \in 0 .. n : IsFrom(path[i], p) /\ r + 1 <= i /\ i < w =>
        Tail(t)[Sent(path[i], p) - Sent(path[r + 1], p) + 1] = Stamp(path[i])
  <2> SUFFICES ASSUME NEW i \in 0 .. n, IsFrom(path[i], p), r + 1 <= i, i < w
               PROVE  Tail(t)[Sent(path[i], p) - Sent(path[r + 1], p) + 1] = Stamp(path[i])
    OBVIOUS
  <2>1. r <= i /\ i # n /\ i + 1 \in 0 .. n /\ i + 1 <= w
    OBVIOUS
  <2>2. /\ Sent(path[i + 1], p) = Sent(path[i], p) + 1 /\ Sent(path[i], p) \in Nat
        /\ Sent(path[i + 1], p) <= Sent(path[w], p) /\ Sent(path[r + 1], p) <= Sent(path[i], p)
    BY <1>1, <2>1, RunParts
  <2>3. Sent(path[i], p) - Sent(path[r + 1], p) + 1 \in 1 .. Len(t) - 1
    BY SMTT(30), <1>1, <1>3, <2>2
  <2>4. t[Sent(path[i], p) - Sent(path[r], p) + 1] = Stamp(path[i])
    BY <2>1 DEF Channel
  <2>5. Sent(path[i], p) - Sent(path[r + 1], p) + 1 + 1 = Sent(path[i], p) - Sent(path[r], p) + 1
    BY <1>1, <2>2
  <2> QED BY <1>2, <2>3, <2>4, <2>5
<1> QED BY <1>4, <1>5, <1>6, <1>7 DEF Channel

(* What a peer has written and the other has not read.                     *)
Transit(p) == net[p] \o out[p]

(* The types, and the inductive invariant: a run, and the place of each    *)
(* peer in it.                                                             *)
Typed ==
  /\ todo \in [Parties -> Seq(Ops)]
  /\ pool \in [Parties -> [Coms -> Nat]]
  /\ used \in [Parties -> [Coms -> Nat]]
  /\ corrected \in [Parties -> [Coms -> Nat]]
  /\ out \in [Parties -> Seq(Messages)]
  /\ net \in [Parties -> Seq(Messages)]

Placed(n, path, at) ==
  /\ at \in [Parties -> 0 .. n]
  /\ \A p \in Parties : Mirrors(p, path[at[p]])
  /\ \A p \in Parties : Channel(p, n, path, at[p], at[Peer(p)], Transit(p))

Mirrored == \E n \in Nat : \E path : Run(n, path) /\ \E at : Placed(n, path, at)
ExchangeInv == Typed /\ Mirrored

(* A script that both programs follow.                                     *)
LEMMA ProgramsFollow ==
  ASSUME NEW policy
  PROVE  \E script : \A p \in Parties : Follows(p, Program(p, policy), script)
BY PairedPrograms, PartiesAre DEF Paired, Parties

(* The invariant holds initially: both peers are in the first state of a   *)
(* run of one state, and nothing is on its way.                            *)
LEMMA InitMirrored == Init => ExchangeInv
<1> SUFFICES ASSUME Init PROVE ExchangeInv
  OBVIOUS
<1>1. PICK policy : todo = [p \in Parties |-> Program(p, policy)]
  BY DEF Init
<1>2. PICK start \in [Coms -> 0 .. Leftover] : pool = [p \in Parties |-> start]
  BY DEF Init
<1>3. PICK script : \A p \in Parties : Follows(p, Program(p, policy), script)
  BY ProgramsFollow
<1>4. start \in [Coms -> Nat]
  <2>1. \A c \in Coms : start[c] \in Nat
    BY ExchangeAssumption
  <2> QED BY <2>1
<1>5. /\ used = [p \in Parties |-> [c \in Coms |-> 0]] /\ corrected = used
      /\ out = [p \in Parties |-> <<>>] /\ net = [p \in Parties |-> <<>>]
  BY DEF Init
<1>6. Typed
  <2>1. \A p \in Parties : Program(p, policy) \in Seq(Ops)
    BY <1>3 DEF Follows
  <2> QED BY <1>1, <1>2, <1>4, <1>5, <2>1 DEF Typed
<1> DEFINE s == [script |-> script, pool |-> start, used |-> [c \in Coms |-> 0],
                 corrected |-> [c \in Coms |-> 0], sent |-> [p \in Parties |-> 0]]
           path == [i \in 0 .. 0 |-> s]
           at == [p \in Parties |-> 0]
<1>7. s \in States
  <2>1. script \in Seq(Events)
    BY <1>3, PartiesAre DEF Follows
  <2> QED BY <1>4, <2>1 DEF States
<1>8. /\ s.script = script /\ s.pool = start /\ s.used = [c \in Coms |-> 0]
      /\ s.corrected = [c \in Coms |-> 0] /\ \A p \in Parties : Sent(s, p) = 0
  BY DEF Sent
<1> HIDE DEF s
<1>9. Run(0, path)
  <2>1. path \in [0 .. 0 -> States] /\ \A i \in 0 .. 0 : i = 0 /\ path[i] = s
    BY <1>7
  <2> HIDE DEF path
  <2> QED BY <1>8, <2>1 DEF Run
<1>10. Placed(0, path, at)
  <2>1. /\ path[0] = s /\ at \in [Parties -> 0 .. 0]
        /\ \A p \in Parties : at[p] = 0
    OBVIOUS
  <2>2. \A p \in Parties : Mirrors(p, s)
    BY <1>1, <1>2, <1>3, <1>5, <1>8 DEF Mirrors
  <2>3. \A p \in Parties : Transit(p) = <<>>
    BY <1>5 DEF Transit
  <2> HIDE DEF path, at
  <2>4. \A p \in Parties : Channel(p, 0, path, at[p], at[Peer(p)], Transit(p))
    BY <1>8, <2>1, <2>3, PeerFacts DEF Channel
  <2> QED BY <2>1, <2>2, <2>4 DEF Placed
<1> HIDE DEF path, at
<1> QED BY <1>6, <1>9, <1>10 DEF ExchangeInv, Mirrored

(* The run can be taken to go past a peer that has an event to come.       *)
LEMMA Longer ==
  ASSUME NEW n \in Nat, NEW path, NEW at, Run(n, path), Placed(n, path, at),
         NEW p \in Parties, path[at[p]].script # <<>>
  PROVE  \E m \in Nat : \E longer :
           /\ Run(m, longer) /\ Placed(m, longer, at) /\ at[p] # m
           /\ longer[at[p]] = path[at[p]]
<1>1. CASE at[p] # n
  BY <1>1
<1>2. CASE at[p] = n
  <2>1. path[n].script # <<>>
    BY <1>2
  <2>2. PICK longer : Run(n + 1, longer) /\ \A j \in 0 .. n : longer[j] = path[j]
    BY <2>1, RunExtends
  <2>3. at \in [Parties -> 0 .. n] /\ \A q \in Parties : at[q] \in 0 .. n /\ at[Peer(q)] \in 0 .. n
    BY PeerFacts DEF Placed
  <2>4. \A q \in Parties : Channel(q, n + 1, longer, at[q], at[Peer(q)], Transit(q))
    <3> SUFFICES ASSUME NEW q \in Parties
                 PROVE  Channel(q, n + 1, longer, at[q], at[Peer(q)], Transit(q))
      OBVIOUS
    <3>1. Channel(q, n, path, at[q], at[Peer(q)], Transit(q))
      BY DEF Placed
    <3>2. /\ longer[at[q]] = path[at[q]] /\ longer[at[Peer(q)]] = path[at[Peer(q)]]
          /\ at[q] \in 0 .. n /\ at[Peer(q)] \in 0 .. n
      BY <2>2, <2>3
    <3> DEFINE w == at[q]
               r == at[Peer(q)]
    <3> HIDE DEF w, r
    <3>3. \A i \in 0 .. n + 1 : i < r => i \in 0 .. n
      BY <3>2 DEF r
    <3>4. \A i \in 0 .. n + 1 : i < w => i \in 0 .. n
      BY <3>2 DEF w
    <3>5. Channel(q, n + 1, longer, w, r, Transit(q))
      BY <2>2, <3>1, <3>2, <3>3, <3>4 DEF Channel, w, r
    <3> QED BY <3>5 DEF w, r
  <2>5. \A q \in Parties : Mirrors(q, longer[at[q]])
    BY <2>2, <2>3 DEF Placed
  <2>6. at \in [Parties -> 0 .. n + 1]
    BY <2>3
  <2>7. Placed(n + 1, longer, at)
    BY <2>4, <2>5, <2>6 DEF Placed
  <2>8. at[p] # n + 1 /\ longer[at[p]] = path[at[p]] /\ n + 1 \in Nat
    BY <1>2, <2>2, <2>3
  <2> QED BY <2>2, <2>7, <2>8
<1> QED BY <1>1, <1>2

(* When one peer moves along the run, and the channels follow, the         *)
(* invariant is kept.                                                      *)
LEMMA Moves ==
  ASSUME NEW n \in Nat, NEW path, NEW at, Run(n, path), Placed(n, path, at),
         NEW p \in Parties, at[p] # n,
         Mirrors(p, After(path[at[p]]))',
         UNCHANGED <<todo[Peer(p)], pool[Peer(p)], used[Peer(p)], corrected[Peer(p)]>>,
         Channel(p, n, path, at[p] + 1, at[Peer(p)], Transit(p)'),
         Channel(Peer(p), n, path, at[Peer(p)], at[p] + 1, Transit(Peer(p))')
  PROVE  Mirrored'
<1> DEFINE q == Peer(p)
           moved == [at EXCEPT ![p] = at[p] + 1]
<1>1. /\ at \in [Parties -> 0 .. n] /\ at[p] \in 0 .. n /\ at[p] + 1 \in 0 .. n
  BY DEF Placed
<1>2. /\ q \in Parties /\ Peer(q) = p /\ p # q /\ \A r \in Parties : r = p \/ r = q
  BY PeerFacts
<1>3. moved \in [Parties -> 0 .. n] /\ moved[p] = at[p] + 1 /\ moved[q] = at[q]
  BY <1>1, <1>2
<1> HIDE DEF moved
<1>4. Mirrors(p, path[moved[p]])'
  <2>1. path[moved[p]] = After(path[at[p]])
    BY <1>1, <1>3 DEF Run
  <2> QED BY <2>1 DEF Mirrors
<1>5. Mirrors(q, path[moved[q]])'
  <2>1. Mirrors(q, path[at[q]])
    BY <1>2 DEF Placed
  <2> QED BY <1>3, <2>1 DEF Mirrors
<1>6. \A r \in Parties : Mirrors(r, path[moved[r]])'
  BY <1>2, <1>4, <1>5
<1>7. \A r \in Parties : Channel(r, n, path, moved[r], moved[Peer(r)], Transit(r)')
  BY <1>2, <1>3
<1>8. Placed(n, path, moved)'
  BY <1>3, <1>6, <1>7 DEF Placed, Channel
<1> QED BY <1>8 DEF Mirrored, Run

(* Appending to the second part appends to the whole.                      *)
LEMMA AppendToConcat ==
  ASSUME NEW S, NEW a \in Seq(S), NEW b \in Seq(S), NEW x \in S
  PROVE  a \o Append(b, x) = Append(a \o b, x)
<1>1. a \o (b \o <<x>>) = (a \o b) \o <<x>>
  BY ConcatAssociative, <<x>> \in Seq(S)
<1> QED BY <1>1, AppendIsConcat, ConcatProperties

(* The head and the tail of the whole are those of the first part.         *)
LEMMA TailOfConcat ==
  ASSUME NEW S, NEW a \in Seq(S), NEW b \in Seq(S), a # <<>>
  PROVE  Tail(a \o b) = Tail(a) \o b /\ Head(a \o b) = Head(a) /\ a \o b # <<>>
<1>1. a = <<Head(a)>> \o Tail(a) /\ Head(a) \in S /\ Tail(a) \in Seq(S)
  OBVIOUS
<1>2. a \o b = <<Head(a)>> \o (Tail(a) \o b)
  BY <1>1, ConcatAssociative, <<Head(a)>> \in Seq(S)
<1>3. Tail(a) \o b \in Seq(S)
  BY <1>1, ConcatProperties
<1> QED BY <1>1, <1>2, <1>3

(* The first of the second part may be the last of the first.              *)
LEMMA HeadHandedOver ==
  ASSUME NEW S, NEW a \in Seq(S), NEW b \in Seq(S), b # <<>>
  PROVE  Append(a, Head(b)) \o Tail(b) = a \o b
<1>1. b = <<Head(b)>> \o Tail(b) /\ Head(b) \in S /\ Tail(b) \in Seq(S)
  OBVIOUS
<1>2. Append(a, Head(b)) = a \o <<Head(b)>>
  BY <1>1, AppendIsConcat
<1> QED BY <1>1, <1>2, ConcatAssociative, <<Head(b)>> \in Seq(S)

(* What is on its way are messages.                                        *)
LEMMA TransitType == ASSUME Typed, NEW p \in Parties PROVE Transit(p) \in Seq(Messages)
BY ConcatProperties DEF Typed, Transit

(* The types of the parts of a peer.                                       *)
LEMMA TypedParts ==
  ASSUME Typed, NEW p \in Parties
  PROVE  /\ todo[p] \in Seq(Ops) /\ pool[p] \in [Coms -> Nat] /\ used[p] \in [Coms -> Nat]
         /\ corrected[p] \in [Coms -> Nat] /\ out[p] \in Seq(Messages) /\ net[p] \in Seq(Messages)
BY DEF Typed

(* The type of the operation before a peer.                                *)
LEMMA HeadOp ==
  ASSUME Typed, NEW p \in Parties, todo[p] # <<>>
  PROVE  /\ Head(todo[p]) \in Ops /\ Tail(todo[p]) \in Seq(Ops)
         /\ At(p, "draw") \/ At(p, "refill") => Head(todo[p]).com \in Coms
         /\ At(p, "write") \/ At(p, "read") => Head(todo[p]).msg \in Msgs
<1>1. Head(todo[p]) \in Ops /\ Tail(todo[p]) \in Seq(Ops)
  BY TypedParts
<1> QED BY <1>1 DEF Ops, At

(* A step without a message moves its peer along the run.                  *)
LEMMA QuietStep ==
  ASSUME NEW n \in Nat, NEW path, NEW at, Run(n, path), Placed(n, path, at),
         NEW p \in Parties, path[at[p]].script # <<>>, ~IsMessage(path[at[p]]),
         Mirrors(p, After(path[at[p]]))',
         UNCHANGED <<todo[Peer(p)], pool[Peer(p)], used[Peer(p)], corrected[Peer(p)], out, net>>
  PROVE  Mirrored'
<1>1. PICK m \in Nat : \E longer :
        /\ Run(m, longer) /\ Placed(m, longer, at) /\ at[p] # m
        /\ longer[at[p]] = path[at[p]]
  BY Longer
<1>2. PICK longer : /\ Run(m, longer) /\ Placed(m, longer, at) /\ at[p] # m
                    /\ longer[at[p]] = path[at[p]]
  BY <1>1
<1> DEFINE q == Peer(p)
<1>3. q \in Parties /\ Peer(q) = p
  BY PeerFacts
<1>4. /\ at[p] \in 0 .. m /\ at[q] \in 0 .. m
      /\ Channel(p, m, longer, at[p], at[q], Transit(p))
      /\ Channel(q, m, longer, at[q], at[p], Transit(q))
  BY <1>2, <1>3 DEF Placed
<1>5. ~IsFrom(longer[at[p]], p) /\ ~IsFrom(longer[at[p]], q)
  BY <1>2 DEF IsFrom
<1>6. Channel(p, m, longer, at[p] + 1, at[q], Transit(p))
  BY <1>2, <1>4, <1>5, WriterPasses
<1>7. Channel(q, m, longer, at[q], at[p] + 1, Transit(q))
  BY <1>2, <1>3, <1>4, <1>5, ReaderPasses
<1>8. Transit(p)' = Transit(p) /\ Transit(q)' = Transit(q)
  BY DEF Transit
<1>9. Mirrors(p, After(longer[at[p]]))'
  BY <1>2
<1> HIDE DEF q
<1>10. /\ Channel(p, m, longer, at[p] + 1, at[q], Transit(p)')
       /\ Channel(q, m, longer, at[q], at[p] + 1, Transit(q)')
  BY <1>6, <1>7, <1>8
<1>11. UNCHANGED <<todo[q], pool[q], used[q], corrected[q]>>
  BY DEF q
<1> USE DEF q
<1> QED BY <1>2, <1>9, <1>10, <1>11, Moves

(* Draw, Extend and Refill: the pool decides for both peers alike when     *)
(* they get to the same place.                                             *)
LEMMA DrawKeepsMirrored ==
  ASSUME ExchangeInv, NEW p \in Parties, Draw(p) \/ Extend(p) \/ Refill(p)
  PROVE  Mirrored'
<1>0. PICK n \in Nat : \E path : Run(n, path) /\ \E at : Placed(n, path, at)
  BY DEF ExchangeInv, Mirrored
<1>1. PICK path : Run(n, path) /\ \E at : Placed(n, path, at)
  BY <1>0
<1>2. PICK at : Placed(n, path, at)
  BY <1>1
<1> DEFINE s == path[at[p]]
           q == Peer(p)
           c == Head(todo[p]).com
<1>3. Typed /\ q \in Parties /\ p # q
  BY PeerFacts DEF ExchangeInv
<1>4. s \in States /\ Mirrors(p, s)
  BY <1>1, <1>2 DEF Run, Placed
<1>5. todo[p] # <<>> /\ Head(todo[p]).do \in {"draw", "refill"} /\ c \in Coms
  BY <1>3, HeadOp DEF Draw, Extend, Refill, At
<1> HIDE DEF s, c, q
<1>6. /\ s.script # <<>> /\ Head(s.script).com = c
      /\ Follows(p, Tail(todo[p]), Tail(s.script)) /\ Follows(p, todo[p], s.script)
      /\ pool[p] = s.pool /\ used[p] = s.used /\ corrected[p] = s.corrected
      /\ At(p, "draw") => IsDraw(s)
      /\ At(p, "refill") => IsRefill(s)
  <2>1. Head(todo[p]).do # "flush"
    BY <1>5
  <2>2. At(p, "draw") \/ At(p, "refill")
    BY <1>5 DEF At
  <2> QED BY <1>4, <1>5, <2>1, <2>2, MirrorsHead DEF Mirrors, c
<1>7. ~IsMessage(s)
  BY <1>4, <1>6, <1>5, HeadKinds DEF At
<1>8. UNCHANGED <<todo[q], pool[q], used[q], corrected[q], out, net>>
  BY <1>3 DEF Draw, Extend, Refill, Advance, Typed
<1>9. Mirrors(p, After(s))'
  <2>1. CASE Draw(p)
    <3>1. s.pool[c] > 0 /\ s.pool \in [Coms -> Nat]
      BY <1>4, <1>6, <2>1, StateParts DEF Draw, c
    <3>2. After(s) = Drawn(s)
      BY <1>6, <1>7, <2>1, <3>1, HeadKinds, <1>4 DEF After, Draw
    <3>3. /\ todo[p]' = Tail(todo[p]) /\ pool[p]' = [s.pool EXCEPT ![c] = @ - 1]
          /\ used[p]' = Counted(s.used, c) /\ corrected[p]' = s.corrected
      BY <1>3, <1>5, <1>6, <2>1 DEF Draw, Advance, Counted, Typed, c
    <3>4. /\ Drawn(s).script = Tail(s.script) /\ Drawn(s).pool = [s.pool EXCEPT ![c] = @ - 1]
          /\ Drawn(s).used = Counted(s.used, c) /\ Drawn(s).corrected = s.corrected
      BY <1>6 DEF Drawn
    <3> QED BY <1>6, <3>2, <3>3, <3>4 DEF Mirrors
  <2>2. CASE Extend(p)
    <3>1. s.pool[c] = 0
      BY <1>6, <2>2 DEF Extend, c
    <3>2. After(s) = Extended(s)
      BY <1>6, <1>7, <2>2, <3>1, HeadKinds, <1>4 DEF After, Extend
    <3> DEFINE refill == [do |-> "refill", com |-> c]
    <3>3. /\ todo[p]' = Extension(p, c) \o <<refill>> \o todo[p]
          /\ pool[p]' = s.pool /\ used[p]' = s.used /\ corrected[p]' = s.corrected
      BY <1>3, <1>6, <2>2 DEF Extend, Typed, c
    <3>4. /\ Extended(s).script = ExtensionScript(c) \o <<refill>> \o s.script
          /\ Extended(s).pool = s.pool
          /\ Extended(s).used = s.used /\ Extended(s).corrected = s.corrected
      BY <1>6 DEF Extended
    <3>5. refill \in Events /\ View(p, refill) = refill
      BY <1>5 DEF Events, View
    <3> HIDE DEF refill
    <3>6. Follows(p, <<refill>>, <<refill>>)
      BY <3>5, FollowsEvent
    <3>7. Follows(p, Extension(p, c), ExtensionScript(c))
      BY <1>5, ExtensionIsPaired
    <3>8. Follows(p, Extension(p, c) \o <<refill>>, ExtensionScript(c) \o <<refill>>)
      BY <3>6, <3>7, FollowsConcat
    <3>9. Follows(p, Extension(p, c) \o <<refill>> \o todo[p],
                     ExtensionScript(c) \o <<refill>> \o s.script)
      BY <1>6, <3>8, FollowsConcat
    <3> QED BY <3>2, <3>3, <3>4, <3>9 DEF Mirrors
  <2>3. CASE Refill(p)
    <3>1. After(s) = Refilled(s)
      BY <1>6, <1>7, <2>3 DEF After, Refill
    <3>2. /\ todo[p]' = Tail(todo[p]) /\ pool[p]' = [s.pool EXCEPT ![c] = @ + Fetch]
          /\ used[p]' = s.used /\ corrected[p]' = s.corrected
      BY <1>3, <1>5, <1>6, <2>3 DEF Refill, Advance, Typed, c
    <3>3. /\ Refilled(s).script = Tail(s.script)
          /\ Refilled(s).pool = [s.pool EXCEPT ![c] = @ + Fetch]
          /\ Refilled(s).used = s.used /\ Refilled(s).corrected = s.corrected
      BY <1>6 DEF Refilled
    <3> QED BY <1>6, <3>1, <3>2, <3>3 DEF Mirrors
  <2> QED BY <2>1, <2>2, <2>3
<1> USE DEF s, q
<1> QED BY <1>1, <1>2, <1>6, <1>7, <1>8, <1>9, QuietStep

(* The stamp of a state is a message.                                      *)
LEMMA StampType ==
  ASSUME NEW s \in States, IsMessage(s)
  PROVE  Stamp(s) \in Messages
BY HeadKinds, StateParts DEF Stamp, Messages, IsMessage

(* A peer that executes a message goes to the next state of the run.       *)
LEMMA PassesOf ==
  ASSUME NEW s \in States, IsMessage(s), NEW p \in Parties, ExchangeInv,
         Mirrors(p, s), Advance(p), todo[p] # <<>>,
         Head(todo[p]).msg = Head(s.script).msg, Correct(p, Head(todo[p]).msg),
         Follows(p, Tail(todo[p]), Tail(s.script)), UNCHANGED <<pool, used>>
  PROVE  Mirrors(p, After(s))'
<1> DEFINE msg == Head(s.script).msg
<1>1. /\ todo[p]' = Tail(todo[p]) /\ pool[p]' = s.pool /\ used[p]' = s.used
  BY DEF Advance, ExchangeInv, Typed, Mirrors
<1>2. corrected[p]' = Corrected(s.corrected, msg)
  <2>1. CASE msg[2] = "corrections"
    BY <2>1 DEF Correct, Corrected, Counted, Mirrors, ExchangeInv, Typed
  <2>2. CASE msg[2] # "corrections"
    BY <2>2 DEF Correct, Corrected, Mirrors
  <2> QED BY <2>1, <2>2
<1>3. /\ After(s).script = Tail(s.script) /\ After(s).pool = s.pool /\ After(s).used = s.used
      /\ After(s).corrected = Corrected(s.corrected, msg)
  BY DEF After, Passed
<1> HIDE DEF msg
<1> QED BY <1>1, <1>2, <1>3 DEF Mirrors

(* WriteTo: the writer is not behind its peer, and its message is stamped  *)
(* with the state both have at that place.                                 *)
LEMMA WriteKeepsMirrored ==
  ASSUME ExchangeInv, NEW p \in Parties, WriteTo(p)
  PROVE  Mirrored'
<1>0. PICK k \in Nat : \E start : Run(k, start) /\ \E at : Placed(k, start, at)
  BY DEF ExchangeInv, Mirrored
<1>1. PICK start : Run(k, start) /\ \E at : Placed(k, start, at)
  BY <1>0
<1>2. PICK at : Placed(k, start, at)
  BY <1>1
<1>3. Typed /\ Peer(p) \in Parties /\ Peer(Peer(p)) = p /\ p # Peer(p)
  BY PeerFacts DEF ExchangeInv
<1>4. start[at[p]] \in States /\ Mirrors(p, start[at[p]])
  BY <1>1, <1>2 DEF Run, Placed
<1>5. /\ todo[p] # <<>> /\ At(p, "write") /\ Head(todo[p]).do # "flush"
  BY DEF WriteTo, At
<1>6. start[at[p]].script # <<>>
  BY <1>4, <1>5, MirrorsHead
<1>7. PICK n \in Nat : \E path : /\ Run(n, path) /\ Placed(n, path, at) /\ at[p] # n
                                 /\ path[at[p]] = start[at[p]]
  BY <1>1, <1>2, <1>6, Longer
<1>8. PICK path : /\ Run(n, path) /\ Placed(n, path, at) /\ at[p] # n
                  /\ path[at[p]] = start[at[p]]
  BY <1>7
<1> DEFINE s == path[at[p]]
           q == Peer(p)
<1>9. s \in States /\ Mirrors(p, s)
  BY <1>4, <1>8
<1> HIDE DEF s
<1>10. /\ IsMessage(s) /\ Head(s.script).from = p /\ Head(todo[p]).msg = Head(s.script).msg
       /\ Follows(p, Tail(todo[p]), Tail(s.script))
  BY <1>5, <1>9, MirrorsHead
<1>11. Mirrors(p, After(s))'
  BY <1>5, <1>9, <1>10, PassesOf DEF WriteTo
<1>12. /\ at[p] \in 0 .. n /\ at[q] \in 0 .. n
       /\ Channel(p, n, path, at[p], at[q], Transit(p))
       /\ Channel(q, n, path, at[q], at[p], Transit(q))
       /\ Transit(p) \in Seq(Messages)
  BY <1>3, <1>8, TransitType DEF Placed
<1>13. IsFrom(s, p) /\ ~IsFrom(s, q)
  BY <1>3, <1>10 DEF IsFrom
<1>14. Stamp(s) \in Messages
  BY <1>9, <1>10, StampType
<1>15. Channel(p, n, path, at[p] + 1, at[q], Append(Transit(p), Stamp(s)))
  BY <1>8, <1>12, <1>13, <1>14, WriterSends DEF s
<1>16. Channel(q, n, path, at[q], at[p] + 1, Transit(q))
  BY <1>3, <1>8, <1>12, <1>13, ReaderPasses DEF s
<1>17. Transit(p)' = Append(Transit(p), Stamp(s))
  <2>1. /\ net[p]' = net[p]
        /\ out[p]' = Append(out[p], [msg |-> Head(todo[p]).msg, used |-> used[p],
                                     corrected |-> corrected[p]])
    BY <1>3 DEF WriteTo, Typed
  <2>2. Stamp(s) = [msg |-> Head(todo[p]).msg, used |-> used[p], corrected |-> corrected[p]]
    BY <1>9, <1>10 DEF Stamp, Mirrors
  <2> DEFINE a == net[p]
             b == out[p]
             x == Stamp(s)
  <2>3. a \in Seq(Messages) /\ b \in Seq(Messages) /\ x \in Messages
    BY <1>3, <1>14, TypedParts
  <2> HIDE DEF a, b, x
  <2>4. a \o Append(b, x) = Append(a \o b, x)
    BY <2>3, AppendToConcat
  <2> USE DEF a, b, x
  <2> QED BY <2>1, <2>2, <2>4 DEF Transit
<1>18. Transit(q)' = Transit(q)
  BY <1>3 DEF WriteTo, Typed, Transit
<1>19. UNCHANGED <<todo[q], pool[q], used[q], corrected[q]>>
  BY <1>3 DEF WriteTo, Advance, Correct, Typed
<1>20. /\ Channel(p, n, path, at[p] + 1, at[q], Transit(p)')
       /\ Channel(q, n, path, at[q], at[p] + 1, Transit(q)')
  BY <1>15, <1>16, <1>17, <1>18
<1> QED BY <1>8, <1>11, <1>19, <1>20, Moves DEF s

(* What arrives at a reader is stamped by the state the reader is in.      *)
LEMMA Arrives ==
  ASSUME ExchangeInv, NEW p \in Parties, Reading(p)
  PROVE  \E n \in Nat : \E path : \E at :
           /\ Run(n, path) /\ Placed(n, path, at) /\ at[p] # n
           /\ path[at[p]] \in States /\ IsFrom(path[at[p]], Peer(p))
           /\ Expected(p) = Head(path[at[p]].script).msg
           /\ Arriving(p) = Stamp(path[at[p]])
           /\ Follows(p, Tail(todo[p]), Tail(path[at[p]].script))
           /\ Channel(Peer(p), n, path, at[Peer(p)], at[p] + 1, Tail(Transit(Peer(p))))
<1>0. PICK k \in Nat : \E start : Run(k, start) /\ \E at : Placed(k, start, at)
  BY DEF ExchangeInv, Mirrored
<1>1. PICK start : Run(k, start) /\ \E at : Placed(k, start, at)
  BY <1>0
<1>2. PICK at : Placed(k, start, at)
  BY <1>1
<1>3. Typed /\ Peer(p) \in Parties /\ Peer(Peer(p)) = p /\ p # Peer(p)
  BY PeerFacts DEF ExchangeInv
<1>4. start[at[p]] \in States /\ Mirrors(p, start[at[p]])
  BY <1>1, <1>2 DEF Run, Placed
<1>5. /\ todo[p] # <<>> /\ At(p, "read") /\ Head(todo[p]).do # "flush"
  BY DEF Reading, At
<1>6. start[at[p]].script # <<>>
  BY <1>4, <1>5, MirrorsHead
<1>7. PICK n \in Nat : \E path : /\ Run(n, path) /\ Placed(n, path, at) /\ at[p] # n
                                 /\ path[at[p]] = start[at[p]]
  BY <1>1, <1>2, <1>6, Longer
<1>8. PICK path : /\ Run(n, path) /\ Placed(n, path, at) /\ at[p] # n
                  /\ path[at[p]] = start[at[p]]
  BY <1>7
<1> DEFINE s == path[at[p]]
           q == Peer(p)
<1>9. s \in States /\ Mirrors(p, s)
  BY <1>4, <1>8
<1> HIDE DEF s
<1>10. /\ IsMessage(s) /\ Head(s.script).from = q /\ Head(todo[p]).msg = Head(s.script).msg
       /\ Follows(p, Tail(todo[p]), Tail(s.script))
  BY <1>5, <1>9, MirrorsHead
<1>11. /\ at[p] \in 0 .. n /\ at[q] \in 0 .. n
       /\ Channel(q, n, path, at[q], at[p], Transit(q))
       /\ Transit(q) \in Seq(Messages)
  BY <1>3, <1>8, TransitType DEF Placed
<1>12. /\ Transit(q) # <<>> /\ Head(Transit(q)) = Arriving(p)
  <2>1. net[q] # <<>> /\ net[q] \in Seq(Messages) /\ out[q] \in Seq(Messages)
    BY <1>3, TypedParts DEF Reading
  <2>2. Head(net[q] \o out[q]) = Head(net[q]) /\ net[q] \o out[q] # <<>>
    BY <2>1, TailOfConcat
  <2> QED BY <2>2 DEF Transit, Arriving
<1>13. IsFrom(s, q)
  BY <1>10 DEF IsFrom
<1>14. /\ Head(Transit(q)) = Stamp(s)
       /\ Channel(q, n, path, at[q], at[p] + 1, Tail(Transit(q)))
  BY <1>3, <1>8, <1>11, <1>12, <1>13, ReaderReceives DEF s
<1> QED BY <1>8, <1>9, <1>10, <1>12, <1>13, <1>14 DEF s, Expected

(* ReadFrom.                                                               *)
LEMMA ReadKeepsMirrored ==
  ASSUME ExchangeInv, NEW p \in Parties, ReadFrom(p)
  PROVE  Mirrored'
<1>1. Reading(p) /\ todo[p] # <<>>
  BY DEF ReadFrom, Reading, At
<1>2. PICK n \in Nat : \E path : \E at :
           /\ Run(n, path) /\ Placed(n, path, at) /\ at[p] # n
           /\ path[at[p]] \in States /\ IsFrom(path[at[p]], Peer(p))
           /\ Expected(p) = Head(path[at[p]].script).msg
           /\ Arriving(p) = Stamp(path[at[p]])
           /\ Follows(p, Tail(todo[p]), Tail(path[at[p]].script))
           /\ Channel(Peer(p), n, path, at[Peer(p)], at[p] + 1, Tail(Transit(Peer(p))))
  BY <1>1, Arrives
<1>3. PICK path, at :
           /\ Run(n, path) /\ Placed(n, path, at) /\ at[p] # n
           /\ path[at[p]] \in States /\ IsFrom(path[at[p]], Peer(p))
           /\ Expected(p) = Head(path[at[p]].script).msg
           /\ Follows(p, Tail(todo[p]), Tail(path[at[p]].script))
           /\ Channel(Peer(p), n, path, at[Peer(p)], at[p] + 1, Tail(Transit(Peer(p))))
  BY <1>2
<1> DEFINE s == path[at[p]]
           q == Peer(p)
<1>4. Typed /\ q \in Parties /\ Peer(q) = p /\ p # q
  BY PeerFacts DEF ExchangeInv
<1>5. Mirrors(p, s) /\ s \in States
  BY <1>3 DEF Placed
<1> HIDE DEF s
<1>6. IsMessage(s) /\ ~IsFrom(s, p)
  BY <1>3, <1>4 DEF IsFrom, s
<1>7. /\ Head(todo[p]).msg = Head(s.script).msg
      /\ Follows(p, Tail(todo[p]), Tail(s.script))
  BY <1>3 DEF Expected, s
<1>8. Mirrors(p, After(s))'
  BY <1>1, <1>5, <1>6, <1>7, PassesOf DEF ReadFrom
<1>9. /\ at[p] \in 0 .. n /\ at[q] \in 0 .. n
      /\ Channel(p, n, path, at[p], at[q], Transit(p))
  BY <1>3, <1>4 DEF Placed
<1>10. Channel(p, n, path, at[p] + 1, at[q], Transit(p))
  BY <1>3, <1>6, <1>9, WriterPasses DEF s
<1>11. Transit(q)' = Tail(Transit(q))
  <2>1. /\ net[q]' = Tail(net[q]) /\ out[q]' = out[q] /\ net[q] # <<>>
        /\ net[q] \in Seq(Messages) /\ out[q] \in Seq(Messages)
    BY <1>4, TypedParts DEF ReadFrom, Typed
  <2>2. Tail(net[q] \o out[q]) = Tail(net[q]) \o out[q]
    BY <2>1, TailOfConcat
  <2> QED BY <2>1, <2>2 DEF Transit
<1>12. Transit(p)' = Transit(p)
  BY <1>4 DEF ReadFrom, Typed, Transit
<1>13. UNCHANGED <<todo[q], pool[q], used[q], corrected[q]>>
  BY <1>4 DEF ReadFrom, Advance, Correct, Typed
<1>14. /\ Channel(p, n, path, at[p] + 1, at[q], Transit(p)')
       /\ Channel(q, n, path, at[q], at[p] + 1, Transit(q)')
  BY <1>3, <1>10, <1>11, <1>12
<1> QED BY <1>3, <1>8, <1>13, <1>14, Moves DEF s

(* Push and Flushed move no event.                                         *)
LEMMA FlushKeepsMirrored ==
  ASSUME ExchangeInv, NEW p \in Parties, Push(p) \/ Flushed(p)
  PROVE  Mirrored'
<1>0. PICK n \in Nat : \E path : Run(n, path) /\ \E at : Placed(n, path, at)
  BY DEF ExchangeInv, Mirrored
<1>1. PICK path : Run(n, path) /\ \E at : Placed(n, path, at)
  BY <1>0
<1>2. PICK at : Placed(n, path, at)
  BY <1>1
<1>3. \A r \in Parties : Transit(r)' = Transit(r)
  <2> SUFFICES ASSUME NEW r \in Parties PROVE Transit(r)' = Transit(r)
    OBVIOUS
  <2>1. CASE Push(p) /\ r = p
    <3>1. /\ net[p]' = Append(net[p], Head(out[p])) /\ out[p]' = Tail(out[p]) /\ out[p] # <<>>
          /\ net[p] \in Seq(Messages) /\ out[p] \in Seq(Messages)
      BY <2>1, TypedParts DEF Push, Typed, ExchangeInv
    <3>2. Append(net[p], Head(out[p])) \o Tail(out[p]) = net[p] \o out[p]
      BY <3>1, HeadHandedOver
    <3> QED BY <2>1, <3>1, <3>2 DEF Transit
  <2>2. CASE Push(p) /\ r # p
    BY <2>2 DEF Push, Typed, ExchangeInv, Transit
  <2>3. CASE Flushed(p)
    BY <2>3 DEF Flushed, Transit
  <2> QED BY <2>1, <2>2, <2>3
<1>4. \A r \in Parties : Mirrors(r, path[at[r]])'
  <2> SUFFICES ASSUME NEW r \in Parties PROVE Mirrors(r, path[at[r]])'
    OBVIOUS
  <2>1. Mirrors(r, path[at[r]])
    BY <1>2 DEF Placed
  <2>2. CASE Push(p) \/ r # p
    <3>1. UNCHANGED <<todo[r], pool[r], used[r], corrected[r]>>
      BY <2>2 DEF Push, Flushed, Advance, Typed, ExchangeInv
    <3> QED BY <2>1, <3>1 DEF Mirrors
  <2>3. CASE Flushed(p) /\ r = p
    <3>1. /\ todo[p] # <<>> /\ Head(todo[p]).do = "flush" /\ todo[p]' = Tail(todo[p])
          /\ pool[p]' = pool[p] /\ used[p]' = used[p] /\ corrected[p]' = corrected[p]
      BY <2>3 DEF Flushed, Advance, At, Typed, ExchangeInv
    <3>2. Follows(p, Tail(todo[p]), path[at[p]].script)
      BY <2>1, <2>3, <3>1, FollowsHead DEF Mirrors
    <3> QED BY <2>1, <2>3, <3>1, <3>2 DEF Mirrors
  <2> QED BY <2>2, <2>3
<1>5. Placed(n, path, at)'
  BY <1>2, <1>3, <1>4 DEF Placed, Channel
<1> QED BY <1>1, <1>5 DEF Mirrored, Run

(* Every step keeps the types.                                             *)
LEMMA StepKeepsTyped ==
  ASSUME ExchangeInv, NEW p \in Parties, Step(p)
  PROVE  Typed'
<1>1. Typed
  BY DEF ExchangeInv
<1>2. CASE Draw(p)
  <2> DEFINE c == Head(todo[p]).com
  <2>1. todo[p] # <<>> /\ c \in Coms /\ Tail(todo[p]) \in Seq(Ops) /\ pool[p][c] - 1 \in Nat
    BY <1>1, <1>2, HeadOp, TypedParts DEF Draw, At
  <2> HIDE DEF c
  <2>2. /\ pool' = [pool EXCEPT ![p] = [pool[p] EXCEPT ![c] = pool[p][c] - 1]]
        /\ used' = [used EXCEPT ![p] = [used[p] EXCEPT ![c] = used[p][c] + 1]]
        /\ todo' = [todo EXCEPT ![p] = Tail(todo[p])]
    BY <1>1, <1>2 DEF Draw, Advance, Typed, c
  <2>3. pool' \in [Parties -> [Coms -> Nat]] /\ used' \in [Parties -> [Coms -> Nat]]
    BY <1>1, <2>1, <2>2 DEF Typed
  <2>4. todo' \in [Parties -> Seq(Ops)]
    BY <1>1, <2>1, <2>2 DEF Typed
  <2> QED BY <1>1, <1>2, <2>3, <2>4 DEF Draw, Typed
<1>3. CASE Extend(p)
  <2> DEFINE c == Head(todo[p]).com
             more == Extension(p, c) \o <<[do |-> "refill", com |-> c]>> \o todo[p]
  <2>1. c \in Coms
    BY <1>1, <1>3, HeadOp DEF Extend, At
  <2>2. Extension(p, c) \in Seq(Ops)
    BY <2>1, ExtensionIsPaired DEF Follows
  <2>3. [do |-> "refill", com |-> c] \in Ops
    BY <2>1 DEF Ops
  <2> HIDE DEF c
  <2>4. more \in Seq(Ops)
    BY <1>1, <2>2, <2>3, TypedParts
  <2> HIDE DEF more
  <2>5. todo' = [todo EXCEPT ![p] = more]
    BY <1>3 DEF Extend, more, c
  <2> QED BY <1>1, <1>3, <2>4, <2>5 DEF Extend, Typed
<1>4. CASE Refill(p)
  <2> DEFINE c == Head(todo[p]).com
  <2>1. todo[p] # <<>> /\ c \in Coms /\ Tail(todo[p]) \in Seq(Ops) /\ pool[p][c] + Fetch \in Nat
    BY <1>1, <1>4, HeadOp, TypedParts, ExchangeAssumption DEF Refill, At
  <2> HIDE DEF c
  <2>2. /\ pool' = [pool EXCEPT ![p] = [pool[p] EXCEPT ![c] = pool[p][c] + Fetch]]
        /\ todo' = [todo EXCEPT ![p] = Tail(todo[p])]
    BY <1>1, <1>4 DEF Refill, Advance, Typed, c
  <2>3. pool' \in [Parties -> [Coms -> Nat]] /\ todo' \in [Parties -> Seq(Ops)]
    BY <1>1, <2>1, <2>2 DEF Typed
  <2> QED BY <1>1, <1>4, <2>3 DEF Refill, Typed
<1>5. \A msg \in Msgs : Correct(p, msg) => corrected' \in [Parties -> [Coms -> Nat]]
  <2> SUFFICES ASSUME NEW msg \in Msgs, Correct(p, msg)
               PROVE  corrected' \in [Parties -> [Coms -> Nat]]
    OBVIOUS
  <2> DEFINE c == msg[1]
  <2>1. c \in Coms
    BY DEF Msgs
  <2>2. corrected' = corrected \/ corrected' = [corrected EXCEPT ![p] = [corrected[p] EXCEPT ![c] = corrected[p][c] + 1]]
    BY <1>1 DEF Correct, Typed
  <2> HIDE DEF c
  <2>3. corrected[p] \in [Coms -> Nat] /\ corrected[p][c] + 1 \in Nat
    BY <1>1, <2>1, TypedParts
  <2>4. [corrected[p] EXCEPT ![c] = corrected[p][c] + 1] \in [Coms -> Nat]
    BY <2>1, <2>3
  <2> QED BY <1>1, <2>2, <2>4 DEF Typed
<1>6. CASE WriteTo(p)
  <2> DEFINE msg == Head(todo[p]).msg
             stamp == [msg |-> msg, used |-> used[p], corrected |-> corrected[p]]
  <2>1. todo[p] # <<>> /\ msg \in Msgs /\ Tail(todo[p]) \in Seq(Ops)
    BY <1>1, <1>6, HeadOp DEF WriteTo, At
  <2>2. stamp \in Messages
    BY <1>1, <2>1, TypedParts DEF Messages
  <2> HIDE DEF msg
  <2>3. Append(out[p], stamp) \in Seq(Messages)
    BY <1>1, <2>2, TypedParts
  <2> HIDE DEF stamp
  <2>4. out' = [out EXCEPT ![p] = Append(out[p], stamp)] /\ Correct(p, msg)
    BY <1>6 DEF WriteTo, stamp, msg
  <2>5. out' \in [Parties -> Seq(Messages)] /\ corrected' \in [Parties -> [Coms -> Nat]]
    BY <1>1, <1>5, <2>1, <2>3, <2>4 DEF Typed
  <2>6. todo' \in [Parties -> Seq(Ops)]
    BY <1>1, <1>6, <2>1 DEF WriteTo, Advance, Typed
  <2> QED BY <1>1, <1>6, <2>5, <2>6 DEF WriteTo, Typed
<1>7. CASE Push(p)
  <2>1. out[p] # <<>> /\ out[p] \in Seq(Messages) /\ net[p] \in Seq(Messages)
    BY <1>1, <1>7, TypedParts DEF Push
  <2>2. Append(net[p], Head(out[p])) \in Seq(Messages) /\ Tail(out[p]) \in Seq(Messages)
    BY <2>1
  <2> QED BY <1>1, <1>7, <2>2 DEF Push, Typed
<1>8. CASE Flushed(p)
  <2>1. Tail(todo[p]) \in Seq(Ops)
    BY <1>1, <1>8, HeadOp DEF Flushed, At
  <2> QED BY <1>1, <1>8, <2>1 DEF Flushed, Advance, Typed
<1>9. CASE ReadFrom(p)
  <2>1. todo[p] # <<>> /\ Head(todo[p]).msg \in Msgs /\ Tail(todo[p]) \in Seq(Ops)
    BY <1>1, <1>9, HeadOp DEF ReadFrom, At
  <2>2. corrected' \in [Parties -> [Coms -> Nat]]
    BY <1>5, <1>9, <2>1 DEF ReadFrom
  <2>3. Tail(net[Peer(p)]) \in Seq(Messages)
    BY <1>1, <1>9, TypedParts, PeerFacts DEF ReadFrom
  <2> QED BY <1>1, <1>9, <2>1, <2>2, <2>3 DEF ReadFrom, Advance, Typed
<1> QED BY <1>2, <1>3, <1>4, <1>6, <1>7, <1>8, <1>9 DEF Step

(* Every step keeps the invariant.                                         *)
LEMMA NextKeepsMirrored ==
  ASSUME ExchangeInv, [Next]_vars
  PROVE  ExchangeInv'
<1>1. CASE Next
  <2>1. PICK p \in Parties : Step(p)
    BY <1>1 DEF Next
  <2>2. Mirrored'
    BY <2>1, DrawKeepsMirrored, WriteKeepsMirrored, ReadKeepsMirrored, FlushKeepsMirrored DEF Step
  <2> QED BY <2>1, <2>2, StepKeepsTyped DEF ExchangeInv
<1>2. CASE UNCHANGED vars
  <2>1. \A p, s : Mirrors(p, s)' = Mirrors(p, s)
    BY <1>2 DEF Mirrors, vars
  <2>2. \A p : Transit(p)' = Transit(p)
    BY <1>2 DEF Transit, vars
  <2>3. Typed'
    BY <1>2 DEF Typed, vars, ExchangeInv
  <2>4. \A n, path, at : Placed(n, path, at) => Placed(n, path, at)'
    BY <2>1, <2>2 DEF Placed
  <2> QED BY <2>3, <2>4 DEF ExchangeInv, Mirrored
<1> QED BY <1>1, <1>2

(* Both peers are always in states of one and the same run, and what is    *)
(* on its way between them are the messages of the part that one has gone  *)
(* and the other has not.                                                  *)
THEOREM ExchangeInvariant == Spec => []ExchangeInv
<1>1. Init => ExchangeInv
  BY InitMirrored
<1>2. ExchangeInv /\ [Next]_vars => ExchangeInv'
  BY NextKeepsMirrored
<1> QED BY <1>1, <1>2, PTL DEF Spec

(* What arrives is what its reader expects, sent when the writer had       *)
(* drawn and corrected exactly what the reader has now.                    *)
LEMMA ArrivesAsExpected ==
  ASSUME ExchangeInv, NEW p \in Parties, Reading(p)
  PROVE  /\ Arriving(p).msg = Expected(p) /\ Arriving(p).used = used[p]
         /\ Arriving(p).corrected = corrected[p]
<1>1. PICK n \in Nat : \E path : \E at :
           /\ Placed(n, path, at)
           /\ Expected(p) = Head(path[at[p]].script).msg
           /\ Arriving(p) = Stamp(path[at[p]])
  BY Arrives
<1>2. PICK path, at : /\ Placed(n, path, at)
                      /\ Expected(p) = Head(path[at[p]].script).msg
                      /\ Arriving(p) = Stamp(path[at[p]])
  BY <1>1
<1> QED BY <1>2 DEF Placed, Mirrors, Stamp

(* No read of homcom.rs, edabits.rs, mpc_edabits.rs or of an extension     *)
(* takes one message for another, for every number of edaBits, every size  *)
(* of them, every parameter of the cut and choose, all buffers and all     *)
(* pools.                                                                  *)
THEOREM NeverMisreads == Spec => []NoMisread
<1>1. ExchangeInv => NoMisread
  BY ArrivesAsExpected DEF NoMisread
<1> QED BY <1>1, ExchangeInvariant, PTL

(* Corrections and masks meet the correlations they were made from         *)
(* (homcom.rs:384-401, 757-774), however the extensions fall.              *)
THEOREM CorrelationsInStep == Spec => []SameCorrelations
<1>1. ExchangeInv => SameCorrelations
  BY ArrivesAsExpected DEF SameCorrelations
<1> QED BY <1>1, ExchangeInvariant, PTL

(* A challenge never comes before what it is about is fixed                *)
(* (edabits.rs:1546, 1783; homcom.rs:829, 896).                            *)
THEOREM ChallengesAfterCommitments == Spec => []CommittedBeforeChallenge
<1>1. ExchangeInv => CommittedBeforeChallenge
  BY ArrivesAsExpected DEF CommittedBeforeChallenge
<1> QED BY <1>1, ExchangeInvariant, PTL

(* What the programs leave on the channel.                                 *)
ChannelClean == (\A p \in Parties : todo[p] = <<>>) => \A p \in Parties : out[p] = <<>> /\ net[p] = <<>>

(* When both programs have ended every message has been flushed and read:  *)
(* the next command that uses the channel starts on an empty one.          *)
THEOREM NothingUnread == Spec => []ChannelClean
<1>1. ExchangeInv => ChannelClean
  <2> SUFFICES ASSUME ExchangeInv, \A p \in Parties : todo[p] = <<>>, NEW p \in Parties
               PROVE  out[p] = <<>> /\ net[p] = <<>>
    BY DEF ChannelClean
  <2>0. PICK n \in Nat : \E path : Run(n, path) /\ \E at : Placed(n, path, at)
    BY DEF ExchangeInv, Mirrored
  <2>1. PICK path : Run(n, path) /\ \E at : Placed(n, path, at)
    BY <2>0
  <2>2. PICK at : Placed(n, path, at)
    BY <2>1
  <2>3. ASSUME NEW q \in Parties PROVE at[q] = n
    <3>1. /\ at[q] \in 0 .. n /\ path[at[q]] \in States
          /\ Follows(q, <<>>, path[at[q]].script)
      BY <2>1, <2>2 DEF Placed, Run, Mirrors
    <3>2. path[at[q]].script = <<>>
      <4> DEFINE script == path[at[q]].script
      <4>1. script \in Seq(Events) /\ Places(q, <<>>, script) # {}
        BY <3>1 DEF Follows
      <4> HIDE DEF script
      <4>2. PICK f : f \in [DOMAIN script -> DOMAIN <<>>]
        BY <4>1 DEF Places
      <4>3. DOMAIN <<>> = {}
        OBVIOUS
      <4>4. DOMAIN script = {}
        BY <4>2, <4>3
      <4>5. script = <<>>
        BY <4>1, <4>4
      <4> QED BY <4>5 DEF script
    <3> QED BY <2>1, <3>1, <3>2 DEF Run
  <2>4. at[p] = n /\ at[Peer(p)] = n
    BY <2>3, PeerFacts
  <2>5. Len(Transit(p)) = Sent(path[n], p) - Sent(path[n], p) /\ Sent(path[n], p) \in Nat
    BY <2>1, <2>2, <2>4, RunParts DEF Placed, Channel
  <2>6. Transit(p) \in Seq(Messages) /\ net[p] \in Seq(Messages) /\ out[p] \in Seq(Messages)
    BY TransitType, TypedParts DEF ExchangeInv
  <2>7. Transit(p) = <<>>
    BY <2>5, <2>6
  <2> QED BY <2>6, <2>7, ConcatEqualIffEmpty, ConcatSimplifications DEF Transit
<1> QED BY <1>1, ExchangeInvariant, PTL
=============================================================================
