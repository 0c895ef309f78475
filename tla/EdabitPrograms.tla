--------------------------- MODULE EdabitPrograms ---------------------------
(***************************************************************************)
(* What each peer does on its channel while two of them generate global    *)
(* edaBits (diet-mac-and-cheese/src/mpc_edabits.rs, mpc_edabits_common.rs, *)
(* edabits.rs, homcom.rs): the sequence of its draws of correlations, of   *)
(* its writes, reads and flushes.  Peer p is the prover of its own         *)
(* commitments <<p, f>> and the verifier of its peer's; each function of   *)
(* the source is the sequence its body executes, a loop the repetition of  *)
(* its body.  Values are left out: a message is the commitment it is       *)
(* about, what it carries, and how many items.                             *)
(***************************************************************************)
EXTENDS Naturals, Sequences, SequencesExt

CONSTANTS Num,       \* edaBits asked for
          Bits,      \* bits of each
          Buckets,   \* num_bucket of the cut and choose
          Cut,       \* num_cut
          Security,  \* FDABIT_SECURITY_PARAMETER
          Degree     \* [f2, fe]: correlations a multiplication check masks with

ASSUME ProgramsAssumption ==
  /\ Num \in Nat /\ Bits \in Nat /\ Buckets \in Nat /\ Cut \in Nat /\ Security \in Nat
  /\ Degree \in [{"f2", "fe"} -> Nat]

Parties == {"first", "second"}
Peer(p) == IF p = "first" THEN "second" ELSE "first"
Coms == Parties \X {"f2", "fe"}      \* commitments: their prover and their field
F2(d) == <<d, "f2">>
FE(d) == <<d, "fe">>

Draws(c, n) == [i \in 1 .. n |-> [do |-> "draw", com |-> c]]
Write(c, what, n) == <<[do |-> "write", msg |-> <<c, what, n>>]>>
Read(c, what, n) == <<[do |-> "read", msg |-> <<c, what, n>>]>>
Flush == <<[do |-> "flush"]>>
Times(n, ops) == FlattenSeq([i \in 1 .. n |-> ops])

-----------------------------------------------------------------------------
(* The extension of a pool of correlations: the sender's and receiver's    *)
(* sides of svole.rs, spsvole.rs, kos.rs, alsz.rs and cointoss.rs.         *)
(* Mutant of the coin tossing: the last flush of the sender is missing.    *)
CointossUnflushed(c) == Write(c, "toss com", 1) \o Flush \o Read(c, "toss", 1)
                          \o Write(c, "toss opening", 1)
CointossSend(c) == Write(c, "toss com", 1) \o Flush \o Read(c, "toss", 1)
                     \o Write(c, "toss opening", 1) \o Flush
CointossReceive(c) == Read(c, "toss com", 1) \o Write(c, "toss", 1) \o Flush
                        \o Read(c, "toss opening", 1)
KosReceive(c) == Write(c, "ot columns", 1) \o Flush \o CointossReceive(c)
                   \o Write(c, "ot check", 3) \o Flush \o Read(c, "ot keys", 2)
KosSend(c) == Read(c, "ot columns", 1) \o CointossSend(c)
                \o Read(c, "ot check", 3) \o Write(c, "ot keys", 2) \o Flush
EqSend(c) == Read(c, "eq com", 1) \o Write(c, "eq x", 1) \o Flush
               \o Read(c, "eq opening", 2)
EqReceive(c) == Write(c, "eq com", 1) \o Flush \o Read(c, "eq x", 1)
                  \o Write(c, "eq opening", 2) \o Flush
SvoleSend(c) == Write(c, "a prime", 1) \o KosReceive(c) \o Read(c, "d", 1)
                  \o Write(c, "x star", 2) \o Flush \o EqSend(c)
SvoleReceive(c) == Read(c, "a prime", 1) \o KosSend(c) \o Write(c, "d", 1)
                     \o Flush \o Read(c, "x star", 2) \o EqReceive(c)
Extension(p, c) == IF c[1] = p THEN SvoleSend(c) ELSE SvoleReceive(c)

-----------------------------------------------------------------------------
(* homcom.rs: the prover's side, then the verifier's.                      *)
ProverInput(c, n) == Draws(c, n) \o Write(c, "corrections", n)
VerifierInput(c, n) == Draws(c, n) \o Read(c, "corrections", n)
ProverOpen(c, n) == Write(c, "values", n) \o Write(c, "mac", 1) \o Flush
VerifierOpen(c, n) == Read(c, "values", n) \o Read(c, "mac", 1)
ProverCheckZero(c) == Read(c, "zero seed", 1) \o Write(c, "mac", 1) \o Flush
VerifierCheckZero(c) == Write(c, "zero seed", 1) \o Flush \o Read(c, "mac", 1)
ProverCheckMultiply(c) == Read(c, "chi", 1) \o Draws(c, Degree[c[2]])
                            \o Write(c, "u v", 2) \o Flush
VerifierCheckMultiply(c) == Write(c, "chi", 1) \o Flush
                              \o Draws(c, Degree[c[2]]) \o Read(c, "u v", 2)

-----------------------------------------------------------------------------
(* edabits.rs, the conversions that d proves.                              *)
ProverRandomEdabits(d, n) == Draws(F2(d), n * Bits) \o ProverInput(FE(d), n)
VerifierRandomEdabits(d, n) == Draws(F2(d), n * Bits) \o VerifierInput(FE(d), n)
ProverRandomDabits(d, n) == Draws(F2(d), n) \o ProverInput(FE(d), n)
VerifierRandomDabits(d, n) == Draws(F2(d), n) \o VerifierInput(FE(d), n)
ProverRandomTriples(d, n) == Draws(F2(d), 2 * n) \o ProverInput(F2(d), n) \o Flush
OneDrawPerTriple(d, n) == Draws(F2(d), n) \o VerifierInput(F2(d), n)   \* mutant
VerifierRandomTriples(d, n) == Draws(F2(d), 2 * n) \o VerifierInput(F2(d), n)

Gamma(n) == Cardinality({g \in 0 .. n : 2 ^ g <= n + 1})

ProverFdabit(d, n) ==
  Times(Security, ProverInput(FE(d), Gamma(n))) \o ProverInput(F2(d), Security)
    \o ProverInput(FE(d), Security * Gamma(n)) \o Flush \o Read(FE(d), "seed", 1)
    \o ProverOpen(F2(d), Security) \o ProverOpen(FE(d), Security)
    \o ProverCheckMultiply(FE(d))

(* Mutant: the seed before the last corrections are read.                  *)
VerifierFdabitEarly(d, n) ==
  Times(Security, VerifierInput(FE(d), Gamma(n))) \o VerifierInput(F2(d), Security)
    \o Write(FE(d), "seed", 1) \o Flush \o VerifierInput(FE(d), Security * Gamma(n))
    \o VerifierOpen(F2(d), Security) \o VerifierOpen(FE(d), Security)
    \o VerifierCheckMultiply(FE(d))

VerifierFdabit(d, n) ==
  Times(Security, VerifierInput(FE(d), Gamma(n))) \o VerifierInput(F2(d), Security)
    \o VerifierInput(FE(d), Security * Gamma(n)) \o Write(FE(d), "seed", 1) \o Flush
    \o VerifierOpen(F2(d), Security) \o VerifierOpen(FE(d), Security)
    \o VerifierCheckMultiply(FE(d))

ProverBitAddCarry(d, n) == Times(Bits + 1, ProverInput(F2(d), n)) \o Flush
                             \o ProverCheckMultiply(F2(d))
VerifierBitAddCarry(d, n) == Times(Bits + 1, VerifierInput(F2(d), n))
                               \o VerifierCheckMultiply(F2(d))
ProverConvLoop(d, n) == ProverBitAddCarry(d, n) \o ProverOpen(F2(d), n)
                          \o ProverOpen(F2(d), n * Bits) \o ProverCheckZero(FE(d))
VerifierConvLoop(d, n) == VerifierBitAddCarry(d, n) \o VerifierOpen(F2(d), n)
                            \o VerifierOpen(F2(d), n * Bits) \o VerifierCheckZero(FE(d))

(* conv returns at once when there is nothing to convert.                  *)
ProverConv(d, n) ==
  IF n = 0 THEN <<>>
  ELSE ProverRandomEdabits(d, n * Buckets + Cut) \o ProverRandomDabits(d, n * Buckets)
         \o ProverFdabit(d, n * Buckets) \o Read(FE(d), "shuffle seed", 1)
         \o Times(Cut, ProverOpen(F2(d), Bits) \o ProverOpen(FE(d), 1))
         \o Times(Buckets, ProverConvLoop(d, n))
VerifierConv(d, n) ==
  IF n = 0 THEN <<>>
  ELSE VerifierRandomEdabits(d, n * Buckets + Cut)
         \o VerifierRandomDabits(d, n * Buckets) \o VerifierFdabit(d, n * Buckets)
         \o Write(FE(d), "shuffle seed", 1) \o Flush
         \o Times(Cut, VerifierOpen(F2(d), Bits) \o VerifierOpen(FE(d), 1))
         \o Times(Buckets, VerifierConvLoop(d, n))

-----------------------------------------------------------------------------
(* mpc_edabits_common.rs and mpc_edabits.rs: what peer p does.             *)
First(p) == p = "first"

ShareOwned(p, f, n) ==
  ProverInput(<<p, f>>, n) \o Write(<<p, f>>, "shares", n) \o Flush
    \o VerifierInput(<<Peer(p), f>>, n)
(* Mutant: the shares before the corrections.                              *)
SharesFirst(p, f, n) ==
  Read(<<Peer(p), f>>, "shares", n) \o VerifierInput(<<Peer(p), f>>, n)
    \o ProverInput(<<p, f>>, n) \o Flush
ReceiveShared(p, f, n) ==
  VerifierInput(<<Peer(p), f>>, n) \o Read(<<Peer(p), f>>, "shares", n)
    \o ProverInput(<<p, f>>, n) \o Flush

OpenShared(p, f, n) ==
  IF First(p) THEN ProverOpen(<<p, f>>, n) \o VerifierOpen(<<Peer(p), f>>, n)
              ELSE VerifierOpen(<<Peer(p), f>>, n) \o ProverOpen(<<p, f>>, n)

SharePrivate(p, policy) ==
  ProverInput(F2(p), Num * Bits) \o ProverInput(FE(p), Num)
    \o (IF policy = "random"
        THEN Write(F2(p), "shares", Num * Bits) \o Write(FE(p), "shares", Num) \o Flush
               \o VerifierInput(F2(Peer(p)), Num * Bits) \o VerifierInput(FE(Peer(p)), Num)
        ELSE Flush)
ReceivePrivate(p, policy) ==
  VerifierInput(F2(Peer(p)), Num * Bits) \o VerifierInput(FE(Peer(p)), Num)
    \o (IF policy = "random"
        THEN Read(F2(Peer(p)), "shares", Num * Bits) \o Read(FE(Peer(p)), "shares", Num)
               \o ProverInput(F2(p), Num * Bits) \o ProverInput(FE(p), Num)
        ELSE <<>>)

SamplePrivate(p, policy) == ProverRandomEdabits(p, Num) \o SharePrivate(p, policy)
ReceivePeerPrivate(p, policy) == VerifierRandomEdabits(Peer(p), Num)
                                   \o ReceivePrivate(p, policy)
SampleAndShare(p, policy) ==
  IF First(p) THEN SamplePrivate(p, policy) \o ReceivePeerPrivate(p, policy)
              ELSE ReceivePeerPrivate(p, policy) \o SamplePrivate(p, policy)

CutAndChoose(p) ==
  IF First(p) THEN ProverConv(p, Num) \o VerifierConv(Peer(p), Num)
              ELSE VerifierConv(Peer(p), Num) \o ProverConv(p, Num)

GenerateTriples(p, n) ==
  IF First(p)
  THEN ProverRandomTriples(p, n) \o ProverCheckMultiply(F2(p))
         \o Times(3, ShareOwned(p, "f2", n))
  ELSE VerifierRandomTriples(Peer(p), n) \o VerifierCheckMultiply(F2(Peer(p)))
         \o Times(3, ReceiveShared(p, "f2", n))
GenerateDabits(p, n) ==
  IF First(p)
  THEN ProverRandomDabits(p, n) \o ProverFdabit(p, n)
         \o ShareOwned(p, "f2", n) \o ShareOwned(p, "fe", n)
  ELSE VerifierRandomDabits(Peer(p), n) \o VerifierFdabit(Peer(p), n)
         \o ReceiveShared(p, "f2", n) \o ReceiveShared(p, "fe", n)

MultiplyShared(p, n) == OpenShared(p, "f2", n) \o OpenShared(p, "f2", n)
Combine(p) == GenerateTriples(p, Num * Bits) \o GenerateDabits(p, Num)
                \o Times(Bits, MultiplyShared(p, Num)) \o OpenShared(p, "f2", Num)
OpenGlobal(p) == Times(Num, Times(Bits, OpenShared(p, "f2", 1))
                              \o OpenShared(p, "fe", 1))

(* generate_global_edabits, then open_global_edabits.                      *)
Program(p, policy) == SampleAndShare(p, policy) \o CutAndChoose(p)
                        \o Combine(p) \o OpenGlobal(p)
=============================================================================
