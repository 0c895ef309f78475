---------------------------- MODULE PeerExchange ----------------------------
(***************************************************************************)
(* Two peers generating edaBits over one buffered channel.  Each executes  *)
(* its sequence of EdabitPrograms; what it writes stays in its BufWriter   *)
(* until a flush, or until the buffer overflows, and then in the socket    *)
(* until the peer reads it.  A draw takes a correlation from the peer's    *)
(* own pool and runs an extension when the pool is empty                   *)
(* (homcom.rs:352-369, 719-742): nothing but the order of the draws keeps  *)
(* the pools of prover and verifier in step.                               *)
(***************************************************************************)
EXTENDS EdabitPrograms

CONSTANTS Fetch,        \* correlations an extension yields
          Leftover,     \* correlations a pool may hold at the start, at most
          BufferSizes,  \* messages a BufWriter holds, one of these
          SocketSize    \* messages a socket holds

ASSUME ExchangeAssumption == Fetch \in Nat /\ Leftover \in Nat

VARIABLES buffer,     \* the size of the BufWriters
          todo,       \* what is left of each peer's program
          pool,       \* correlations each peer has for each commitment
          used,       \* draws so far
          corrected,  \* messages of corrections written or read so far
          out,        \* a peer's BufWriter
          net         \* its socket, to the other

vars == <<buffer, todo, pool, used, corrected, out, net>>

Init == /\ buffer \in BufferSizes
        /\ \E policy \in {"random", "owner zero"} :
              todo = [p \in Parties |-> Program(p, policy)]
        /\ \E start \in [Coms -> 0 .. Leftover] :
              pool = [p \in Parties |-> start]
        /\ used = [p \in Parties |-> [c \in Coms |-> 0]]
        /\ corrected = used
        /\ out = [p \in Parties |-> <<>>]
        /\ net = [p \in Parties |-> <<>>]

At(p, do) == todo[p] # <<>> /\ Head(todo[p]).do = do
Advance(p) == todo' = [todo EXCEPT ![p] = Tail(@)]

Draw(p) == /\ At(p, "draw")
           /\ LET c == Head(todo[p]).com IN
                /\ pool[p][c] > 0
                /\ pool' = [pool EXCEPT ![p][c] = @ - 1]
                /\ used' = [used EXCEPT ![p][c] = @ + 1]
           /\ Advance(p)
           /\ UNCHANGED <<buffer, corrected, out, net>>

(* The draw is tried again once the extension has filled the pool.         *)
Extend(p) == /\ At(p, "draw")
             /\ LET c == Head(todo[p]).com IN
                  /\ pool[p][c] = 0
                  /\ todo' = [todo EXCEPT ![p] =
                       Extension(p, c) \o <<[do |-> "refill", com |-> c]>> \o @]
             /\ UNCHANGED <<buffer, pool, used, corrected, out, net>>

Refill(p) == /\ At(p, "refill")
             /\ pool' = [pool EXCEPT ![p][Head(todo[p]).com] = @ + Fetch]
             /\ Advance(p)
             /\ UNCHANGED <<buffer, used, corrected, out, net>>

Correct(p, msg) == IF msg[2] = "corrections"
                   THEN corrected' = [corrected EXCEPT ![p][msg[1]] = @ + 1]
                   ELSE UNCHANGED corrected

(* A message remembers how far its writer was with each commitment.        *)
WriteTo(p) == /\ At(p, "write")
              /\ Len(out[p]) < buffer
              /\ LET msg == Head(todo[p]).msg IN
                   /\ out' = [out EXCEPT ![p] = Append(@,
                        [msg |-> msg, used |-> used[p], corrected |-> corrected[p]])]
                   /\ Correct(p, msg)
              /\ Advance(p)
              /\ UNCHANGED <<buffer, pool, used, net>>

(* A flush, or a write that finds no room, hands the oldest to the socket. *)
Push(p) == /\ At(p, "flush") \/ At(p, "write")
           /\ out[p] # <<>>
           /\ Len(net[p]) < SocketSize
           /\ net' = [net EXCEPT ![p] = Append(@, Head(out[p]))]
           /\ out' = [out EXCEPT ![p] = Tail(@)]
           /\ UNCHANGED <<buffer, todo, pool, used, corrected>>

Flushed(p) == /\ At(p, "flush")
              /\ out[p] = <<>>
              /\ Advance(p)
              /\ UNCHANGED <<buffer, pool, used, corrected, out, net>>

(* The bytes are taken for what the reader expects, whatever they are.     *)
ReadFrom(p) == /\ At(p, "read")
               /\ net[Peer(p)] # <<>>
               /\ net' = [net EXCEPT ![Peer(p)] = Tail(@)]
               /\ Correct(p, Head(todo[p]).msg)
               /\ Advance(p)
               /\ UNCHANGED <<buffer, pool, used, out>>

Step(p) == Draw(p) \/ Extend(p) \/ Refill(p) \/ WriteTo(p) \/ Push(p)
             \/ Flushed(p) \/ ReadFrom(p)
Next == \E p \in Parties : Step(p)
Spec == Init /\ [][Next]_vars /\ \A p \in Parties : WF_vars(Step(p))
-----------------------------------------------------------------------------
(* The next message p is going to read, where it has been sent.            *)
Reading(p) == At(p, "read") /\ net[Peer(p)] # <<>>
Expected(p) == Head(todo[p]).msg
Arriving(p) == Head(net[Peer(p)])

Commitments == {"corrections", "u v"}
Challenges == {"chi", "seed", "shuffle seed", "zero seed"}

(* No peer takes one message for another: the order and the number of the  *)
(* reads of mpc_edabits.rs, edabits.rs and homcom.rs match the writes of   *)
(* the other side, in both roles and through every extension.              *)
NoMisread == \A p \in Parties : Reading(p) => Arriving(p).msg = Expected(p)

(* Corrections and masks are applied to the correlations they were made    *)
(* from: the verifier has drawn exactly as often as the prover had         *)
(* (homcom.rs:384-401 and 757-774).                                        *)
SameCorrelations ==
  \A p \in Parties : Reading(p) /\ Expected(p)[2] \in Commitments =>
    LET c == Expected(p)[1] IN Arriving(p).used[c] = used[p][c]

(* A challenge comes when everything it is about is fixed: its verifier    *)
(* had read all corrections the prover has written, in both fields, and    *)
(* the prover has drawn nothing since (edabits.rs:1546, 1783;              *)
(* homcom.rs:829, 896).                                                    *)
CommittedBeforeChallenge ==
  \A p \in Parties : Reading(p) /\ Expected(p)[2] \in Challenges =>
    \A c \in {F2(p), FE(p)} : /\ Arriving(p).corrected[c] = corrected[p][c]
                              /\ Arriving(p).used[c] = used[p][c]

(* With every size of the buffers both peers get through: nobody waits for *)
(* what the other has written and not flushed, nor do both wait for room.  *)
Terminates == <>(\A p \in Parties : todo[p] = <<>>)
=============================================================================
