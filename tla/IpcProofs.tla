----------------------------- MODULE IpcProofs ------------------------------
(***************************************************************************)
(* Proofs about Ipc: the inductive invariant, that peers read whole lines, *)
(* that no copied event is stale and that no peer is told an older status, *)
(* for any peers, limits and sizes.                                        *)
(***************************************************************************)
EXTENDS Ipc, SequenceTheorems, FiniteSetTheorems, TLAPS

(* What the invariant says of the connections cs and the peers ps when the *)
(* status is now.                                                          *)
Wired(cs, ps, now) ==
  /\ cs \in [Fd -> Connection]
  /\ ps \in [Peer -> PeerState]
  /\ \A p \in Peer : Len(ps[p].wire) <= Room
  /\ \A f \in Fd : cs[f].peer = NoPeer <=> cs[f].state = "free"
  /\ \A f, g \in Fd : cs[f].peer = cs[g].peer /\ cs[f].peer # NoPeer => f = g
  /\ \A f \in Fd : FiltersMatch(cs[f])
  /\ \A f \in Fd : cs[f].state # "free" => Serves(cs[f], ps[cs[f].peer], now)
  /\ \A p \in Peer : InOrder(ps[p], now)

(* ... of the backlog bl ...                                               *)
Queued(bl, ps) ==
  /\ bl \in Seq(Peer)
  /\ \A i \in 1..Len(bl) : ps[bl[i]].at = "backlog"
  /\ \A i, j \in 1..Len(bl) : bl[i] = bl[j] => i = j
  /\ \A p \in Peer : Unheard(ps[p])

(* ... of the batch b ...                                                  *)
Current(b, cs) ==
  \A e \in b : e.fd # 0 =>
    /\ cs[e.fd].peer = e.peer
    /\ e.kind = "PendingReadable" => cs[e.fd].state = "reading"
    /\ e.kind = "StreamWritable" => cs[e.fd].state = "writing"
    /\ e.kind = "Stream" => cs[e.fd].state = "subscribed"

(* ... and of the rest.                                                    *)
Around ==
  /\ pc \in {"tick", "prepare", "wait", "dispatch", "accept", "stopped"}
  /\ listening \in BOOLEAN
  /\ batch \subseteq Events
  /\ accepting \in [ready : BOOLEAN, attempts : 0..MaxPending]
  /\ status \in Version
  /\ pushed \in 0..(Fingerprints - 1)
  /\ heartbeat \in BOOLEAN
  /\ pc # "dispatch" => batch = {}

LEMMA Split ==
  IInv <=> /\ Around /\ Wired(conn, peer, status)
           /\ Queued(backlog, peer) /\ Current(batch, conn)
  BY DEF IInv, TypeOK, Owned, EventsAreCurrent, Around, Wired, Queued, Current

-----------------------------------------------------------------------------
(* Units and lines.                                                        *)

LEMMA FreshPeer ==
  /\ Away \in PeerState /\ Away.wire = <<>> /\ Newest(Away) = Away.last
  /\ \A now \in Version : InOrder(Away, now)
<1>1. Away \in PeerState /\ Away.wire = <<>>
  BY IpcConstants DEF Away, PeerState, Unit, Version, Bytes
<1> QED BY <1>1, IpcConstants DEF Newest, InOrder, Away, Version

LEMMA NoConnectionIs ==
  /\ NoConnection \in Connection /\ NoConnection.state = "free"
  /\ NoConnection.peer = NoPeer /\ FiltersMatch(NoConnection)
  BY IpcConstants
  DEF NoConnection, Connection, NoResponse, Response, Version, FiltersMatch

(* Later units are the versions the supervisor may reach in one step.      *)
LEMMA LaterIs == status \in Version => \A v \in Later : v \in Version /\ status <= v
  BY IpcConstants DEF Later, Version

(* The newest unit of what a peer was sent.                                *)
LEMMA NewestIs ==
  ASSUME NEW x \in PeerState
  PROVE  Newest(x) \in Unit
<1>1. x.wire \in Seq(Unit) /\ x.last \in Unit
  BY DEF PeerState
<1>2. x.wire # <<>> => Len(x.wire) \in 1..Len(x.wire)
  BY <1>1
<1> QED BY <1>1, <1>2 DEF Newest

(* The element before the i-th of s when first comes before all of them,   *)
(* and the last of them.                                                   *)
Prev(first, s, i) == IF i = 1 THEN first ELSE s[i - 1]

Final(first, s) == IF s = <<>> THEN first ELSE s[Len(s)]

LEMMA ConcatNeighbours ==
  ASSUME NEW S, NEW w \in Seq(S), NEW u \in Seq(S), NEW first,
         NEW i \in 1..Len(w \o u)
  PROVE  \/ /\ i \in 1..Len(w) /\ (w \o u)[i] = w[i]
            /\ Prev(first, w \o u, i) = Prev(first, w, i)
         \/ /\ Len(u) > 0 /\ (w \o u)[i] = u[1]
            /\ Prev(first, w \o u, i) = Final(first, w)
         \/ \E j \in 2..Len(u) : /\ (w \o u)[i] = u[j]
                                 /\ Prev(first, w \o u, i) = u[j - 1]
<1> DEFINE s == w \o u
<1>1. Len(w) \in Nat /\ Len(u) \in Nat
  OBVIOUS
<1>2. /\ Len(s) = Len(w) + Len(u)
      /\ \A h \in 1..Len(w) + Len(u) :
           s[h] = IF h <= Len(w) THEN w[h] ELSE u[h - Len(w)]
  BY ConcatProperties
<1>3. i \in 1..Len(w) + Len(u)
  BY <1>2
<1> HIDE DEF s
<1>4. CASE i <= Len(w)
  <2>1. i \in 1..Len(w) /\ (i # 1 => /\ i - 1 \in 1..Len(w) + Len(u)
                                   /\ i - 1 <= Len(w))
    BY <1>1, <1>3, <1>4
  <2>2. s[i] = w[i] /\ Prev(first, s, i) = Prev(first, w, i)
    BY <1>2, <1>3, <1>4, <2>1 DEF Prev
  <2> QED BY <2>1, <2>2 DEF s
<1>5. CASE i = Len(w) + 1
  <2>1. Len(u) > 0 /\ ~ (i <= Len(w)) /\ i - Len(w) = 1
    BY <1>1, <1>3, <1>5
  <2>2. s[i] = u[1]
    BY <1>2, <1>3, <2>1
  <2>3. Prev(first, s, i) = Final(first, w)
    <3>1. CASE w = <<>>
      BY <1>5, <3>1, EmptySeq DEF Prev, Final
    <3>2. CASE w # <<>>
      <4>1. /\ i # 1 /\ i - 1 = Len(w) /\ Len(w) <= Len(w)
            /\ Len(w) \in 1..Len(w) + Len(u)
        BY <1>1, <1>5, <3>2, EmptySeq
      <4>2. s[Len(w)] = w[Len(w)]
        BY <1>2, <4>1
      <4> QED BY <3>2, <4>1, <4>2 DEF Prev, Final
    <3> QED BY <3>1, <3>2
  <2> QED BY <2>1, <2>2, <2>3 DEF s
<1>6. CASE i > Len(w) + 1
  <2>1. PICK j : j = i - Len(w)
    OBVIOUS
  <2>2. /\ j \in 2..Len(u) /\ i # 1 /\ ~ (i <= Len(w))
        /\ i - 1 \in 1..Len(w) + Len(u) /\ ~ (i - 1 <= Len(w))
        /\ i - 1 - Len(w) = j - 1
    BY <1>1, <1>3, <1>6, <2>1
  <2>3. s[i] = u[j] /\ s[i - 1] = u[j - 1]
    BY <1>2, <1>3, <2>1, <2>2
  <2>4. Prev(first, s, i) = u[j - 1]
    BY <2>2, <2>3 DEF Prev
  <2> QED BY <2>2, <2>3, <2>4 DEF s
<1> QED BY <1>1, <1>3, <1>4, <1>5, <1>6

LEMMA UnitsAre ==
  ASSUME NEW v \in Version, NEW k \in 1..LineUnits, NEW n \in Nat,
         k + n <= LineUnits + 1
  PROVE  /\ Units(v, k, n) \in Seq(Unit) /\ Len(Units(v, k, n)) = n
         /\ \A i \in 1..n : Units(v, k, n)[i] = [v |-> v, k |-> k + i - 1]
<1>1. LineUnits \in Nat
  BY IpcConstants
<1> DEFINE u == Units(v, k, n)
<1>2. u \in [1..n -> Unit]
  BY <1>1 DEF Units, Unit
<1>3. u \in Seq(Unit)
  BY <1>2, SeqDef
<1>4. Len(u) \in Nat /\ 1..Len(u) = 1..n
  BY <1>2, <1>3, LenProperties
<1>5. Len(u) = n
  BY <1>4
<1> QED BY <1>3, <1>5 DEF Units

(* Within the units the second of two neighbours follows the first.        *)
LEMMA UnitsFollow ==
  ASSUME NEW v \in Version, NEW k \in 1..LineUnits, NEW n \in Nat,
         k + n <= LineUnits + 1, NEW j \in 2..n
  PROVE  /\ Follows(Units(v, k, n)[j - 1], Units(v, k, n)[j])
         /\ Units(v, k, n)[j - 1].v <= Units(v, k, n)[j].v
<1>1. LineUnits \in Nat /\ v \in Int /\ v <= v
  BY IpcConstants DEF Version
<1>2. j \in 1..n /\ j - 1 \in 1..n
  OBVIOUS
<1>3. /\ k + (j - 1) - 1 # LineUnits
      /\ k + j - 1 = (k + (j - 1) - 1) + 1
  BY <1>1
<1>4. /\ Units(v, k, n)[j - 1] = [v |-> v, k |-> k + (j - 1) - 1]
      /\ Units(v, k, n)[j] = [v |-> v, k |-> k + j - 1]
  BY <1>2, UnitsAre
<1> QED BY <1>1, <1>3, <1>4 DEF Follows

(* The wire of y is that of x and n units of status v from the k-th on.    *)
Extended(x, y, v, k, n) ==
  y.wire = x.wire \o Units(v, k, n) /\ y.last = x.last

Advanced(x, y) == y.wire = Tail(x.wire) /\ y.last = Head(x.wire)

(* Appending the next units of a line keeps the order.                     *)
LEMMA AppendUnits ==
  ASSUME NEW x \in PeerState, NEW now \in Version, InOrder(x, now),
         NEW v \in Version, NEW k \in 1..LineUnits,
         Follows(Newest(x), [v |-> v, k |-> k]),
         Newest(x).v <= v, v <= now,
         NEW n \in Nat, k + n <= LineUnits + 1,
         NEW y \in PeerState, Extended(x, y, v, k, n)
  PROVE  /\ InOrder(y, now)
         /\ Len(y.wire) = Len(x.wire) + n
         /\ n > 0 => Newest(y) = [v |-> v, k |-> k + n - 1]
         /\ n = 0 => Newest(y) = Newest(x)
<1> DEFINE w == x.wire
           u == Units(v, k, n)
<1>1. w \in Seq(Unit) /\ x.last \in Unit
  BY DEF PeerState
<1>2. /\ u \in Seq(Unit) /\ Len(u) = n
      /\ \A i \in 1..n : u[i] = [v |-> v, k |-> k + i - 1]
  BY UnitsAre
<1>3. y.wire = w \o u /\ y.last = x.last
  BY DEF Extended
<1>4. /\ \A i : Before(y, i) = Prev(x.last, w \o u, i)
      /\ \A i : Before(x, i) = Prev(x.last, w, i)
      /\ Newest(x) = Final(x.last, w) /\ Newest(y) = Final(x.last, w \o u)
  BY <1>3 DEF Before, Newest, Prev, Final
<1> HIDE DEF u
<1>5. ASSUME NEW i \in 1..Len(w \o u)
      PROVE  /\ Follows(Prev(x.last, w \o u, i), (w \o u)[i])
             /\ Prev(x.last, w \o u, i).v <= (w \o u)[i].v
  <2>1. CASE /\ i \in 1..Len(w) /\ (w \o u)[i] = w[i]
             /\ Prev(x.last, w \o u, i) = Prev(x.last, w, i)
    BY <1>4, <2>1 DEF InOrder
  <2>2. CASE /\ Len(u) > 0 /\ (w \o u)[i] = u[1]
             /\ Prev(x.last, w \o u, i) = Final(x.last, w)
    <3>1. u[1] = [v |-> v, k |-> k]
      BY <1>2, <2>2
    <3> QED BY <1>4, <2>2, <3>1
  <2>3. CASE \E j \in 2..Len(u) : /\ (w \o u)[i] = u[j]
                                 /\ Prev(x.last, w \o u, i) = u[j - 1]
    <3>1. PICK j \in 2..n : /\ (w \o u)[i] = u[j]
                            /\ Prev(x.last, w \o u, i) = u[j - 1]
      BY <1>2, <2>3
    <3>2. Follows(u[j - 1], u[j]) /\ u[j - 1].v <= u[j].v
      BY UnitsFollow DEF u
    <3> QED BY <3>1, <3>2
  <2>4. \/ /\ i \in 1..Len(w) /\ (w \o u)[i] = w[i]
           /\ Prev(x.last, w \o u, i) = Prev(x.last, w, i)
        \/ /\ Len(u) > 0 /\ (w \o u)[i] = u[1]
           /\ Prev(x.last, w \o u, i) = Final(x.last, w)
        \/ \E j \in 2..Len(u) : /\ (w \o u)[i] = u[j]
                                /\ Prev(x.last, w \o u, i) = u[j - 1]
    <3> HIDE DEF w
    <3>1. w \in Seq(Unit) /\ u \in Seq(Unit)
      BY <1>1, <1>2
    <3> QED BY <3>1, ConcatNeighbours
  <2> QED BY <2>1, <2>2, <2>3, <2>4, Zenon
<1>6. Len(w \o u) = Len(w) + n
  BY <1>1, <1>2, ConcatProperties
<1>7. n > 0 => Newest(y) = [v |-> v, k |-> k + n - 1]
  <2> HAVE n > 0
  <2>1. w \o u # <<>> /\ (w \o u)[Len(w \o u)] = u[n]
    <3> HIDE DEF w
    <3>1. Len(w) \in Nat /\ Len(w) + n \in 1..Len(w) + Len(u)
          /\ ~ (Len(w) + n <= Len(w)) /\ Len(w) + n - Len(w) = n
      BY <1>1, <1>2
    <3>2. (w \o u)[Len(w) + n] = u[n]
      BY <1>1, <1>2, <3>1, ConcatProperties
    <3>3. w \o u # <<>>
      BY <1>1, <1>2, <1>6, <3>1, EmptySeq
    <3> QED BY <1>6, <3>2, <3>3
  <2> QED BY <1>2, <1>4, <2>1 DEF Final
<1>8. n = 0 => Newest(y) = Newest(x)
  <2> HAVE n = 0
  <2>1. u = <<>>
    BY <1>2, EmptySeq
  <2>2. w \o u = w
    BY <1>1, <2>1, ConcatEmptySeq
  <2> QED BY <1>4, <2>2
<1>9. Newest(y).v <= now
  BY <1>7, <1>8 DEF InOrder
<1> QED BY <1>3, <1>4, <1>5, <1>6, <1>7, <1>8, <1>9 DEF InOrder

LEMMA MoreThanOne ==
  ASSUME NEW n \in Nat \ {0}, n # 1
  PROVE  n \in Nat /\ n > 1
  OBVIOUS

LEMMA LastOfTail ==
  ASSUME NEW S, NEW s \in Seq(S), s # <<>>, Len(s) # 1
  PROVE  Tail(s) # <<>> /\ Tail(s)[Len(Tail(s))] = s[Len(s)]
<1>1. s # <<>> /\ Len(s) \in Nat /\ Len(s) > 1
  <2>1. Len(s) \in Nat \ {0}
    BY EmptySeq
  <2> QED BY <2>1, MoreThanOne, Zenon
<1> DEFINE t == Tail(s)
<1>2. t \in Seq(S) /\ Len(t) = Len(s) - 1 /\ \A i \in 1..Len(t) : t[i] = s[i + 1]
  BY <1>1, HeadTailProperties
<1> HIDE DEF t
<1>3. Len(t) \in 1..Len(t) /\ Len(t) + 1 = Len(s)
  BY <1>1, <1>2
<1>4. t[Len(t)] = s[Len(s)]
  BY <1>2, <1>3
<1>5. t # <<>>
  BY <1>3, EmptySeq
<1> QED BY <1>4, <1>5 DEF t

(* Reading a unit keeps it, too.                                           *)
LEMMA ReceiveUnit ==
  ASSUME NEW x \in PeerState, NEW now \in Version, InOrder(x, now),
         x.wire # <<>>,
         NEW y \in PeerState, Advanced(x, y)
  PROVE  /\ InOrder(y, now) /\ Newest(y) = Newest(x)
         /\ Len(y.wire) <= Len(x.wire) /\ x.last.v <= y.last.v
<1> DEFINE w == x.wire
<1>1. /\ w \in Seq(Unit) /\ Len(w) \in Nat /\ Len(w) >= 1 /\ 1 \in 1..Len(w)
      /\ Head(w) = w[1] /\ Head(w) \in Unit
  BY EmptySeq DEF PeerState
<1>2. /\ Tail(w) \in Seq(Unit) /\ Len(Tail(w)) = Len(w) - 1
      /\ \A i \in 1..Len(Tail(w)) : Tail(w)[i] = w[i + 1]
  BY <1>1, HeadTailProperties
<1>3. y.wire = Tail(w) /\ y.last = w[1]
  BY <1>1 DEF Advanced
<1>4. Newest(y) = Newest(x)
  <2>1. CASE Len(w) = 1
    BY <1>1, <1>2, <1>3, <2>1 DEF Newest
  <2>2. CASE Len(w) # 1
    <3>1. Tail(w) # <<>> /\ Tail(w)[Len(Tail(w))] = w[Len(w)]
      BY <1>1, <2>2, LastOfTail
    <3>2. Newest(y) = Final(w[1], Tail(w)) /\ Newest(x) = Final(x.last, w)
      BY <1>3 DEF Newest, Final
    <3> QED BY <1>1, <3>1, <3>2 DEF Final
  <2> QED BY <2>1, <2>2, Zenon
<1>5. ASSUME NEW i \in 1..Len(y.wire)
      PROVE  Follows(Before(y, i), y.wire[i]) /\ Before(y, i).v <= y.wire[i].v
  <2>1. i + 1 \in 1..Len(w) /\ y.wire[i] = w[i + 1]
    BY <1>1, <1>2, <1>3
  <2>2. Before(y, i) = Before(x, i + 1)
    BY <1>1, <1>2, <1>3, <2>1 DEF Before
  <2> QED BY <2>1, <2>2 DEF InOrder
<1>6. x.last.v <= y.last.v
  BY <1>1, <1>3 DEF InOrder, Before
<1> QED BY <1>1, <1>2, <1>3, <1>4, <1>5, <1>6 DEF InOrder

-----------------------------------------------------------------------------
(* Connections and peers.                                                  *)

(* A later status fits whatever an earlier one did.                        *)
LEMMA Aging ==
  ASSUME NEW cs, NEW ps, NEW now \in Version, NEW later \in Version,
         now <= later, Wired(cs, ps, now)
  PROVE  Wired(cs, ps, later)
<1>1. ASSUME NEW p \in Peer PROVE InOrder(ps[p], later)
  <2>1. ps[p] \in PeerState /\ InOrder(ps[p], now)
    BY DEF Wired
  <2>2. Newest(ps[p]).v \in Version
    BY <2>1, NewestIs DEF Unit
  <2> QED BY <2>1, <2>2, IpcConstants DEF InOrder, Version
<1>2. ASSUME NEW f \in Fd, cs[f].state # "free"
      PROVE  Serves(cs[f], ps[cs[f].peer], later)
  <2>1. Serves(cs[f], ps[cs[f].peer], now) /\ cs[f].rest.v \in Version
    BY <1>2 DEF Wired, Connection, Response
  <2> QED BY <2>1, IpcConstants DEF Serves, Version
<1> QED BY <1>1, <1>2 DEF Wired

(* Closing the descriptors of S.                                           *)
Without(cs, S) == [f \in Fd |-> IF f \in S THEN NoConnection ELSE cs[f]]

Parted(cs, ps, S) ==
  [p \in Peer |-> IF \E f \in S : cs[f].peer = p THEN Away ELSE ps[p]]

LEMMA Closing ==
  ASSUME NEW cs, NEW ps, NEW now \in Version, Wired(cs, ps, now),
         NEW S \in SUBSET Fd
  PROVE  Wired(Without(cs, S), Parted(cs, ps, S), now)
<1> DEFINE ds == Without(cs, S)
           qs == Parted(cs, ps, S)
<1>0. /\ ds = [f \in Fd |-> IF f \in S THEN NoConnection ELSE cs[f]]
      /\ qs = [p \in Peer |-> IF \E f \in S : cs[f].peer = p
                              THEN Away ELSE ps[p]]
  BY DEF Without, Parted
<1> HIDE DEF ds, qs
<1>1. ds \in [Fd -> Connection] /\ qs \in [Peer -> PeerState]
  BY <1>0, NoConnectionIs, FreshPeer DEF Wired
<1>2. \A p \in Peer : Len(qs[p].wire) <= Room /\ InOrder(qs[p], now)
  BY <1>0, FreshPeer, EmptySeq, IpcConstants DEF Wired
<1>3. \A f \in Fd : /\ ds[f].peer = NoPeer <=> ds[f].state = "free"
                    /\ FiltersMatch(ds[f])
  BY <1>0, NoConnectionIs DEF Wired
<1>4. \A f, g \in Fd : ds[f].peer = ds[g].peer /\ ds[f].peer # NoPeer => f = g
  BY <1>0, NoConnectionIs DEF Wired
<1>5. ASSUME NEW f \in Fd, ds[f].state # "free"
      PROVE  Serves(ds[f], qs[ds[f].peer], now)
  <2>1. f \notin S /\ ds[f] = cs[f] /\ cs[f].peer \in Peer
    BY <1>0, <1>5, NoConnectionIs DEF Wired, Connection
  <2>2. ~ \E g \in S : cs[g].peer = cs[f].peer
    BY <2>1, IpcConstants DEF Wired
  <2>3. qs[cs[f].peer] = ps[cs[f].peer]
    BY <1>0, <2>1, <2>2
  <2> QED BY <1>5, <2>1, <2>3 DEF Wired
<1>6. Wired(ds, qs, now)
  BY <1>1, <1>2, <1>3, <1>4, <1>5 DEF Wired
<1> QED BY <1>6 DEF ds, qs

(* A peer changes within what its connection, if it has one, allows.       *)
LEMMA PeerChanges ==
  ASSUME NEW cs, NEW ps, NEW now \in Version, Wired(cs, ps, now),
         NEW p \in Peer, NEW x \in PeerState, InOrder(x, now),
         Len(x.wire) <= Room,
         \A f \in Fd : cs[f].peer = p => Serves(cs[f], x, now)
  PROVE  Wired(cs, [ps EXCEPT ![p] = x], now)
<1> DEFINE qs == [ps EXCEPT ![p] = x]
<1>1. ps \in [Peer -> PeerState]
  BY DEF Wired
<1>2. qs \in [Peer -> PeerState] /\ \A q \in Peer : qs[q] = IF q = p THEN x ELSE ps[q]
  BY <1>1
<1> HIDE DEF qs
<1>3. ASSUME NEW f \in Fd, cs[f].state # "free"
      PROVE  Serves(cs[f], qs[cs[f].peer], now)
  <2>1. cs[f].peer \in Peer
    BY <1>3 DEF Wired, Connection
  <2> QED BY <1>2, <1>3, <2>1 DEF Wired
<1>4. \A q \in Peer : Len(qs[q].wire) <= Room /\ InOrder(qs[q], now)
  BY <1>2 DEF Wired
<1>5. Wired(cs, qs, now)
  BY <1>2, <1>3, <1>4 DEF Wired
<1> QED BY <1>5 DEF qs

(* A connection changes together with its peer.                            *)
LEMMA ConnectionChanges ==
  ASSUME NEW cs, NEW ps, NEW now \in Version, Wired(cs, ps, now),
         NEW f \in Fd, NEW p \in Peer, NEW x \in PeerState, InOrder(x, now),
         Len(x.wire) <= Room,
         NEW c \in Connection, c.peer = p, c.state # "free", FiltersMatch(c),
         Serves(c, x, now),
         \A g \in Fd : cs[g].peer = p => g = f
  PROVE  Wired([cs EXCEPT ![f] = c], [ps EXCEPT ![p] = x], now)
<1> DEFINE ds == [cs EXCEPT ![f] = c]
           qs == [ps EXCEPT ![p] = x]
<1>1. ps \in [Peer -> PeerState] /\ cs \in [Fd -> Connection]
  BY DEF Wired
<1>2. /\ qs \in [Peer -> PeerState] /\ ds \in [Fd -> Connection]
      /\ \A q \in Peer : qs[q] = IF q = p THEN x ELSE ps[q]
      /\ \A g \in Fd : ds[g] = IF g = f THEN c ELSE cs[g]
  BY <1>1
<1> HIDE DEF ds, qs
<1>3. ASSUME NEW g \in Fd, ds[g].state # "free"
      PROVE  Serves(ds[g], qs[ds[g].peer], now)
  <2>1. CASE g = f
    BY <1>2, <2>1
  <2>2. CASE g # f
    <3>1. ds[g] = cs[g] /\ cs[g].peer \in Peer /\ cs[g].peer # p
      BY <1>2, <1>3, <2>2 DEF Wired, Connection
    <3> QED BY <1>2, <1>3, <3>1 DEF Wired
  <2> QED BY <2>1, <2>2
<1>4. \A q \in Peer : Len(qs[q].wire) <= Room /\ InOrder(qs[q], now)
  BY <1>2 DEF Wired
<1>5. \A g \in Fd : /\ ds[g].peer = NoPeer <=> ds[g].state = "free"
                    /\ FiltersMatch(ds[g])
  BY <1>2, IpcConstants DEF Wired
<1>6. \A g, h \in Fd : ds[g].peer = ds[h].peer /\ ds[g].peer # NoPeer => g = h
  BY <1>2 DEF Wired
<1>7. Wired(ds, qs, now)
  BY <1>2, <1>3, <1>4, <1>5, <1>6 DEF Wired
<1> QED BY <1>7 DEF ds, qs

(* The one peer of a connection in use.                                    *)
LEMMA InUse ==
  ASSUME NEW cs, NEW ps, NEW now, Wired(cs, ps, now), NEW f \in Fd,
         cs[f].state # "free"
  PROVE  /\ cs[f] \in Connection /\ cs[f].peer \in Peer
         /\ ps[cs[f].peer] \in PeerState /\ InOrder(ps[cs[f].peer], now)
         /\ Serves(cs[f], ps[cs[f].peer], now)
         /\ Len(ps[cs[f].peer].wire) <= Room
         /\ \A g \in Fd : cs[g].peer = cs[f].peer => g = f
<1>1. cs[f] \in Connection /\ cs[f].peer \in Peer
  BY DEF Wired, Connection
<1> QED BY <1>1, IpcConstants DEF Wired

-----------------------------------------------------------------------------
(* What the handlers do.                                                   *)

(* From ps to qs a peer stays where it is and reads nothing, or is gone.   *)
Keeps(ps, qs) ==
  \A p \in Peer :
    \/ /\ qs[p].at = ps[p].at /\ qs[p].last = ps[p].last
       /\ ps[p].at # "connected" => qs[p] = ps[p]
    \/ qs[p] = Away /\ ps[p].at # "backlog"

(* The handler of an event about f touches f alone; it may subscribe it.   *)
Handled(f) ==
  /\ Wired(conn', peer', status')
  /\ Keeps(peer, peer')
  /\ \A g \in Fd \ {f} : conn'[g] = conn[g]
  /\ conn'[f].state \in {"reading", "writing"} => f \in Pending
  /\ conn'[f].state = "subscribed" => f \in Subscribed \/ MaySubscribe

LEMMA DropHandles ==
  ASSUME Wired(conn, peer, status), status \in Version, status' \in Version,
         status <= status', NEW f \in Fd, conn[f].state # "free", Drop(f)
  PROVE  Handled(f)
<1>1. conn \in [Fd -> Connection] /\ peer \in [Peer -> PeerState]
  BY DEF Wired
<1>2. conn[f].peer \in Peer /\ peer[conn[f].peer].at = "connected"
  BY InUse DEF Serves
<1>3. conn' = Without(conn, {f}) /\ peer' = Parted(conn, peer, {f})
  BY <1>1, <1>2 DEF Drop, Closed, Gone, Without, Parted
<1>4. Wired(conn, peer, status')
  BY Aging
<1>5. Wired(conn', peer', status')
  <2>1. {f} \in SUBSET Fd
    OBVIOUS
  <2>2. Wired(Without(conn, {f}), Parted(conn, peer, {f}), status')
    BY <1>4, <2>1, Closing
  <2> QED BY <1>3, <2>2
<1>6. Keeps(peer, peer')
  BY <1>2, <1>3 DEF Keeps, Parted
<1>7. /\ \A g \in Fd \ {f} : conn'[g] = conn[g]
      /\ conn'[f].state = "free"
  BY <1>3, NoConnectionIs DEF Without
<1> QED BY <1>5, <1>6, <1>7 DEF Handled

LEMMA WrittenIs ==
  ASSUME NEW p, Len(peer[p].wire) \in Nat, Len(peer[p].wire) <= Room,
         NEW m \in Nat, NEW n \in Written(p, m)
  PROVE  n \in Nat /\ n <= m /\ Len(peer[p].wire) + n <= Room
  BY IpcConstants DEF Written

LEMMA ChunkIs ==
  ASSUME NEW r \in Response
  PROVE  /\ r.k \in 1..LineUnits /\ r.v \in Version
         /\ Left(r) \in Nat \ {0} /\ Chunk(r) \in Nat /\ Chunk(r) <= Left(r)
         /\ r.k + Left(r) = LineUnits + 1
  BY IpcConstants DEF Left, Chunk, Response

(* The next n units of a response r reach its peer.                        *)
LEMMA WriteUnits ==
  ASSUME NEW x \in PeerState, NEW now \in Version, InOrder(x, now),
         NEW r \in Response,
         Follows(Newest(x), r), Newest(x).v <= r.v, r.v <= now,
         NEW n \in Nat, n <= Chunk(r),
         NEW y \in PeerState, Extended(x, y, r.v, r.k, n)
  PROVE  /\ InOrder(y, now) /\ Len(y.wire) = Len(x.wire) + n
         /\ n > 0 => Newest(y) = [v |-> r.v, k |-> r.k + n - 1]
         /\ n = 0 => Newest(y) = Newest(x)
<1>1. PICK v, k : v = r.v /\ k = r.k
  OBVIOUS
<1>2. v \in Version /\ k \in 1..LineUnits /\ k + n <= LineUnits + 1
  BY <1>1, ChunkIs, IpcConstants
<1>3. /\ Follows(Newest(x), [v |-> v, k |-> k]) /\ Newest(x).v <= v /\ v <= now
      /\ Extended(x, y, v, k, n)
  BY <1>1 DEF Follows
<1>4. /\ InOrder(y, now) /\ Len(y.wire) = Len(x.wire) + n
      /\ n > 0 => Newest(y) = [v |-> v, k |-> k + n - 1]
      /\ n = 0 => Newest(y) = Newest(x)
  BY <1>2, <1>3, AppendUnits
<1> QED BY <1>1, <1>4

(* What one write leaves of a response fits what the peer was sent.        *)
LEMMA RestFits ==
  ASSUME NEW r \in Response, NEW n \in Nat, n <= Chunk(r), n # Left(r),
         NEW x, NEW y, Follows(Newest(x), r), Newest(x).v <= r.v,
         n > 0 => Newest(y) = [v |-> r.v, k |-> r.k + n - 1],
         n = 0 => Newest(y) = Newest(x),
         NEW rest, rest = [r EXCEPT !.k = @ + n]
  PROVE  /\ rest \in Response /\ rest.v = r.v
         /\ Follows(Newest(y), rest) /\ Newest(y).v <= rest.v
<1>1. /\ r.k \in 1..LineUnits /\ Left(r) = LineUnits + 1 - r.k /\ r.v \in Nat
      /\ Chunk(r) <= Left(r) /\ Chunk(r) \in Nat /\ LineUnits \in Nat
  BY ChunkIs, IpcConstants DEF Left, Version
<1>2. r.k + n \in 1..LineUnits
  BY <1>1
<1>3. rest \in Response /\ rest.v = r.v /\ rest.k = r.k + n
  BY <1>2 DEF Response
<1>4. CASE n > 0
  <2>1. Newest(y).v = r.v /\ Newest(y).k = r.k + n - 1
    BY <1>4
  <2> QED BY <1>1, <1>2, <1>3, <2>1 DEF Follows
<1>5. CASE n = 0
  <2>1. rest.k = r.k /\ Newest(y) = Newest(x)
    BY <1>1, <1>3, <1>5
  <2> QED BY <1>3, <2>1 DEF Follows
<1> QED BY <1>3, <1>4, <1>5

(* Writing n units of r makes y of the peer x and c of the connection b.   *)
Wrote(x, y, r, n) == y = [x EXCEPT !.wire = @ \o Units(r.v, r.k, n)]

Became(b, c, r, n) ==
  \/ n # Left(r) /\ c = WritingOf(b, [r EXCEPT !.k = @ + n])
  \/ n = Left(r) /\ c = SubscribedTo(b)

LEMMA WriteHandles ==
  ASSUME NEW ps, NEW now \in Version, Wired(conn, ps, now),
         NEW f \in Fd, f \in Pending, NEW r \in Response,
         NEW p, p = conn[f].peer,
         Follows(Newest(ps[p]), r), Newest(ps[p]).v <= r.v, r.v <= now,
         NEW n \in Nat, n <= Chunk(r), Len(ps[p].wire) + n <= Room,
         NEW y, Wrote(ps[p], y, r, n), NEW c, Became(conn[f], c, r, n)
  PROVE  Wired([conn EXCEPT ![f] = c], [ps EXCEPT ![p] = y], now)
<1>1. /\ conn[f].state \in {"reading", "writing"} /\ conn[f].state # "free"
      /\ conn[f] \in Connection /\ p \in Peer /\ ps[p] \in PeerState
      /\ InOrder(ps[p], now) /\ ps[p].at = "connected"
      /\ FiltersMatch(conn[f])
      /\ \A g \in Fd : conn[g].peer = p => g = f
  BY InUse DEF Pending, Serves, Wired
<1>2. /\ r.k \in 1..LineUnits /\ r.v \in Version /\ r.k + n <= LineUnits + 1
      /\ LineUnits \in Nat /\ Left(r) \in Nat \ {0}
      /\ r.k + Left(r) = LineUnits + 1
  BY ChunkIs, IpcConstants
<1>3. y \in PeerState /\ y.at = "connected" /\ Extended(ps[p], y, r.v, r.k, n)
  <2>1. ps[p].wire \o Units(r.v, r.k, n) \in Seq(Unit)
    BY <1>1, <1>2, UnitsAre, ConcatProperties DEF PeerState
  <2> QED BY <1>1, <2>1 DEF PeerState, Extended, Wrote
<1>5. /\ InOrder(y, now) /\ Len(y.wire) <= Room
      /\ n > 0 => Newest(y) = [v |-> r.v, k |-> r.k + n - 1]
      /\ n = 0 => Newest(y) = Newest(ps[p])
  <2>1. /\ InOrder(y, now) /\ Len(y.wire) = Len(ps[p].wire) + n
        /\ n > 0 => Newest(y) = [v |-> r.v, k |-> r.k + n - 1]
        /\ n = 0 => Newest(y) = Newest(ps[p])
    <3>1. PICK x : x = ps[p]
      OBVIOUS
    <3>2. /\ x \in PeerState /\ InOrder(x, now) /\ Follows(Newest(x), r)
          /\ Newest(x).v <= r.v /\ Extended(x, y, r.v, r.k, n)
          /\ y \in PeerState
      BY <1>1, <1>3, <3>1
    <3>3. /\ InOrder(y, now) /\ Len(y.wire) = Len(x.wire) + n
          /\ n > 0 => Newest(y) = [v |-> r.v, k |-> r.k + n - 1]
          /\ n = 0 => Newest(y) = Newest(x)
      BY <3>2, WriteUnits
    <3> QED BY <3>1, <3>3
  <2> QED BY <2>1
<1>6. /\ c \in Connection /\ c.peer = p /\ c.state # "free"
      /\ FiltersMatch(c) /\ Serves(c, y, now)
  <2>1. CASE n # Left(r) /\ c = WritingOf(conn[f], [r EXCEPT !.k = @ + n])
    <3>1. PICK rest : rest = [r EXCEPT !.k = @ + n]
      OBVIOUS
    <3>2. /\ rest \in Response /\ rest.v = r.v
          /\ Follows(Newest(y), rest) /\ Newest(y).v <= rest.v
      BY <1>5, <2>1, <3>1, RestFits
    <3>3. c = [conn[f] EXCEPT !.state = "writing", !.read = "none",
                              !.write = TRUE, !.rest = rest]
      BY <2>1, <3>1 DEF WritingOf
    <3>4. /\ c \in Connection /\ c.peer = p /\ c.state = "writing"
          /\ c.rest = rest /\ c.write = TRUE /\ c.read = "none"
      BY <1>1, <3>2, <3>3 DEF Connection
    <3> QED BY <1>3, <3>2, <3>4 DEF FiltersMatch, Serves
  <2>2. CASE n = Left(r) /\ c = SubscribedTo(conn[f])
    <3>1. /\ c \in Connection /\ c.peer = p /\ c.state = "subscribed"
          /\ c.read = "stream" /\ c.write = FALSE
      BY <1>1, <2>2, NoConnectionIs DEF SubscribedTo, Connection, NoConnection
    <3>2. Newest(y).k = LineUnits
      BY <1>2, <1>5, <2>2
    <3> QED BY <1>3, <3>1, <3>2 DEF FiltersMatch, Serves
  <2> QED BY <2>1, <2>2 DEF Became
<1> QED BY <1>1, <1>3, <1>5, <1>6, ConnectionChanges

(* advance_write of r, the request taken out of ps.                        *)
LEMMA AdvanceWriteHandles ==
  ASSUME Wired(conn, peer, status), status \in Version, status' \in Version,
         status <= status', NEW f \in Fd, f \in Pending,
         NEW ps, Wired(conn, ps, status'), Keeps(peer, ps),
         ps[conn[f].peer].wire = peer[conn[f].peer].wire,
         NEW r \in Response, Follows(Newest(ps[conn[f].peer]), r),
         Newest(ps[conn[f].peer]).v <= r.v, r.v <= status',
         AdvanceWrite(f, r, ps)
  PROVE  Handled(f)
<1>1. PICK p : p = conn[f].peer
  OBVIOUS
<1>2. /\ conn[f].state # "free" /\ p \in Peer /\ ps[p] \in PeerState
      /\ ps[p].at = "connected" /\ Len(ps[p].wire) <= Room
      /\ conn \in [Fd -> Connection] /\ ps \in [Peer -> PeerState]
  BY <1>1, InUse DEF Pending, Serves, Wired
<1>3. CASE Drop(f)
  BY <1>2, <1>3, DropHandles
<1>4. ASSUME NEW n \in Written(p, Chunk(r)), NEW y, NEW c,
             Wrote(ps[p], y, r, n), Became(conn[f], c, r, n),
             n = Left(r) => MaySubscribe,
             peer' = [ps EXCEPT ![p] = y], conn' = [conn EXCEPT ![f] = c]
      PROVE  Handled(f)
  <2>1. n \in Nat /\ n <= Chunk(r) /\ Len(ps[p].wire) + n <= Room
    <3>1. Len(peer[p].wire) \in Nat /\ Len(peer[p].wire) <= Room
      BY <1>1, <1>2 DEF PeerState
    <3> QED BY <1>1, <3>1, WrittenIs, ChunkIs
  <2>2. Wired([conn EXCEPT ![f] = c], [ps EXCEPT ![p] = y], status')
    BY <1>1, <1>4, <2>1, WriteHandles, Zenon
  <2>3. Wired(conn', peer', status')
    BY <1>4, <2>2, Zenon
  <2>4. y.at = ps[p].at /\ y.last = ps[p].last
    BY <1>2, <1>4 DEF Wrote, PeerState
  <2>5. \A q \in Peer : peer'[q] = IF q = p THEN y ELSE ps[q]
    BY <1>2, <1>4
  <2>6. Keeps(peer, peer')
    <3>1. peer[p].at = "connected" /\ ps[p].last = peer[p].last
      BY <1>2 DEF Keeps, Away
    <3> QED BY <1>2, <2>4, <2>5, <3>1 DEF Keeps
  <2>7. \A g \in Fd \ {f} : conn'[g] = conn[g]
    BY <1>2, <1>4
  <2>8. conn'[f].state = "subscribed" => f \in Subscribed \/ MaySubscribe
    <3>1. conn'[f] = c
      BY <1>2, <1>4
    <3>2. c.state = "subscribed" => n = Left(r)
      BY <1>2, <1>4 DEF Became, WritingOf, Connection
    <3> QED BY <1>4, <3>1, <3>2
  <2> QED BY <2>3, <2>6, <2>7, <2>8 DEF Handled
<1>5. CASE ~ Drop(f)
  <2>1. PICK n \in Written(p, Chunk(r)) :
          /\ peer' = [ps EXCEPT ![p].wire = @ \o Units(r.v, r.k, n)]
          /\ \/ /\ n # Left(r)
                /\ conn' = [conn EXCEPT ![f] = WritingOf(@, [r EXCEPT !.k = @ + n])]
             \/ /\ n = Left(r) /\ r.then = "Subscribe" /\ MaySubscribe
                /\ conn' = [conn EXCEPT ![f] = SubscribedTo(@)]
    BY <1>1, <1>5 DEF AdvanceWrite
  <2>2. /\ Wrote(ps[p], peer'[p], r, n)
        /\ peer' = [ps EXCEPT ![p] = peer'[p]]
    BY <1>2, <2>1 DEF Wrote
  <2>3. /\ Became(conn[f], conn'[f], r, n)
        /\ n = Left(r) => MaySubscribe
        /\ conn' = [conn EXCEPT ![f] = conn'[f]]
    BY <1>2, <2>1 DEF Became
  <2> QED BY <1>4, <2>2, <2>3
<1> QED BY <1>3, <1>5

(* A peer's inbox and presence concern nothing that was sent to it.        *)
LEMMA SentStays ==
  ASSUME NEW cs, NEW ps, NEW now \in Version, Wired(cs, ps, now),
         NEW p \in Peer, NEW x \in PeerState, x.wire = ps[p].wire,
         x.last = ps[p].last, x.at = ps[p].at
  PROVE  /\ InOrder(x, now) /\ Len(x.wire) <= Room
         /\ \A f \in Fd : cs[f].peer = p => Serves(cs[f], x, now)
         /\ Wired(cs, [ps EXCEPT ![p] = x], now)
<1>1. Newest(x) = Newest(ps[p]) /\ \A i : Before(x, i) = Before(ps[p], i)
  BY DEF Newest, Before
<1>2. InOrder(x, now) /\ Len(x.wire) <= Room
  BY <1>1 DEF InOrder, Wired
<1>3. ASSUME NEW f \in Fd, cs[f].peer = p PROVE Serves(cs[f], x, now)
  <2>1. Serves(cs[f], ps[p], now)
    BY <1>3, IpcConstants DEF Wired
  <2> QED BY <1>1, <2>1 DEF Serves
<1> QED BY <1>2, <1>3, PeerChanges

LEMMA NothingHandled ==
  ASSUME Wired(conn, peer, status), NEW f \in Fd,
         conn' = conn, peer' = peer, status' = status
  PROVE  Handled(f)
  BY DEF Handled, Keeps, Pending, Subscribed

LEMMA PendingWritableHandles ==
  ASSUME Wired(conn, peer, status), status \in Version,
         NEW f \in Fd, PendingWritable(f)
  PROVE  Handled(f) /\ status' \in Version /\ status <= status'
<1>1. status' = status /\ status' \in Version /\ status <= status'
  BY IpcConstants DEF PendingWritable, Version
<1>2. CASE f \in Pending /\ Drop(f)
  BY <1>1, <1>2, DropHandles DEF Pending
<1>3. CASE conn[f].state = "writing" /\ AdvanceWrite(f, conn[f].rest, peer)
  <2>1. f \in Pending /\ conn[f].state # "free"
    BY <1>3 DEF Pending
  <2>2. /\ conn[f].rest \in Response
        /\ Follows(Newest(peer[conn[f].peer]), conn[f].rest)
        /\ Newest(peer[conn[f].peer]).v <= conn[f].rest.v
        /\ conn[f].rest.v <= status'
    BY <1>1, <1>3, <2>1, InUse DEF Serves, Connection
  <2>3. Wired(conn, peer, status') /\ Keeps(peer, peer)
    BY <1>1 DEF Keeps
  <2>4. Handled(f)
    BY <1>1, <1>3, <2>1, <2>2, <2>3, AdvanceWriteHandles
  <2> QED BY <1>1, <2>4
<1>4. CASE UNCHANGED <<conn, peer>>
  BY <1>1, <1>4, NothingHandled
<1> QED BY <1>2, <1>3, <1>4 DEF PendingWritable

LEMMA SubscriberReadableHandles ==
  ASSUME Wired(conn, peer, status), status \in Version,
         NEW f \in Fd, SubscriberReadable(f)
  PROVE  Handled(f) /\ status' \in Version /\ status <= status'
<1>1. status' = status /\ status' \in Version /\ status <= status'
  BY IpcConstants DEF SubscriberReadable, Version
<1>2. CASE conn[f].state = "subscribed" /\ Drop(f)
  BY <1>1, <1>2, DropHandles
<1>3. CASE UNCHANGED <<conn, peer>>
  BY <1>1, <1>3, NothingHandled
<1> QED BY <1>2, <1>3 DEF SubscriberReadable

(* The request is taken out of the peer's inbox.                           *)
LEMMA Taken ==
  ASSUME Wired(conn, peer, status), status \in Version,
         NEW f \in Fd, conn[f].state # "free",
         NEW ps, ps = [peer EXCEPT ![conn[f].peer].inbox = "none"]
  PROVE  /\ Wired(conn, ps, status) /\ Keeps(peer, ps)
         /\ ps[conn[f].peer].wire = peer[conn[f].peer].wire
         /\ ps[conn[f].peer].last = peer[conn[f].peer].last
<1>1. PICK p : p = conn[f].peer
  OBVIOUS
<1>2. /\ p \in Peer /\ peer[p] \in PeerState /\ peer \in [Peer -> PeerState]
      /\ peer[p].at = "connected"
  BY <1>1, InUse DEF Serves, Wired
<1>3. PICK x : x = [peer[p] EXCEPT !.inbox = "none"]
  OBVIOUS
<1>4. /\ x \in PeerState /\ x.wire = peer[p].wire /\ x.last = peer[p].last
      /\ x.at = peer[p].at
  BY <1>2, <1>3 DEF PeerState, Bytes
<1>5. ps = [peer EXCEPT ![p] = x]
  BY <1>1, <1>2, <1>3
<1>6. Wired(conn, ps, status)
  <2>1. Wired(conn, [peer EXCEPT ![p] = x], status)
    BY <1>2, <1>4, SentStays
  <2> QED BY <1>5, <2>1, Zenon
<1>7. \A q \in Peer : ps[q] = IF q = p THEN x ELSE peer[q]
  BY <1>2, <1>5
<1>8. Keeps(peer, ps)
  <2>1. peer[p] # Away
    BY <1>2 DEF Away
  <2> QED BY <1>2, <1>4, <1>7, <2>1 DEF Keeps
<1> QED BY <1>1, <1>2, <1>4, <1>6, <1>7, <1>8

LEMMA PendingReadableHandles ==
  ASSUME Wired(conn, peer, status), status \in Version,
         NEW f \in Fd, PendingReadable(f)
  PROVE  Handled(f) /\ status' \in Version /\ status <= status'
<1> DEFINE p == conn[f].peer
           ps == [peer EXCEPT ![p].inbox = "none"]
<1>1. status' \in Version /\ status <= status'
  <2>1. status' = status \/ status' \in Later
    BY DEF PendingReadable, Answer
  <2> QED BY <2>1, LaterIs, IpcConstants DEF Version
<1>2. CASE f \in Pending /\ Drop(f)
  BY <1>1, <1>2, DropHandles DEF Pending
<1>3. CASE status' = status /\ conn' = conn /\ peer' = peer
  BY <1>1, <1>3, NothingHandled
<1>4. CASE /\ conn[f].state = "reading" /\ status' = status
           /\ conn' = conn /\ peer' = ps
  <2>1. Wired(conn, ps, status) /\ Keeps(peer, ps)
    BY <1>4, Taken
  <2> QED BY <1>1, <1>4, <2>1 DEF Handled, Pending
<1>5. CASE conn[f].state = "reading" /\ Answer(f, peer[p].inbox, ps)
  <2>1. PICK r : /\ AdvanceWrite(f, r, ps)
                 /\ r = [v |-> status', k |-> 1,
                         then |-> IF peer[p].inbox = "subscribe"
                                  THEN "Subscribe" ELSE "Close"]
    BY <1>5 DEF Answer
  <2>2. /\ r \in Response /\ r.v = status' /\ r.k = 1
    BY <1>1, <2>1, IpcConstants DEF Response
  <2>3. PICK qs : qs = ps
    OBVIOUS
  <2>4. /\ Wired(conn, qs, status) /\ Keeps(peer, qs)
        /\ qs[p].wire = peer[p].wire /\ qs[p].last = peer[p].last
    BY <1>5, <2>3, Taken
  <2>5. peer[p].wire = <<>> /\ peer[p].last = Away.last
    BY <1>5, InUse DEF Serves
  <2>6. Newest(qs[p]).v = 0 /\ Newest(qs[p]).k = LineUnits
    BY <2>4, <2>5 DEF Newest, Away
  <2>7. /\ Follows(Newest(qs[p]), r) /\ Newest(qs[p]).v <= r.v
        /\ r.v <= status'
    BY <1>1, <2>2, <2>6, IpcConstants DEF Follows, Version
  <2>8. Wired(conn, qs, status')
    BY <1>1, <2>4, Aging
  <2>9. AdvanceWrite(f, r, qs) /\ f \in Pending
    BY <1>5, <2>1, <2>3 DEF Pending
  <2>10. Handled(f)
    BY <1>1, <2>2, <2>4, <2>7, <2>8, <2>9, AdvanceWriteHandles
  <2> QED BY <1>1, <2>10
<1> QED BY <1>2, <1>3, <1>4, <1>5 DEF PendingReadable, Pending

-----------------------------------------------------------------------------
(* Every action upholds the invariant and lets no peer read backwards.     *)

Forward ==
  \A p \in Peer : peer'[p].at # "away" => peer'[p].last.v >= peer[p].last.v

LEMMA KeepsForward ==
  ASSUME Wired(conn, peer, status), Wired(conn', peer', status'),
         Keeps(peer, peer')
  PROVE  Forward
<1> SUFFICES ASSUME NEW p \in Peer, peer'[p].at # "away"
             PROVE  peer'[p].last.v >= peer[p].last.v
  BY DEF Forward
<1>1. peer'[p].last = peer[p].last
  BY DEF Keeps, Away
<1>2. peer[p].last.v \in Int
  BY DEF Wired, PeerState, Unit, Version
<1> QED BY <1>1, <1>2

LEMMA KeepsQueued ==
  ASSUME NEW bl, NEW ps, NEW qs, Queued(bl, ps), Keeps(ps, qs)
  PROVE  Queued(bl, qs)
<1>1. /\ bl \in Seq(Peer) /\ \A i \in 1..Len(bl) : ps[bl[i]].at = "backlog"
      /\ \A i, j \in 1..Len(bl) : bl[i] = bl[j] => i = j
      /\ \A p \in Peer : Unheard(ps[p])
  BY DEF Queued
<1>2. \A i \in 1..Len(bl) : qs[bl[i]].at = "backlog"
  BY <1>1 DEF Keeps
<1>3. ASSUME NEW p \in Peer PROVE Unheard(qs[p])
  <2>1. CASE qs[p] = Away
    BY <2>1 DEF Unheard, Away
  <2>2. CASE qs[p].at = ps[p].at /\ (ps[p].at # "connected" => qs[p] = ps[p])
    BY <1>1, <2>2 DEF Unheard
  <2> QED BY <2>1, <2>2 DEF Keeps
<1> QED BY <1>1, <1>2, <1>3 DEF Queued

(* Two events of a batch about one descriptor are the same event.          *)
LEMMA OneEventEach ==
  ASSUME batch \subseteq Events, Current(batch, conn),
         NEW d \in batch, NEW e \in batch, d.fd = e.fd, d.fd # 0
  PROVE  d = e
<1>1. /\ d \in [kind : {"PendingReadable", "Stream", "StreamWritable"}, fd : Fd,
                peer : Peer \cup {NoPeer}]
      /\ e \in [kind : {"PendingReadable", "Stream", "StreamWritable"}, fd : Fd,
                peer : Peer \cup {NoPeer}]
  BY DEF Events, ListenerEvent, SupervisorEvent
<1>2. d.peer = e.peer
  BY DEF Current
<1>3. d.kind = e.kind
  BY <1>1 DEF Current
<1> QED BY <1>1, <1>2, <1>3

LEMMA HandleHandles ==
  ASSUME Wired(conn, peer, status), status \in Version,
         NEW e \in Events, Handle(e)
  PROVE  /\ status' \in Version /\ status <= status'
         /\ \/ e.fd \in Fd /\ e.fd # 0 /\ Handled(e.fd)
            \/ conn' = conn /\ peer' = peer
<1>1. e.kind \in {"PendingReadable", "Stream", "StreamWritable"} =>
        e.fd \in Fd /\ e.fd # 0
  BY IpcConstants DEF Events, ListenerEvent, SupervisorEvent, Fd
<1>2. CASE e.kind = "PendingReadable" /\ PendingReadable(e.fd)
  BY <1>1, <1>2, PendingReadableHandles
<1>3. CASE e.kind = "StreamWritable" /\ PendingWritable(e.fd)
  BY <1>1, <1>3, PendingWritableHandles
<1>4. CASE e.kind = "Stream" /\ SubscriberReadable(e.fd)
  BY <1>1, <1>4, SubscriberReadableHandles
<1>5. CASE status' \in Later /\ UNCHANGED <<conn, peer>>
  BY <1>5, LaterIs
<1>6. CASE UNCHANGED <<conn, peer, status>>
  BY <1>6, IpcConstants DEF Version
<1> QED BY <1>2, <1>3, <1>4, <1>5, <1>6 DEF Handle

LEMMA Join ==
  ASSUME Around', Wired(conn', peer', status'), Queued(backlog', peer'),
         Current(batch', conn')
  PROVE  IInv'
  BY DEF IInv, TypeOK, Owned, EventsAreCurrent, Around, Wired, Queued, Current

LEMMA DispatchUpholds ==
  ASSUME IInv, Dispatch
  PROVE  IInv' /\ Forward
<1>1. /\ Around /\ Wired(conn, peer, status) /\ Queued(backlog, peer)
      /\ Current(batch, conn) /\ batch \subseteq Events /\ status \in Version
  BY Split DEF Around
<1>2. PICK e \in batch :
        /\ batch' = batch \ {e} /\ Handle(e)
        /\ accepting' = [accepting EXCEPT !.ready = @ \/ e.kind = "Listener"]
  BY DEF Dispatch
<1>3. /\ status' \in Version /\ status <= status'
      /\ \/ e.fd \in Fd /\ e.fd # 0 /\ Handled(e.fd)
         \/ conn' = conn /\ peer' = peer
  BY <1>1, <1>2, HandleHandles
<1>4. /\ pc = "dispatch" /\ pc' = pc /\ listening' = listening
      /\ backlog' = backlog /\ pushed' = pushed /\ heartbeat' = heartbeat
  BY DEF Dispatch
<1>5. Around'
  BY <1>1, <1>2, <1>3, <1>4 DEF Around
<1>6. Wired(conn', peer', status') /\ Keeps(peer, peer')
  <2>1. CASE Handled(e.fd)
    BY <2>1 DEF Handled
  <2>2. CASE conn' = conn /\ peer' = peer
    BY <1>1, <1>3, <2>2, Aging DEF Keeps
  <2> QED BY <1>3, <2>1, <2>2
<1>7. Queued(backlog', peer')
  BY <1>1, <1>4, <1>6, KeepsQueued
<1>8. Current(batch', conn')
  <2>1. CASE e.fd \in Fd /\ e.fd # 0 /\ Handled(e.fd)
    <3>1. ASSUME NEW d \in batch', d.fd # 0
          PROVE  conn'[d.fd] = conn[d.fd]
      <4>1. d \in batch /\ d # e /\ d.fd # e.fd
        BY <1>1, <1>2, <3>1, OneEventEach
      <4>2. d.fd \in Fd
        BY <1>1, <3>1, <4>1 DEF Events, ListenerEvent, SupervisorEvent
      <4> QED BY <2>1, <4>1, <4>2 DEF Handled
    <3> QED BY <1>1, <1>2, <3>1 DEF Current
  <2>2. CASE conn' = conn
    BY <1>1, <1>2, <2>2 DEF Current
  <2> QED BY <1>3, <2>1, <2>2
<1> QED BY <1>1, <1>5, <1>6, <1>7, <1>8, KeepsForward, Join

(* A whole line of status now reaches a subscriber.                        *)
Pushed(x, y, now) == y = [x EXCEPT !.wire = @ \o Units(now, 1, LineUnits)]

LEMMA PushFits ==
  ASSUME NEW x \in PeerState, NEW now \in Version, InOrder(x, now),
         Newest(x).k = LineUnits, Len(x.wire) + LineUnits <= Room,
         NEW y, Pushed(x, y, now)
  PROVE  /\ y \in PeerState /\ InOrder(y, now) /\ Newest(y).k = LineUnits
         /\ Len(y.wire) <= Room /\ y.at = x.at /\ y.last = x.last
<1>1. /\ 1 \in 1..LineUnits /\ LineUnits \in Nat /\ LineUnits > 0
      /\ 1 + LineUnits <= LineUnits + 1
  BY IpcConstants
<1>2. x.wire \in Seq(Unit) /\ Newest(x) \in Unit
  BY NewestIs DEF PeerState
<1>3. /\ y \in PeerState /\ y.at = x.at /\ y.last = x.last
      /\ Extended(x, y, now, 1, LineUnits)
  <2>1. x.wire \o Units(now, 1, LineUnits) \in Seq(Unit)
    BY <1>1, <1>2, UnitsAre, ConcatProperties
  <2> QED BY <2>1 DEF PeerState, Extended, Pushed
<1>4. Follows(Newest(x), [v |-> now, k |-> 1])
  BY DEF Follows
<1>5. Newest(x).v <= now /\ now <= now
  BY <1>1, IpcConstants DEF InOrder, Version
<1>6. /\ InOrder(y, now) /\ Len(y.wire) = Len(x.wire) + LineUnits
      /\ Newest(y) = [v |-> now, k |-> 1 + LineUnits - 1]
  BY <1>1, <1>3, <1>4, <1>5, AppendUnits
<1>7. Newest(y).k = LineUnits
  BY <1>1, <1>6
<1> QED BY <1>3, <1>6, <1>7

LEMMA BroadcastKeeps ==
  ASSUME NEW now \in Version, Wired(conn, peer, now), Broadcast(now)
  PROVE  /\ Wired(conn', peer', now) /\ Keeps(peer, peer')
         /\ \A f \in Fd : conn'[f] \in {conn[f], NoConnection}
<1>1. PICK n \in [Recipients -> 0..LineUnits] :
        /\ \A f \in Recipients :
             n[f] \in IF peer[conn[f].peer].left THEN {0}
                      ELSE Written(conn[f].peer, LineUnits)
        /\ conn' = [f \in Fd |-> IF f \in Recipients /\ ~ TookAll(n[f])
                                 THEN NoConnection ELSE conn[f]]
        /\ peer' = [p \in Peer |->
             IF \E f \in Recipients : conn[f].peer = p
             THEN LET f == CHOOSE g \in Recipients : conn[g].peer = p
                  IN  IF TookAll(n[f])
                      THEN [peer[p] EXCEPT !.wire = @ \o Units(now, 1, n[f])]
                      ELSE Away
             ELSE peer[p]]
  BY DEF Broadcast
<1>2. ASSUME NEW f \in Recipients
      PROVE  /\ f \in Fd /\ conn[f].state = "subscribed" /\ conn[f].peer \in Peer
             /\ peer[conn[f].peer] \in PeerState
             /\ InOrder(peer[conn[f].peer], now)
             /\ Serves(conn[f], peer[conn[f].peer], now)
             /\ Len(peer[conn[f].peer].wire) <= Room
             /\ \A g \in Fd : conn[g].peer = conn[f].peer => g = f
  BY InUse DEF Recipients, Subscribed
<1>3. ASSUME NEW f \in Recipients
      PROVE  LET p == conn[f].peer
             IN  \/ TookAll(n[f]) /\ Pushed(peer[p], peer'[p], now)
                 \/ ~ TookAll(n[f]) /\ peer'[p] = Away
  <2>1. f = CHOOSE g \in Recipients : conn[g].peer = conn[f].peer
    BY <1>2
  <2>2. \E g \in Recipients : conn[g].peer = conn[f].peer
    OBVIOUS
  <2>3. peer'[conn[f].peer] =
          IF TookAll(n[f])
          THEN [peer[conn[f].peer] EXCEPT !.wire = @ \o Units(now, 1, n[f])]
          ELSE Away
    BY <1>1, <1>2, <2>1, <2>2, Zenon
  <2> QED BY <2>3 DEF Pushed, TookAll
<1>4. ASSUME NEW p \in Peer, ~ \E f \in Recipients : conn[f].peer = p
      PROVE  peer'[p] = peer[p]
  BY <1>1, <1>4, Zenon
<1>5. ASSUME NEW f \in Recipients, TookAll(n[f]), NEW p, p = conn[f].peer
      PROVE  /\ peer'[p] \in PeerState /\ InOrder(peer'[p], now)
             /\ Newest(peer'[p]).k = LineUnits /\ Len(peer'[p].wire) <= Room
             /\ peer'[p].at = peer[p].at /\ peer'[p].last = peer[p].last
  <2>1. /\ Pushed(peer[p], peer'[p], now) /\ Newest(peer[p]).k = LineUnits
        /\ peer[p] \in PeerState /\ InOrder(peer[p], now)
    BY <1>2, <1>3, <1>5 DEF Serves
  <2>2. Len(peer[p].wire) + LineUnits <= Room
    <3>1. Len(peer[p].wire) \in Nat /\ Len(peer[p].wire) <= Room
      BY <1>2, <1>5, <2>1 DEF PeerState
    <3>2. LineUnits \in Written(p, LineUnits) /\ LineUnits \in Nat
      BY <1>1, <1>5, IpcConstants DEF TookAll
    <3> QED BY <3>1, <3>2, WrittenIs
  <2>3. PICK x, y : x = peer[p] /\ y = peer'[p]
    OBVIOUS
  <2> QED BY <2>1, <2>2, <2>3, PushFits
<1>6. \A f \in Fd : conn'[f] = IF f \in Recipients /\ ~ TookAll(n[f])
                             THEN NoConnection ELSE conn[f]
  BY <1>1
<1>7. ASSUME NEW p \in Peer
      PROVE  /\ peer'[p] \in PeerState /\ Len(peer'[p].wire) <= Room
             /\ InOrder(peer'[p], now)
             /\ \/ /\ peer'[p].at = peer[p].at /\ peer'[p].last = peer[p].last
                   /\ peer[p].at # "connected" => peer'[p] = peer[p]
                \/ peer'[p] = Away /\ peer[p].at # "backlog"
  <2>1. CASE \E f \in Recipients : conn[f].peer = p
    <3>1. PICK f \in Recipients : conn[f].peer = p
      BY <2>1
    <3>2. peer[p].at = "connected" /\ peer[p] # Away
      BY <1>2, <3>1 DEF Serves, Away
    <3>3. Len(<<>>) <= Room
      BY EmptySeq, IpcConstants
    <3> QED BY <1>3, <1>5, <3>1, <3>2, <3>3, FreshPeer
  <2>2. CASE ~ \E f \in Recipients : conn[f].peer = p
    BY <1>4, <2>2 DEF Wired
  <2> QED BY <2>1, <2>2
<1>8. ASSUME NEW f \in Fd, conn'[f].state # "free"
      PROVE  Serves(conn'[f], peer'[conn'[f].peer], now)
  <2>1. conn'[f] = conn[f] /\ (f \in Recipients => TookAll(n[f]))
    BY <1>6, <1>8, NoConnectionIs
  <2>2. /\ conn[f].peer \in Peer /\ Serves(conn[f], peer[conn[f].peer], now)
        /\ \A g \in Fd : conn[g].peer = conn[f].peer => g = f
    BY <1>8, <2>1, InUse
  <2>3. CASE f \in Recipients
    <3>1. conn[f].state = "subscribed"
      BY <1>2, <2>3
    <3>2. /\ Newest(peer'[conn[f].peer]).k = LineUnits
          /\ peer'[conn[f].peer].at = "connected"
      BY <1>5, <2>1, <2>2, <2>3 DEF Serves
    <3> QED BY <2>1, <3>1, <3>2 DEF Serves
  <2>4. CASE f \notin Recipients
    <3>1. ~ \E g \in Recipients : conn[g].peer = conn[f].peer
      BY <1>2, <2>2, <2>4
    <3> QED BY <1>4, <2>1, <2>2, <3>1
  <2> QED BY <2>3, <2>4
<1>9. conn' \in [Fd -> Connection] /\ peer' \in [Peer -> PeerState]
  <2>1. /\ conn' = [f \in Fd |-> conn'[f]] /\ peer' = [p \in Peer |-> peer'[p]]
    BY <1>1, Zenon
  <2>2. \A f \in Fd : conn'[f] \in Connection
    BY <1>6, NoConnectionIs DEF Wired
  <2> QED BY <1>7, <2>1, <2>2
<1>10. \A f \in Fd : /\ conn'[f].peer = NoPeer <=> conn'[f].state = "free"
                     /\ FiltersMatch(conn'[f])
  BY <1>6, NoConnectionIs DEF Wired
<1>11. \A f, g \in Fd : conn'[f].peer = conn'[g].peer /\ conn'[f].peer # NoPeer
                       => f = g
  BY <1>6, NoConnectionIs DEF Wired
<1>12. Keeps(peer, peer')
  BY <1>7 DEF Keeps
<1>13. Wired(conn', peer', now)
  BY <1>7, <1>8, <1>9, <1>10, <1>11 DEF Wired
<1> QED BY <1>6, <1>12, <1>13

LEMMA FingerprintIs ==
  ASSUME NEW v \in Version
  PROVE  Fingerprint(v) \in 0..(Fingerprints - 1)
<1>1. v \in Int /\ Fingerprints \in Int /\ Fingerprints > 0
  BY IpcConstants DEF Version
<1>2. 0 <= v % Fingerprints /\ v % Fingerprints < Fingerprints
      /\ v % Fingerprints \in Int
  BY <1>1
<1> QED BY <1>1, <1>2 DEF Fingerprint

(* A step of the loop outside the dispatch.                                *)
LEMMA StepUpholds ==
  ASSUME IInv, Around', Wired(conn', peer', status'), Keeps(peer, peer'),
         backlog' = backlog, batch' = {}
  PROVE  IInv' /\ Forward
<1>1. Wired(conn, peer, status) /\ Queued(backlog, peer)
  BY Split
<1>2. Queued(backlog', peer') /\ Forward
  BY <1>1, KeepsQueued, KeepsForward
<1>3. Current(batch', conn')
  BY DEF Current
<1> QED BY <1>2, <1>3, Join

LEMMA TickUpholds ==
  ASSUME IInv, Tick
  PROVE  IInv' /\ Forward
<1>1. /\ Around /\ Wired(conn, peer, status) /\ batch = {}
      /\ status' \in Version /\ status <= status'
  BY Split, LaterIs DEF Tick, Around
<1>2. Wired(conn, peer, status')
  BY <1>1, Aging DEF Around
<1>3. Wired(conn', peer', status') /\ Keeps(peer, peer')
  <2>1. CASE Broadcast(status')
    BY <1>1, <1>2, <2>1, BroadcastKeeps
  <2>2. CASE UNCHANGED <<conn, peer>>
    BY <1>2, <2>2 DEF Keeps
  <2> QED BY <2>1, <2>2 DEF Tick
<1>4. pushed' \in 0..(Fingerprints - 1)
  BY <1>1, FingerprintIs DEF Tick
<1>5. Around' /\ backlog' = backlog /\ batch' = {}
  BY <1>1, <1>4 DEF Tick, Around
<1> QED BY <1>3, <1>5, StepUpholds

LEMMA RetainedKeeps ==
  ASSUME NEW now \in Version, Wired(conn, peer, now), Retained
  PROVE  Wired(conn', peer', now) /\ Keeps(peer, peer')
<1> DEFINE S == {f \in Pending : conn[f].expired}
<1>1. conn' = Without(conn, S) /\ peer' = Parted(conn, peer, S)
  BY DEF Retained, Without, Parted
<1>2. S \in SUBSET Fd /\ \A f \in S : conn[f].state # "free"
  BY DEF Pending
<1> HIDE DEF S
<1>3. Wired(conn', peer', now)
  <2>1. Wired(Without(conn, S), Parted(conn, peer, S), now)
    BY <1>2, Closing
  <2> QED BY <1>1, <2>1
<1>4. ASSUME NEW p \in Peer
      PROVE  \/ peer'[p] = peer[p]
             \/ peer'[p] = Away /\ peer[p].at = "connected"
  <2>1. CASE \E f \in S : conn[f].peer = p
    <3>1. PICK f \in S : conn[f].peer = p
      BY <2>1
    <3>2. peer[p].at = "connected"
      BY <1>2, <3>1, InUse DEF Serves
    <3> QED BY <1>1, <2>1, <3>2 DEF Parted
  <2>2. CASE ~ \E f \in S : conn[f].peer = p
    BY <1>1, <2>2 DEF Parted
  <2> QED BY <2>1, <2>2
<1> QED BY <1>3, <1>4 DEF Keeps

LEMMA PrepareWaitUpholds ==
  ASSUME IInv, PrepareWait
  PROVE  IInv' /\ Forward
<1>1. Around /\ Wired(conn, peer, status) /\ status \in Version /\ batch = {}
  BY Split DEF PrepareWait, Around
<1>2. Wired(conn', peer', status') /\ Keeps(peer, peer')
  BY <1>1, RetainedKeeps DEF PrepareWait
<1>3. Around' /\ backlog' = backlog /\ batch' = {}
  BY <1>1 DEF PrepareWait, Around, ListenerAdjusted
<1> QED BY <1>2, <1>3, StepUpholds

LEMMA FinishBatchUpholds ==
  ASSUME IInv, FinishBatch
  PROVE  IInv' /\ Forward
<1>1. Around /\ Wired(conn, peer, status) /\ status \in Version /\ batch = {}
  BY Split DEF FinishBatch, Around
<1>2. Wired(conn', peer', status') /\ Keeps(peer, peer')
  BY <1>1, RetainedKeeps DEF FinishBatch
<1>3. Around' /\ backlog' = backlog /\ batch' = {}
  <2>1. accepting' \in [ready : BOOLEAN, attempts : 0..MaxPending]
    BY IpcConstants DEF FinishBatch
  <2>2. listening' \in BOOLEAN /\ pc' \in {"accept", "tick"}
    <3>1. ListenerAdjusted \in BOOLEAN /\ listening \in BOOLEAN
      BY <1>1 DEF ListenerAdjusted, Around
    <3>2. \/ pc' = "accept" /\ listening' = listening
          \/ pc' = "tick" /\ listening' = ListenerAdjusted
      BY DEF FinishBatch
    <3> QED BY <3>1, <3>2
  <2> QED BY <1>1, <2>1, <2>2 DEF FinishBatch, Around
<1> QED BY <1>2, <1>3, StepUpholds

(* Steps that concern neither the connections nor the peers.               *)
LEMMA QuietUpholds ==
  ASSUME IInv, WaitEmpty \/ AcceptsDone \/ Relaunch \/ HeartbeatElapses
  PROVE  IInv' /\ Forward
<1>1. /\ Around /\ Wired(conn, peer, status) /\ Queued(backlog, peer)
      /\ Current(batch, conn)
  BY Split
<1>2. UNCHANGED <<conn, peer, status, backlog, batch>>
  BY DEF WaitEmpty, AcceptsDone, Relaunch, HeartbeatElapses
<1>3. Around'
  <2>1. CASE WaitEmpty \/ HeartbeatElapses
    BY <1>1, <2>1 DEF WaitEmpty, HeartbeatElapses, Around
  <2>2. CASE AcceptsDone
    <3>1. accepting' \in [ready : BOOLEAN, attempts : 0..MaxPending]
      BY <2>2, IpcConstants DEF AcceptsDone
    <3> QED BY <1>1, <2>2, <3>1 DEF AcceptsDone, Around, ListenerAdjusted
  <2>3. CASE Relaunch
    <3>1. pushed' \in 0..(Fingerprints - 1)
      BY <1>1, <2>3, FingerprintIs DEF Relaunch, Around
    <3> QED BY <1>1, <2>3, <3>1 DEF Relaunch, Around
  <2> QED BY <2>1, <2>2, <2>3
<1>4. /\ Wired(conn', peer', status') /\ Queued(backlog', peer')
      /\ Current(batch', conn') /\ Keeps(peer, peer')
  BY <1>1, <1>2 DEF Keeps
<1> QED BY <1>1, <1>3, <1>4, Join, KeepsForward

(* What is ready is current.                                               *)
LEMMA ReadyIs ==
  ASSUME Wired(conn, peer, status), NEW e \in Ready \cup {SupervisorEvent}
  PROVE  /\ e \in Events
         /\ e.fd # 0 =>
              /\ conn[e.fd].peer = e.peer
              /\ e.kind = "PendingReadable" => conn[e.fd].state = "reading"
              /\ e.kind = "StreamWritable" => conn[e.fd].state = "writing"
              /\ e.kind = "Stream" => conn[e.fd].state = "subscribed"
<1>1. ASSUME NEW f \in Fd
      PROVE  /\ conn[f].peer \in Peer \cup {NoPeer} /\ FiltersMatch(conn[f])
  BY DEF Wired, Connection
<1>2. CASE e = ListenerEvent \/ e = SupervisorEvent
  BY <1>2 DEF ListenerEvent, SupervisorEvent, Events
<1>3. CASE \E f \in Fd : /\ conn[f].read = "pending"
                         /\ e = [kind |-> "PendingReadable", fd |-> f,
                                peer |-> conn[f].peer]
  <2>1. PICK f \in Fd : /\ conn[f].read = "pending"
                        /\ e = [kind |-> "PendingReadable", fd |-> f,
                               peer |-> conn[f].peer]
    BY <1>3
  <2>2. conn[f].state = "reading" /\ conn[f].peer \in Peer \cup {NoPeer}
    BY <1>1, <2>1 DEF FiltersMatch
  <2> QED BY <2>1, <2>2 DEF Events
<1>4. CASE \E f \in Fd : /\ conn[f].read = "stream"
                         /\ e = [kind |-> "Stream", fd |-> f,
                                peer |-> conn[f].peer]
  <2>1. PICK f \in Fd : /\ conn[f].read = "stream"
                        /\ e = [kind |-> "Stream", fd |-> f,
                               peer |-> conn[f].peer]
    BY <1>4
  <2>2. conn[f].state = "subscribed" /\ conn[f].peer \in Peer \cup {NoPeer}
    BY <1>1, <2>1 DEF FiltersMatch
  <2> QED BY <2>1, <2>2 DEF Events
<1>5. CASE \E f \in Fd : /\ conn[f].write
                         /\ e = [kind |-> "StreamWritable", fd |-> f,
                                peer |-> conn[f].peer]
  <2>1. PICK f \in Fd : /\ conn[f].write
                        /\ e = [kind |-> "StreamWritable", fd |-> f,
                               peer |-> conn[f].peer]
    BY <1>5
  <2>2. conn[f].state = "writing" /\ conn[f].peer \in Peer \cup {NoPeer}
    BY <1>1, <2>1 DEF FiltersMatch
  <2> QED BY <2>1, <2>2 DEF Events
<1> QED BY <1>2, <1>3, <1>4, <1>5, Zenon DEF Ready

LEMMA WaitReturnsUpholds ==
  ASSUME IInv, WaitReturns
  PROVE  IInv' /\ Forward
<1>1. /\ Around /\ Wired(conn, peer, status) /\ Queued(backlog, peer)
  BY Split
<1>2. UNCHANGED <<conn, listening, backlog, accepting, status, pushed,
                  heartbeat, peer>>
      /\ pc' = "dispatch"
  BY DEF WaitReturns
<1>3. batch' \subseteq Ready \cup {SupervisorEvent}
  BY DEF WaitReturns
<1>4. Around' /\ Current(batch', conn')
  <2>1. batch' \subseteq Events /\ Current(batch', conn)
    BY <1>1, <1>3, ReadyIs DEF Current
  <2> QED BY <1>1, <1>2, <2>1 DEF Around
<1>5. /\ Wired(conn', peer', status') /\ Queued(backlog', peer')
      /\ Keeps(peer, peer')
  BY <1>1, <1>2 DEF Keeps
<1> QED BY <1>1, <1>4, <1>5, Join, KeepsForward

LEMMA DeadlinePassesUpholds ==
  ASSUME IInv, NEW f \in Fd, DeadlinePasses(f)
  PROVE  IInv' /\ Forward
<1>1. /\ Around /\ Wired(conn, peer, status) /\ Queued(backlog, peer)
      /\ Current(batch, conn) /\ conn \in [Fd -> Connection]
  BY Split DEF Wired
<1>2. /\ UNCHANGED <<pc, listening, backlog, batch, accepting, status, pushed,
                     heartbeat, peer>>
      /\ conn' = [conn EXCEPT ![f].expired = TRUE]
  BY DEF DeadlinePasses
<1>3. /\ conn' \in [Fd -> Connection]
      /\ \A g \in Fd : /\ conn'[g].peer = conn[g].peer
                       /\ conn'[g].state = conn[g].state
                       /\ conn'[g].read = conn[g].read
                       /\ conn'[g].write = conn[g].write
                       /\ conn'[g].rest = conn[g].rest
  BY <1>1, <1>2 DEF Connection
<1>4. ASSUME NEW g \in Fd
      PROVE  /\ FiltersMatch(conn'[g])
             /\ conn'[g].state # "free" =>
                  Serves(conn'[g], peer[conn'[g].peer], status)
  <2>1. /\ FiltersMatch(conn[g])
        /\ conn[g].state # "free" => Serves(conn[g], peer[conn[g].peer], status)
    BY <1>1 DEF Wired
  <2> QED BY <1>3, <2>1 DEF FiltersMatch, Serves
<1>5. Wired(conn', peer', status')
  <2>1. peer' = peer /\ status' = status
    BY <1>2
  <2>2. \A g \in Fd : conn'[g].peer = NoPeer <=> conn'[g].state = "free"
    BY <1>1, <1>3 DEF Wired
  <2>3. \A g, h \in Fd : conn'[g].peer = conn'[h].peer /\ conn'[g].peer # NoPeer
                        => g = h
    BY <1>1, <1>3 DEF Wired
  <2> QED BY <1>1, <1>3, <1>4, <2>1, <2>2, <2>3 DEF Wired
<1>6. Current(batch', conn')
  <2>1. \A e \in batch : e.fd # 0 => e.fd \in Fd
    BY <1>1 DEF Around, Events, ListenerEvent, SupervisorEvent
  <2> QED BY <1>1, <1>2, <1>3, <2>1 DEF Current
<1>7. Around' /\ Queued(backlog', peer') /\ Keeps(peer, peer')
  BY <1>1, <1>2 DEF Around, Keeps
<1> QED BY <1>1, <1>5, <1>6, <1>7, Join, KeepsForward

LEMMA TerminateUpholds ==
  ASSUME IInv, Terminate
  PROVE  IInv' /\ Forward
<1>1. Around /\ status' = status /\ status \in Version /\ batch' = {}
  BY Split DEF Terminate, Around
<1>2. /\ conn' = [f \in Fd |-> NoConnection] /\ peer' = [p \in Peer |-> Away]
      /\ backlog' = <<>> /\ pc' = "stopped" /\ listening' = FALSE
      /\ UNCHANGED <<status, pushed, heartbeat>>
      /\ accepting' \in [ready : BOOLEAN, attempts : 0..MaxPending]
  BY IpcConstants DEF Terminate
<1>3. \A p \in Peer : peer'[p] = Away
  BY <1>2
<1>4. \A f \in Fd : conn'[f] = NoConnection
  BY <1>2
<1>5. Len(Away.wire) <= Room
  BY FreshPeer, EmptySeq, IpcConstants
<1>6. /\ conn' \in [Fd -> Connection] /\ peer' \in [Peer -> PeerState]
  BY <1>2, FreshPeer, NoConnectionIs
<1>7. Wired(conn', peer', status')
  <2>1. \A p \in Peer : Len(peer'[p].wire) <= Room /\ InOrder(peer'[p], status')
    BY <1>1, <1>3, <1>5, FreshPeer
  <2>2. \A f \in Fd : /\ conn'[f].peer = NoPeer /\ conn'[f].state = "free"
                      /\ FiltersMatch(conn'[f])
    BY <1>4, NoConnectionIs
  <2> QED BY <1>6, <2>1, <2>2 DEF Wired
<1>8. Queued(backlog', peer')
  <2>1. backlog' \in Seq(Peer) /\ Len(backlog') = 0
    BY <1>2, EmptySeq
  <2>2. \A p \in Peer : Unheard(peer'[p])
    BY <1>3 DEF Unheard, Away
  <2> QED BY <2>1, <2>2 DEF Queued
<1>9. Around' /\ Current(batch', conn')
  BY <1>1, <1>2 DEF Around, Current
<1>10. Forward
  BY <1>3 DEF Forward, Away
<1> QED BY <1>7, <1>8, <1>9, <1>10, Join

-----------------------------------------------------------------------------
(* The steps of the peers, and accepting them.                             *)

(* Whoever is in the backlog has no connection.                            *)
LEMMA Unaccepted ==
  ASSUME NEW cs, NEW ps, NEW now, Wired(cs, ps, now), NEW p \in Peer,
         ps[p].at # "connected"
  PROVE  \A f \in Fd : cs[f].peer # p
  BY InUse, IpcConstants DEF Wired, Serves

LEMMA HeadOfBacklog ==
  ASSUME NEW bl, NEW ps, Queued(bl, ps), bl # <<>>
  PROVE  /\ Head(bl) \in Peer /\ ps[Head(bl)].at = "backlog"
         /\ Unheard(ps[Head(bl)])
         /\ Tail(bl) \in Seq(Peer)
         /\ \A i \in 1..Len(Tail(bl)) : /\ Tail(bl)[i] # Head(bl)
                                        /\ ps[Tail(bl)[i]].at = "backlog"
         /\ \A i, j \in 1..Len(Tail(bl)) : Tail(bl)[i] = Tail(bl)[j] => i = j
<1>1. /\ bl \in Seq(Peer) /\ \A i \in 1..Len(bl) : ps[bl[i]].at = "backlog"
      /\ \A i, j \in 1..Len(bl) : bl[i] = bl[j] => i = j
      /\ \A p \in Peer : Unheard(ps[p])
  BY DEF Queued
<1>2. Len(bl) \in Nat /\ 1 \in 1..Len(bl) /\ bl[1] \in Peer /\ Head(bl) = bl[1]
  BY <1>1, EmptySeq
<1>3. /\ Tail(bl) \in Seq(Peer) /\ Len(Tail(bl)) = Len(bl) - 1
      /\ \A i \in 1..Len(Tail(bl)) : Tail(bl)[i] = bl[i + 1]
  BY <1>1, HeadTailProperties
<1>4. \A i \in 1..Len(Tail(bl)) : i + 1 \in 1..Len(bl) /\ i + 1 # 1
  BY <1>2, <1>3
<1>5. ASSUME NEW i \in 1..Len(Tail(bl))
      PROVE  Tail(bl)[i] # Head(bl) /\ ps[Tail(bl)[i]].at = "backlog"
  BY <1>1, <1>2, <1>3, <1>4
<1>6. ASSUME NEW i \in 1..Len(Tail(bl)), NEW j \in 1..Len(Tail(bl)),
             Tail(bl)[i] = Tail(bl)[j]
      PROVE  i = j
  <2>1. i + 1 = j + 1
    BY <1>1, <1>3, <1>4, <1>6
  <2> QED BY <2>1
<1> QED BY <1>1, <1>2, <1>3, <1>5, <1>6

LEMMA AcceptUpholds ==
  ASSUME IInv, Accept
  PROVE  IInv' /\ Forward
<1>1. /\ Around /\ Wired(conn, peer, status) /\ Queued(backlog, peer)
      /\ status \in Version /\ batch = {} /\ peer \in [Peer -> PeerState]
      /\ conn \in [Fd -> Connection]
  BY Split DEF Accept, Around, Wired
<1>2. PICK p : p = Head(backlog)
  OBVIOUS
<1>3. /\ p \in Peer /\ peer[p].at = "backlog" /\ Unheard(peer[p])
      /\ peer[p] \in PeerState
      /\ Tail(backlog) \in Seq(Peer)
      /\ \A i \in 1..Len(Tail(backlog)) : /\ Tail(backlog)[i] # p
                                          /\ peer[Tail(backlog)[i]].at = "backlog"
      /\ \A i, j \in 1..Len(Tail(backlog)) :
           Tail(backlog)[i] = Tail(backlog)[j] => i = j
  BY <1>1, <1>2, HeadOfBacklog DEF Accept
<1>4. peer[p].wire = <<>> /\ peer[p].last = Away.last
  BY <1>3 DEF Unheard, Away
<1>5. /\ backlog' = Tail(backlog) /\ status' = status /\ batch' = {}
      /\ accepting' \in [ready : BOOLEAN, attempts : 0..MaxPending]
  <2>1. accepting.attempts + 1 \in 0..MaxPending
    BY <1>1, IpcConstants DEF Accept, MayAccept, Around
  <2> QED BY <1>1, <2>1 DEF Accept, Around
<1>6. \A f \in Fd : conn[f].peer # p
  BY <1>1, <1>3, Unaccepted
<1>7. /\ Wired(conn', peer', status)
      /\ \E x : /\ peer' = [peer EXCEPT ![p] = x]
                /\ x.at # "backlog" /\ Unheard(x)
                /\ x.at # "away" => x.last = peer[p].last
  <2>1. CASE conn' = conn /\ peer' = Gone(p)
    <3>1. Away \in PeerState /\ InOrder(Away, status) /\ Len(Away.wire) <= Room
      BY <1>1, FreshPeer, EmptySeq, IpcConstants
    <3>2. Wired(conn, [peer EXCEPT ![p] = Away], status)
      BY <1>1, <1>3, <1>6, <3>1, PeerChanges
    <3>3. Away.at = "away" /\ Unheard(Away)
      BY DEF Away, Unheard
    <3> QED BY <2>1, <3>2, <3>3 DEF Gone
  <2>2. CASE \E f \in Free :
               /\ conn' = [conn EXCEPT ![f] = [NoConnection EXCEPT
                             !.peer = p, !.state = "reading", !.read = "pending"]]
               /\ peer' = [peer EXCEPT ![p].at = "connected"]
    <3>1. PICK f \in Free :
               /\ conn' = [conn EXCEPT ![f] = [NoConnection EXCEPT
                             !.peer = p, !.state = "reading", !.read = "pending"]]
               /\ peer' = [peer EXCEPT ![p].at = "connected"]
      BY <2>2
    <3>2. PICK x, c : /\ x = [peer[p] EXCEPT !.at = "connected"]
                      /\ c = [NoConnection EXCEPT
                            !.peer = p, !.state = "reading", !.read = "pending"]
      OBVIOUS
    <3>3. /\ x \in PeerState /\ x.at = "connected" /\ x.last = peer[p].last
          /\ x.wire = peer[p].wire /\ peer' = [peer EXCEPT ![p] = x]
      BY <1>1, <1>3, <3>1, <3>2 DEF PeerState
    <3>4. InOrder(x, status) /\ Len(x.wire) <= Room
      <4>1. InOrder(peer[p], status) /\ Len(peer[p].wire) <= Room
        BY <1>1, <1>3 DEF Wired
      <4>2. Newest(x) = Newest(peer[p]) /\ \A i : Before(x, i) = Before(peer[p], i)
        BY <3>3 DEF Newest, Before
      <4> QED BY <3>3, <4>1, <4>2 DEF InOrder
    <3>5. /\ c \in Connection /\ c.peer = p /\ c.state = "reading"
          /\ FiltersMatch(c)
      BY <1>3, <3>2, NoConnectionIs
      DEF NoConnection, NoResponse, Connection, FiltersMatch
    <3>6. Serves(c, x, status)
      BY <1>4, <3>3, <3>5 DEF Serves
    <3>7. f \in Fd
      BY <3>1 DEF Free
    <3>8. Wired([conn EXCEPT ![f] = c], [peer EXCEPT ![p] = x], status)
      BY <1>1, <1>3, <1>6, <3>3, <3>4, <3>5, <3>6, <3>7, ConnectionChanges
    <3>9. conn' = [conn EXCEPT ![f] = c]
      BY <3>1, <3>2
    <3>10. Unheard(x)
      BY <3>3 DEF Unheard
    <3> QED BY <3>3, <3>8, <3>9, <3>10
  <2> QED BY <1>2, <2>1, <2>2 DEF Accept
<1>8. PICK x : /\ peer' = [peer EXCEPT ![p] = x]
               /\ x.at # "backlog" /\ Unheard(x)
               /\ x.at # "away" => x.last = peer[p].last
  BY <1>7
<1>9. \A q \in Peer : peer'[q] = IF q = p THEN x ELSE peer[q]
  BY <1>1, <1>8
<1>10. Queued(backlog', peer')
  <2>1. \A q \in Peer : Unheard(peer'[q])
    BY <1>1, <1>8, <1>9 DEF Queued
  <2>2. \A i \in 1..Len(Tail(backlog)) : Tail(backlog)[i] \in Peer
    BY <1>3
  <2> QED BY <1>3, <1>5, <1>9, <2>1, <2>2 DEF Queued
<1>11. Forward
  <2>1. \A q \in Peer : peer[q].last.v \in Int
    BY <1>1 DEF PeerState, Unit, Version
  <2> QED BY <1>3, <1>8, <1>9, <2>1 DEF Forward
<1>12. Around' /\ Current(batch', conn')
  BY <1>1, <1>5 DEF Accept, Around, Current
<1> QED BY <1>5, <1>7, <1>10, <1>11, <1>12, Join

(* What a peer does at its end.                                            *)
LEMMA PeerUpholds ==
  ASSUME IInv, NEW p \in Peer, NEW x \in PeerState, PeerStep(p, x),
         InOrder(x, status), Len(x.wire) <= Room,
         \A f \in Fd : conn[f].peer = p => Serves(conn[f], x, status),
         Unheard(x), x.last.v >= peer[p].last.v,
         \/ backlog' = backlog /\ x.at = peer[p].at
         \/ /\ backlog' = Append(backlog, p)
            /\ peer[p].at = "away" /\ x.at = "backlog"
  PROVE  IInv' /\ Forward
<1>1. /\ Around /\ Wired(conn, peer, status) /\ Queued(backlog, peer)
      /\ Current(batch, conn) /\ status \in Version
      /\ peer \in [Peer -> PeerState]
  BY Split DEF Around, Wired
<1>2. /\ peer' = [peer EXCEPT ![p] = x]
      /\ UNCHANGED <<pc, conn, listening, batch, accepting, status, pushed,
                    heartbeat>>
  BY DEF PeerStep
<1>3. Wired(conn', peer', status')
  <2>1. Wired(conn, [peer EXCEPT ![p] = x], status)
    BY <1>1, PeerChanges
  <2> QED BY <1>2, <2>1
<1>4. \A q \in Peer : peer'[q] = IF q = p THEN x ELSE peer[q]
  BY <1>1, <1>2
<1>5. Queued(backlog', peer')
  <2>1. /\ backlog \in Seq(Peer) /\ Len(backlog) \in Nat
        /\ \A i \in 1..Len(backlog) : backlog[i] \in Peer
        /\ \A i \in 1..Len(backlog) : peer[backlog[i]].at = "backlog"
        /\ \A i, j \in 1..Len(backlog) : backlog[i] = backlog[j] => i = j
        /\ \A q \in Peer : Unheard(peer'[q])
    BY <1>1, <1>4 DEF Queued
  <2>2. CASE backlog' = backlog /\ x.at = peer[p].at
    BY <1>4, <2>1, <2>2 DEF Queued
  <2>3. CASE /\ backlog' = Append(backlog, p)
             /\ peer[p].at = "away" /\ x.at = "backlog"
    <3>1. /\ backlog' \in Seq(Peer) /\ Len(backlog') = Len(backlog) + 1
          /\ \A i \in 1..Len(backlog) : backlog'[i] = backlog[i]
          /\ backlog'[Len(backlog) + 1] = p
      BY <2>1, <2>3, AppendProperties
    <3>2. \A i \in 1..Len(backlog') : i \in 1..Len(backlog) \/ i = Len(backlog) + 1
      BY <2>1, <3>1
    <3>3. \A i \in 1..Len(backlog) : backlog'[i] # p
      BY <2>1, <2>3, <3>1
    <3>4. \A i \in 1..Len(backlog') : peer'[backlog'[i]].at = "backlog"
      BY <1>4, <2>1, <2>3, <3>1, <3>2
    <3>5. \A i, j \in 1..Len(backlog') : backlog'[i] = backlog'[j] => i = j
      BY <2>1, <3>1, <3>2, <3>3
    <3> QED BY <2>1, <3>1, <3>4, <3>5 DEF Queued
  <2> QED BY <2>2, <2>3
<1>6. Forward
  <2>1. \A q \in Peer : peer[q].last.v \in Int
    BY <1>1 DEF PeerState, Unit, Version
  <2> QED BY <1>4, <2>1 DEF Forward
<1>7. Around' /\ Current(batch', conn')
  BY <1>1, <1>2 DEF Around
<1> QED BY <1>3, <1>5, <1>6, <1>7, Join

LEMMA ConnectUpholds ==
  ASSUME IInv, NEW p \in Peer, Connect(p)
  PROVE  IInv' /\ Forward
<1>1. /\ Wired(conn, peer, status) /\ status \in Version /\ Unheard(peer[p])
  BY Split DEF Around, Queued
<1>2. PICK x : x = [Away EXCEPT !.at = "backlog"]
  OBVIOUS
<1>3. /\ x \in PeerState /\ x.at = "backlog" /\ x.wire = <<>>
      /\ x.last = Away.last
  BY <1>2, FreshPeer DEF Away, PeerState
<1>4. InOrder(x, status) /\ Len(x.wire) <= Room
  <2>1. InOrder(Away, status) /\ Len(x.wire) <= Room
    BY <1>1, <1>3, FreshPeer, EmptySeq, IpcConstants
  <2>2. Newest(x) = Newest(Away) /\ x.wire = Away.wire
    BY <1>3 DEF Newest, Away
  <2>3. \A i : Before(x, i) = Before(Away, i)
    BY <1>3, <2>2 DEF Before
  <2> QED BY <2>1, <2>2, <2>3 DEF InOrder
<1>5. \A f \in Fd : conn[f].peer # p
  BY <1>1, Unaccepted DEF Connect
<1>6. Unheard(x) /\ x.last.v >= peer[p].last.v
  BY <1>1, <1>2, <1>3 DEF Unheard, Connect, Away
<1>7. /\ PeerStep(p, x) /\ backlog' = Append(backlog, p) /\ peer[p].at = "away"
  BY <1>2 DEF Connect
<1> QED BY <1>3, <1>4, <1>5, <1>6, <1>7, PeerUpholds

(* Sending and leaving change nothing of what the peer was sent.           *)
LEMMA SendUpholds ==
  ASSUME IInv, NEW p \in Peer, Send(p) \/ Leave(p)
  PROVE  IInv' /\ Forward
<1>1. /\ Wired(conn, peer, status) /\ status \in Version
      /\ peer[p] \in PeerState
  BY Split DEF Around, Wired
<1>2. peer[p].at = "connected" /\ backlog' = backlog
  BY DEF Send, Leave
<1>3. PICK x : /\ PeerStep(p, x) /\ x \in PeerState /\ x.wire = peer[p].wire
               /\ x.last = peer[p].last /\ x.at = peer[p].at
  <2>1. CASE Send(p)
    <3>1. PICK b \in Bytes : PeerStep(p, [peer[p] EXCEPT !.inbox = b])
      BY <2>1, SendsAssumption DEF Send, Bytes
    <3>2. PICK x : x = [peer[p] EXCEPT !.inbox = b]
      OBVIOUS
    <3>3. /\ x \in PeerState /\ x.wire = peer[p].wire
          /\ x.last = peer[p].last /\ x.at = peer[p].at
      BY <1>1, <3>2 DEF PeerState
    <3> QED BY <3>1, <3>2, <3>3
  <2>2. CASE Leave(p)
    <3>1. PICK x : x = [peer[p] EXCEPT !.left = TRUE]
      OBVIOUS
    <3>2. /\ x \in PeerState /\ x.wire = peer[p].wire
          /\ x.last = peer[p].last /\ x.at = peer[p].at
      BY <1>1, <3>1 DEF PeerState
    <3> QED BY <2>2, <3>1, <3>2 DEF Leave
  <2> QED BY <2>1, <2>2
<1>4. /\ InOrder(x, status) /\ Len(x.wire) <= Room
      /\ \A f \in Fd : conn[f].peer = p => Serves(conn[f], x, status)
  BY <1>1, <1>3, SentStays
<1>5. Unheard(x) /\ x.last.v >= peer[p].last.v
  BY <1>1, <1>2, <1>3 DEF Unheard, PeerState, Unit, Version
<1> QED BY <1>2, <1>3, <1>4, <1>5, PeerUpholds

LEMMA ReceiveUpholds ==
  ASSUME IInv, NEW p \in Peer, Receive(p)
  PROVE  IInv' /\ Forward
<1>1. /\ Wired(conn, peer, status) /\ status \in Version
      /\ peer[p] \in PeerState /\ InOrder(peer[p], status)
      /\ Len(peer[p].wire) <= Room /\ Unheard(peer[p])
  BY Split DEF Around, Wired, Queued
<1>2. peer[p].wire # <<>> /\ backlog' = backlog
  BY DEF Receive
<1>3. PICK x : /\ PeerStep(p, x) /\ x \in PeerState /\ Advanced(peer[p], x)
               /\ x.at = peer[p].at
  <2>1. Tail(peer[p].wire) \in Seq(Unit) /\ Head(peer[p].wire) \in Unit
    BY <1>1, <1>2 DEF PeerState
  <2>2. PICK x : x = [peer[p] EXCEPT !.wire = Tail(@), !.last = Head(peer[p].wire)]
    OBVIOUS
  <2>3. x \in PeerState /\ Advanced(peer[p], x) /\ x.at = peer[p].at
    BY <1>1, <2>1, <2>2 DEF PeerState, Advanced
  <2> QED BY <2>2, <2>3 DEF Receive
<1>4. /\ InOrder(x, status) /\ Newest(x) = Newest(peer[p])
      /\ Len(x.wire) <= Len(peer[p].wire) /\ peer[p].last.v <= x.last.v
  <2>1. PICK y : y = peer[p]
    OBVIOUS
  <2> QED BY <1>1, <1>2, <1>3, <2>1, ReceiveUnit
<1>5. peer[p].at = "connected"
  BY <1>1, <1>2 DEF Unheard, Away
<1>6. ASSUME NEW f \in Fd, conn[f].peer = p PROVE Serves(conn[f], x, status)
  <2>1. Serves(conn[f], peer[p], status)
    BY <1>1, <1>6, IpcConstants DEF Wired
  <2> QED BY <1>2, <1>3, <1>4, <1>5, <2>1 DEF Serves
<1>7. Unheard(x) /\ x.last.v >= peer[p].last.v /\ Len(x.wire) <= Room
  <2>1. /\ peer[p].last.v \in Int /\ x.last.v \in Int
        /\ Len(x.wire) \in Int /\ Len(peer[p].wire) \in Int /\ Room \in Int
    BY <1>1, <1>3, IpcConstants DEF PeerState, Unit, Version
  <2> QED BY <1>1, <1>3, <1>4, <1>5, <2>1 DEF Unheard
<1> QED BY <1>2, <1>3, <1>4, <1>6, <1>7, PeerUpholds

-----------------------------------------------------------------------------
(* The theorems.                                                           *)

LEMMA InitIInv == Init => IInv
<1> SUFFICES ASSUME Init PROVE IInv
  OBVIOUS
<1>1. 0 \in Version /\ Len(Away.wire) <= Room
  BY FreshPeer, EmptySeq, IpcConstants DEF Version
<1>2. Wired(conn, peer, status)
  <2>1. conn \in [Fd -> Connection] /\ peer \in [Peer -> PeerState]
    BY FreshPeer, NoConnectionIs DEF Init
  <2>2. \A p \in Peer : Len(peer[p].wire) <= Room /\ InOrder(peer[p], status)
    BY <1>1, FreshPeer DEF Init
  <2>3. \A f \in Fd : /\ conn[f].peer = NoPeer /\ conn[f].state = "free"
                      /\ FiltersMatch(conn[f])
    BY NoConnectionIs DEF Init
  <2> QED BY <2>1, <2>2, <2>3 DEF Wired
<1>3. Queued(backlog, peer)
  <2>1. backlog \in Seq(Peer) /\ Len(backlog) = 0
    BY EmptySeq DEF Init
  <2>2. \A p \in Peer : Unheard(peer[p])
    BY DEF Init, Unheard, Away
  <2> QED BY <2>1, <2>2 DEF Queued
<1>4. Current(batch, conn)
  BY DEF Init, Current
<1>5. Around
  <2>1. accepting \in [ready : BOOLEAN, attempts : 0..MaxPending]
    BY IpcConstants DEF Init
  <2>2. pushed \in 0..(Fingerprints - 1)
    BY <1>1, FingerprintIs DEF Init
  <2> QED BY <1>1, <2>1, <2>2 DEF Init, Around
<1> QED BY <1>2, <1>3, <1>4, <1>5, Split

LEMMA NextUpholds ==
  ASSUME IInv, Next
  PROVE  IInv' /\ Forward
<1>1. CASE LoopStep
  BY <1>1, TickUpholds, PrepareWaitUpholds, WaitReturnsUpholds, QuietUpholds,
     DispatchUpholds, FinishBatchUpholds, AcceptUpholds
  DEF LoopStep
<1>2. CASE Terminate
  BY <1>2, TerminateUpholds
<1>3. CASE Relaunch
  BY <1>3, QuietUpholds
<1>4. CASE Time
  BY <1>4, QuietUpholds, DeadlinePassesUpholds DEF Time
<1>5. CASE PeerNext
  BY <1>5, ConnectUpholds, SendUpholds, ReceiveUpholds DEF PeerNext
<1> QED BY <1>1, <1>2, <1>3, <1>4, <1>5 DEF Next

LEMMA StutterUpholds ==
  ASSUME IInv, UNCHANGED vars
  PROVE  IInv' /\ Forward
<1>1. /\ Around /\ Wired(conn, peer, status) /\ Queued(backlog, peer)
      /\ Current(batch, conn)
  BY Split
<1>2. /\ Around' /\ Wired(conn', peer', status') /\ Queued(backlog', peer')
      /\ Current(batch', conn') /\ Keeps(peer, peer')
  BY <1>1 DEF vars, Around, Keeps
<1> QED BY <1>1, <1>2, Join, KeepsForward

(* The inductive invariant, type correctness included: every descriptor is *)
(* watched for exactly what its state waits for, and what it will write    *)
(* continues what its peer was sent.                                       *)
THEOREM IpcInvariant == Spec => []IInv
<1>1. IInv /\ [Next]_vars => IInv'
  BY NextUpholds, StutterUpholds
<1> QED BY <1>1, InitIInv, PTL DEF Spec

(* No copied event is about a connection that was closed or replaced since *)
(* (finish_event_batch).                                                   *)
THEOREM EventsAreCurrentHolds == Spec => []EventsAreCurrent
<1>1. IInv => EventsAreCurrent
  BY DEF IInv
<1> QED BY <1>1, IpcInvariant, PTL

(* Whatever is written in pieces, and by whom, a peer reads whole lines.   *)
THEOREM WholeLinesHolds == Spec => []WholeLines
<1>1. IInv => WholeLines
  BY DEF IInv, InOrder, WholeLines
<1> QED BY <1>1, IpcInvariant, PTL

(* No peer is told an older status after a newer one.                      *)
THEOREM NeverGoesBackHolds == Spec => NeverGoesBack
<1>1. IInv /\ [Next]_vars
      => [\A p \in Peer : peer'[p].at # "away" =>
            peer'[p].last.v >= peer[p].last.v]_vars
  BY NextUpholds DEF Forward
<1> QED BY <1>1, IpcInvariant, PTL DEF Spec, NeverGoesBack

-----------------------------------------------------------------------------
(* The limits.                                                             *)

Limits ==
  Cardinality(Pending) <= MaxPending /\ Cardinality(Subscribed) <= MaxSubscribers

LEMMA FdsAre ==
  \A S \in SUBSET Fd : IsFiniteSet(S) /\ Cardinality(S) \in Nat
<1>1. IsFiniteSet(Fd)
  <2>1. 1 \in Int /\ MaxPending + MaxSubscribers \in Int
    BY IpcConstants
  <2> QED BY <2>1, FS_Interval DEF Fd
<1> QED BY <1>1, FS_Subset, FS_CardinalityType

LEMMA OneMore ==
  ASSUME NEW S \in SUBSET Fd, NEW T \in SUBSET Fd, NEW f \in Fd,
         T \subseteq S \cup {f}, NEW limit \in Nat, Cardinality(S) < limit
  PROVE  Cardinality(T) <= limit
<1>1. IsFiniteSet(S) /\ Cardinality(S) \in Nat /\ Cardinality(T) \in Nat
  BY FdsAre
<1>2. /\ IsFiniteSet(S \cup {f})
      /\ Cardinality(S \cup {f}) \in {Cardinality(S), Cardinality(S) + 1}
  BY <1>1, FS_AddElement
<1>3. Cardinality(T) <= Cardinality(S \cup {f})
  BY <1>2, FS_Subset
<1> QED BY <1>1, <1>2, <1>3

LEMMA NoMore ==
  ASSUME NEW S \in SUBSET Fd, NEW T \in SUBSET S, NEW limit \in Nat,
         Cardinality(S) <= limit
  PROVE  Cardinality(T) <= limit
<1>1. Cardinality(S) \in Nat /\ Cardinality(T) \in Nat
  BY FdsAre
<1>2. Cardinality(T) <= Cardinality(S)
  BY FdsAre, FS_Subset
<1> QED BY <1>1, <1>2

(* Most steps add to neither.                                              *)
Shrinks == Pending' \subseteq Pending /\ Subscribed' \subseteq Subscribed

LEMMA ShrinksLimits ==
  ASSUME Limits, Shrinks
  PROVE  Limits'
<1>1. Pending \in SUBSET Fd /\ Subscribed \in SUBSET Fd
  BY DEF Pending, Subscribed
<1> QED BY <1>1, NoMore, IpcConstants DEF Limits, Shrinks

LEMMA DroppingShrinks ==
  ASSUME \A f \in Fd : conn'[f] = conn[f] \/ conn'[f] = NoConnection
  PROVE  Shrinks
  BY DEF Shrinks, Pending, Subscribed, NoConnection

LEMMA DispatchLimits ==
  ASSUME IInv, Limits, Dispatch
  PROVE  Limits'
<1>1. PICK e \in batch : e \in Events /\ Handle(e)
  BY DEF Dispatch, IInv, TypeOK
<1>2. Wired(conn, peer, status) /\ status \in Version
  BY Split DEF Around
<1>3. CASE conn' = conn
  BY <1>3, ShrinksLimits DEF Shrinks, Pending, Subscribed
<1>4. CASE e.fd \in Fd /\ Handled(e.fd)
  <2>1. PICK f \in Fd : Handled(f)
    BY <1>4
  <2>2. Pending' \subseteq Pending
    BY <2>1 DEF Handled, Pending
  <2>3. CASE Subscribed' \subseteq Subscribed
    BY <2>2, <2>3, ShrinksLimits DEF Shrinks
  <2>4. CASE MaySubscribe /\ Subscribed' \subseteq Subscribed \cup {f}
    <3>1. Cardinality(Subscribed') <= MaxSubscribers
      <4>1. Subscribed \in SUBSET Fd /\ Subscribed' \in SUBSET Fd
        BY DEF Subscribed
      <4> QED BY <2>4, <4>1, OneMore, IpcConstants DEF MaySubscribe
    <3>2. Cardinality(Pending') <= MaxPending
      <4>1. Pending \in SUBSET Fd
        BY DEF Pending
      <4> QED BY <2>2, <4>1, NoMore, IpcConstants DEF Limits
    <3> QED BY <3>1, <3>2 DEF Limits
  <2> QED BY <2>1, <2>3, <2>4 DEF Handled, Subscribed
<1> QED BY <1>1, <1>2, <1>3, <1>4, HandleHandles

LEMMA AcceptLimits ==
  ASSUME IInv, Limits, Accept
  PROVE  Limits'
<1>1. conn \in [Fd -> Connection]
  BY DEF IInv, TypeOK
<1>2. CASE conn' = conn
  BY <1>2, ShrinksLimits DEF Shrinks, Pending, Subscribed
<1>3. CASE \E f \in Free : \E c : c.state = "reading" /\ conn' = [conn EXCEPT ![f] = c]
  <2>1. PICK f \in Fd : \E c : c.state = "reading" /\ conn' = [conn EXCEPT ![f] = c]
    BY <1>3 DEF Free
  <2>2. Pending' \subseteq Pending \cup {f} /\ Subscribed' \subseteq Subscribed
    BY <1>1, <2>1 DEF Pending, Subscribed
  <2>3. /\ Pending \in SUBSET Fd /\ Pending' \in SUBSET Fd
        /\ Subscribed \in SUBSET Fd
    BY DEF Pending, Subscribed
  <2>4. Cardinality(Pending') <= MaxPending
    BY <2>2, <2>3, OneMore, IpcConstants DEF Accept, MayAccept
  <2>5. Cardinality(Subscribed') <= MaxSubscribers
    BY <2>2, <2>3, NoMore, IpcConstants DEF Limits
  <2> QED BY <2>4, <2>5 DEF Limits
<1> QED
  <2>1. \A p : [NoConnection EXCEPT !.peer = p, !.state = "reading",
                                  !.read = "pending"].state = "reading"
    BY DEF NoConnection
  <2> QED BY <1>2, <1>3, <2>1 DEF Accept

LEMMA OtherLimits ==
  ASSUME IInv, Limits, Next, ~ Dispatch, ~ Accept
  PROVE  Limits'
<1>1. Wired(conn, peer, status) /\ status \in Version
  BY Split DEF Around
<1>2. CASE Tick
  <2>1. CASE Broadcast(status')
    <3>1. status' \in Version /\ status <= status'
      BY <1>1, <1>2, LaterIs DEF Tick
    <3>2. Wired(conn, peer, status')
      BY <1>1, <3>1, Aging
    <3> QED BY <2>1, <3>1, <3>2, BroadcastKeeps, DroppingShrinks, ShrinksLimits
  <2>2. CASE conn' = conn
    BY <2>2, DroppingShrinks, ShrinksLimits
  <2> QED BY <1>2, <2>1, <2>2 DEF Tick
<1>3. CASE Retained
  BY <1>3, DroppingShrinks, ShrinksLimits DEF Retained
<1>4. CASE Terminate
  BY <1>4, DroppingShrinks, ShrinksLimits DEF Terminate
<1>5. CASE conn' = conn
  BY <1>5, DroppingShrinks, ShrinksLimits
<1>6. CASE \E f \in Fd : DeadlinePasses(f)
  <2>1. conn \in [Fd -> Connection]
    BY <1>1 DEF Wired
  <2>2. \A f \in Fd : conn'[f].state = conn[f].state
    BY <1>6, <2>1 DEF DeadlinePasses, Connection
  <2> QED BY <2>2, ShrinksLimits DEF Shrinks, Pending, Subscribed
<1>7. \/ Tick \/ Retained \/ Terminate \/ conn' = conn
      \/ \E f \in Fd : DeadlinePasses(f)
  BY DEF Next, LoopStep, Time, PeerNext, PrepareWait, WaitReturns, WaitEmpty,
         FinishBatch, AcceptsDone, Relaunch, HeartbeatElapses, Connect, Send,
         Receive, Leave, PeerStep
<1> QED BY <1>2, <1>3, <1>4, <1>5, <1>6, <1>7

(* The loop goes to sleep listening exactly if there is room.              *)
Awake == pc = "wait" => (listening <=> Cardinality(Pending) < MaxPending)

LEMMA AwakeNext ==
  ASSUME IInv, Awake, Next
  PROVE  Awake'
<1>1. CASE PrepareWait
  BY <1>1 DEF PrepareWait, ListenerAdjusted, Awake
<1>2. CASE pc' # "wait"
  BY <1>2 DEF Awake
<1>3. CASE pc' = pc /\ listening' = listening /\ Pending' = Pending
  BY <1>3, Zenon DEF Awake
<1>4. CASE \E f \in Fd : DeadlinePasses(f)
  <2>1. conn \in [Fd -> Connection]
    BY DEF IInv, TypeOK
  <2>2. \A f \in Fd : conn'[f].state = conn[f].state
    BY <1>4, <2>1 DEF DeadlinePasses, Connection
  <2>3. Pending' = Pending
    BY <2>2 DEF Pending
  <2> QED BY <1>3, <1>4, <2>3 DEF DeadlinePasses
<1>5. CASE Dispatch \/ Accept
  BY <1>2, <1>5 DEF Dispatch, Accept
<1>6. CASE HeartbeatElapses \/ PeerNext
  BY <1>3, <1>6
  DEF HeartbeatElapses, PeerNext, Connect, Send, Receive, Leave, PeerStep, Pending
<1>7. CASE Tick \/ WaitReturns \/ WaitEmpty \/ FinishBatch \/ AcceptsDone
           \/ Terminate \/ Relaunch
  BY <1>2, <1>7
  DEF Tick, WaitReturns, WaitEmpty, FinishBatch, AcceptsDone, Terminate, Relaunch
<1> QED BY <1>1, <1>4, <1>5, <1>6, <1>7 DEF Next, LoopStep, Time

(* The limits on handshakes and subscribers hold, and the listener is      *)
(* never left disabled while there is room, nor enabled while there is     *)
(* none, when the loop goes to sleep (maintain, Subscribers::add).         *)
THEOREM BackpressureHolds == Spec => []Backpressure
<1>1. Init => Limits /\ Awake
  <2>1. ASSUME Init PROVE Pending = {} /\ Subscribed = {} /\ pc # "wait"
    BY <2>1 DEF Init, Pending, Subscribed, NoConnection
  <2> QED BY <2>1, FS_EmptySet, IpcConstants DEF Limits, Awake
<1>2. IInv /\ Limits /\ Awake /\ [Next]_vars => Limits' /\ Awake'
  <2> SUFFICES ASSUME IInv, Limits, Awake, [Next]_vars PROVE Limits' /\ Awake'
    OBVIOUS
  <2>1. CASE Next
    BY <2>1, DispatchLimits, AcceptLimits, OtherLimits, AwakeNext
  <2>2. CASE UNCHANGED vars
    <3>1. Pending' = Pending /\ Subscribed' = Subscribed
          /\ pc' = pc /\ listening' = listening
      BY <2>2 DEF vars, Pending, Subscribed
    <3> QED BY <3>1, Zenon DEF Limits, Awake
  <2> QED BY <2>1, <2>2
<1>3. Limits /\ Awake => Backpressure
  BY Zenon DEF Limits, Awake, Backpressure
<1> QED BY <1>1, <1>2, <1>3, IpcInvariant, PTL DEF Spec
=============================================================================
