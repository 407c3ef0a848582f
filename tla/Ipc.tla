-------------------------------- MODULE Ipc ---------------------------------
(***************************************************************************)
(* The control socket of the agent: its event loop, the handshakes, the    *)
(* one-shot answers and the subscribers (rust/src/ipc.rs,                  *)
(* rust/src/bin/agent.rs, EventQueue of rust/src/platform.rs), with the    *)
(* kernel's sockets and filters and the peers as its environment.          *)
(*                                                                         *)
(* One thread serves everyone without blocking. It copies a batch of       *)
(* events and works it off while peers send, read and leave; a line may be *)
(* written in several pieces; the status changes between them.             *)
(***************************************************************************)
EXTENDS Integers, Sequences, FiniteSets

CONSTANTS
  Peer,            \* processes that connect, each over and over
  NoPeer,
  MaxPending,      \* MAX_PENDING_HANDSHAKES and MAX_ACCEPTS_PER_BATCH
  MaxSubscribers,  \* MAX_SUBSCRIBERS
  MaxEvents,       \* MAX_KEVENTS
  LineUnits,       \* units of a status line
  WriteBudget,     \* WRITE_BUDGET in units
  Room,            \* units a socket holds for a peer that does not read
  Sends,           \* what peers send
  Fingerprints,    \* status k and status k + Fingerprints look the same
  MaxStatus        \* bound: changes of the status

ASSUME IpcConstants ==
  /\ NoPeer \notin Peer
  /\ MaxPending \in Nat \ {0} /\ MaxSubscribers \in Nat \ {0}
  /\ MaxEvents \in Nat \ {0}
  /\ LineUnits \in Nat \ {0} /\ WriteBudget \in Nat \ {0} /\ Room \in Nat \ {0}
  /\ Fingerprints \in Nat \ {0} /\ MaxStatus \in Nat

VARIABLES
  pc,         \* where the event loop is
  conn,       \* descriptors: IpcServer.pending, Subscribers and their filters
  listening,  \* IpcServer.listener_enabled and the listener's filter
  backlog,    \* connections the kernel holds for accept
  batch,      \* events copied by the last wait and not yet dispatched
  accepting,  \* the batch holds a listener event; accepts done for it
  status,     \* Supervisor.status, numbered in the order it changes
  pushed,     \* last_fingerprint
  heartbeat,  \* has SUBSCRIBER_HEARTBEAT elapsed since the last push?
  peer        \* the peers' ends

vars == <<pc, conn, listening, backlog, batch, accepting, status, pushed,
          heartbeat, peer>>

-----------------------------------------------------------------------------
(* Data                                                                    *)

(* Pending and subscribed connections never outnumber the descriptors.     *)
Fd == 1..(MaxPending + MaxSubscribers)

Version == 0..MaxStatus

Fingerprint(v) == v % Fingerprints

(* A piece of a status line; the last one carries the newline.             *)
Unit == [v : Version, k : 1..LineUnits]

(* The response still to be written from its k-th unit on, and its         *)
(* ResponseDisposition.                                                    *)
Response == [v : Version, k : 1..LineUnits, then : {"Close", "Subscribe"}]

NoResponse == [v |-> 0, k |-> 1, then |-> "Close"]

(* PendingState, without AwaitingResponse: a request is answered in the    *)
(* handler that read it. "subscribed" is a stream of Subscribers, "free"   *)
(* a closed descriptor. read and write are the kqueue filters.             *)
Connection ==
  [peer : Peer \cup {NoPeer},
   state : {"free", "reading", "writing", "subscribed"},
   expired : BOOLEAN,
   read : {"none", "pending", "stream"},
   write : BOOLEAN,
   rest : Response]

NoConnection ==
  [peer |-> NoPeer, state |-> "free", expired |-> FALSE, read |-> "none",
   write |-> FALSE, rest |-> NoResponse]

(* What a read returns: nothing, bytes without a newline, or a line that   *)
(* classify_request takes for one of three requests.                       *)
Requests == {"command", "subscribe", "bad"}
Bytes == {"none", "part"} \cup Requests

ASSUME SendsAssumption == Sends \subseteq Bytes \ {"none"}

(* inbox is unread by the agent, wire unread by the peer; last is the unit *)
(* the peer read last. A peer is away again once the agent closes its      *)
(* connection: it may still read what was written, which concerns nobody   *)
(* else.                                                                   *)
PeerState ==
  [at : {"away", "backlog", "connected"}, left : BOOLEAN,
   inbox : Bytes, wire : Seq(Unit), last : Unit]

Away ==
  [at |-> "away", left |-> FALSE, inbox |-> "none", wire |-> <<>>,
   last |-> [v |-> 0, k |-> LineUnits]]

ListenerEvent == [kind |-> "Listener", fd |-> 0, peer |-> NoPeer]

(* ChildExit, ConfigChanged and SignalWake.                                *)
SupervisorEvent == [kind |-> "Supervisor", fd |-> 0, peer |-> NoPeer]

(* peer is history: whose connection the kernel raised the event for.      *)
Events ==
  [kind : {"PendingReadable", "Stream", "StreamWritable"}, fd : Fd,
   peer : Peer \cup {NoPeer}] \cup {ListenerEvent, SupervisorEvent}

TypeOK ==
  /\ pc \in {"tick", "prepare", "wait", "dispatch", "accept", "stopped"}
  /\ conn \in [Fd -> Connection]
  /\ listening \in BOOLEAN
  /\ backlog \in Seq(Peer)
  /\ batch \subseteq Events
  /\ accepting \in [ready : BOOLEAN, attempts : 0..MaxPending]
  /\ status \in Version
  /\ pushed \in 0..(Fingerprints - 1)
  /\ heartbeat \in BOOLEAN
  /\ peer \in [Peer -> PeerState]
  /\ \A p \in Peer : Len(peer[p].wire) <= Room

Init ==
  /\ pc = "tick"
  /\ conn = [f \in Fd |-> NoConnection]
  /\ listening = TRUE
  /\ backlog = <<>>
  /\ batch = {}
  /\ accepting = [ready |-> FALSE, attempts |-> 0]
  /\ status = 0
  /\ pushed = Fingerprint(0)
  /\ heartbeat = FALSE
  /\ peer = [p \in Peer |-> Away]

-----------------------------------------------------------------------------
(* Helpers                                                                 *)

Pending == {f \in Fd : conn[f].state \in {"reading", "writing"}}

Subscribed == {f \in Fd : conn[f].state = "subscribed"}

Free == {f \in Fd : conn[f].state = "free"}

(* The supervisor's status when a command, an event or a tick is done.     *)
Later == {v \in Version : v = status \/ v = status + 1}

(* n units of a line of status v, from the k-th on.                        *)
Units(v, k, n) == [i \in 1..n |-> [v |-> v, k |-> k + i - 1]]

(* How much of m units one write takes: something unless the socket is     *)
(* full, and possibly less than it has room for.                           *)
Written(p, m) ==
  LET room == Room - Len(peer[p].wire)
  IN  IF room = 0 THEN {0} ELSE {n \in 1..m : n <= room}

(* Dropping the stream closes the descriptor, and its filters go.          *)
Closed(f) == [conn EXCEPT ![f] = NoConnection]

Gone(p) == [peer EXCEPT ![p] = Away]

Drop(f) ==
  /\ conn' = Closed(f)
  /\ peer' = Gone(conn[f].peer)

-----------------------------------------------------------------------------
(* Writing a response                                                      *)

(* Mutant: the filter that announced the last write stays.                 *)
SubscribedStillArmed(c) ==
  [c EXCEPT !.state = "subscribed", !.read = "stream", !.rest = NoResponse,
            !.expired = FALSE]

(* Subscribers::add behind its two filter changes.                         *)
SubscribedTo(c) ==
  [c EXCEPT !.state = "subscribed", !.read = "stream", !.write = FALSE,
            !.expired = FALSE, !.rest = NoResponse]

(* Mutant: subscribers are not counted.                                    *)
RoomForOneMore == TRUE

MaySubscribe == Cardinality(Subscribed) < MaxSubscribers

(* Mutant: a request leaves its filter behind.                             *)
WritingStillWatched(c, r) ==
  [c EXCEPT !.state = "writing", !.write = TRUE, !.rest = r]

(* PendingState::Writing with r left, the request's filter gone and that   *)
(* for room armed.                                                         *)
WritingOf(c, r) ==
  [c EXCEPT !.state = "writing", !.read = "none", !.write = TRUE, !.rest = r]

Left(r) == LineUnits + 1 - r.k

Chunk(r) == IF Left(r) < WriteBudget THEN Left(r) ELSE WriteBudget

(* advance_write: one bounded write of r. The connection goes when its     *)
(* response is written and asks for no subscription, when the peer has     *)
(* left, when its deadline passes and when a filter cannot be changed.     *)
AdvanceWrite(f, r, ps) ==
  LET p == conn[f].peer
  IN  \/ Drop(f)
      \/ /\ ~ ps[p].left
         /\ \E n \in Written(p, Chunk(r)) :
              /\ peer' = [ps EXCEPT ![p].wire = @ \o Units(r.v, r.k, n)]
              /\ \/ /\ n # Left(r)
                    /\ conn' = [conn EXCEPT ![f] =
                                  WritingOf(@, [r EXCEPT !.k = @ + n])]
                 \/ /\ n = Left(r) /\ r.then = "Subscribe" /\ MaySubscribe
                    /\ conn' = [conn EXCEPT ![f] = SubscribedTo(@)]

(* handle_pending_writable                                                 *)
PendingWritable(f) ==
  /\ IF f \in Pending /\ conn[f].expired
     THEN Drop(f)
     ELSE IF conn[f].state = "writing"
          THEN AdvanceWrite(f, conn[f].rest, peer)
          ELSE UNCHANGED <<conn, peer>>
  /\ UNCHANGED status

-----------------------------------------------------------------------------
(* Reading a request                                                       *)

(* dispatch_pending_request, queue_response and the first write: a command *)
(* takes effect even if its connection does not live to be answered.       *)
Answer(f, request, ps) ==
  /\ status' \in IF request = "command" THEN Later ELSE {status}
  /\ AdvanceWrite(f, [v |-> status', k |-> 1,
                      then |-> IF request = "subscribe" THEN "Subscribe"
                                                        ELSE "Close"], ps)

(* handle_pending_readable and what the loop does with its request.        *)
PendingReadable(f) ==
  LET p == conn[f].peer
      ps == [peer EXCEPT ![p].inbox = "none"]
  IN  IF f \in Pending /\ conn[f].expired
      THEN Drop(f) /\ UNCHANGED status
      ELSE IF conn[f].state # "reading"
      THEN UNCHANGED <<conn, peer, status>>
      ELSE IF peer[p].inbox \in Requests
      THEN Answer(f, peer[p].inbox, ps)
      ELSE /\ UNCHANGED status
           /\ IF peer[p].inbox = "none" /\ peer[p].left
              THEN Drop(f)
              ELSE conn' = conn /\ peer' = IF peer[p].inbox = "part"
                                           THEN ps ELSE peer

(* Subscribers::handle_readable: end of file and data both end it.         *)
SubscriberReadable(f) ==
  /\ IF /\ conn[f].state = "subscribed"
        /\ peer[conn[f].peer].left \/ peer[conn[f].peer].inbox # "none"
     THEN Drop(f)
     ELSE UNCHANGED <<conn, peer>>
  /\ UNCHANGED status

-----------------------------------------------------------------------------
(* The event loop                                                          *)

(* Mutant: a stream is kept if it took anything.                           *)
TookSome(n) == n > 0

TookAll(n) == n = LineUnits

(* Mutant: whoever is being answered is pushed to as well.                 *)
SubscribedOrAnswered ==
  {f \in Fd : conn[f].state \in {"subscribed", "writing"}}

Recipients == Subscribed

(* Subscribers::broadcast: one write each; whoever does not take the whole *)
(* line is dropped.                                                        *)
Broadcast(v) ==
  \E n \in [Recipients -> 0..LineUnits] :
    /\ \A f \in Recipients :
         n[f] \in IF peer[conn[f].peer].left THEN {0}
                  ELSE Written(conn[f].peer, LineUnits)
    /\ conn' = [f \in Fd |-> IF f \in Recipients /\ ~ TookAll(n[f])
                             THEN NoConnection ELSE conn[f]]
    /\ peer' = [p \in Peer |->
         IF \E f \in Recipients : conn[f].peer = p
         THEN LET f == CHOOSE g \in Recipients : conn[g].peer = p
              IN  IF TookAll(n[f])
                  THEN [peer[p] EXCEPT !.wire = @ \o Units(v, 1, n[f])]
                  ELSE Away
         ELSE peer[p]]

(* Mutant: a push only when something changed.                             *)
PushDueOnChange(v) == Fingerprint(v) # pushed

PushDue(v) == Fingerprint(v) # pushed \/ heartbeat

(* Signals, Supervisor::tick, then the push.                               *)
Tick ==
  /\ pc = "tick"
  /\ pc' = "prepare"
  /\ status' \in Later
  /\ pushed' = Fingerprint(status')
  /\ IF PushDue(status')
     THEN heartbeat' = FALSE /\ Broadcast(status')
     ELSE UNCHANGED <<heartbeat, conn, peer>>
  /\ UNCHANGED <<listening, backlog, batch, accepting>>

(* maintain: handshakes past their deadline go ...                         *)
Retained ==
  /\ conn' = [f \in Fd |-> IF f \in Pending /\ conn[f].expired
                           THEN NoConnection ELSE conn[f]]
  /\ peer' = [p \in Peer |->
       IF \E f \in Pending : conn[f].expired /\ conn[f].peer = p
       THEN Away ELSE peer[p]]

(* Mutant: a disabled listener is enabled only when it has an event.       *)
ListenerKept == IF Cardinality(Pending') >= MaxPending THEN FALSE ELSE listening

(* ... and the listener follows the number of those that are left.         *)
ListenerAdjusted == Cardinality(Pending') < MaxPending

(* prepare_wait                                                            *)
PrepareWait ==
  /\ pc = "prepare"
  /\ pc' = "wait"
  /\ Retained
  /\ listening' = ListenerAdjusted
  /\ UNCHANGED <<backlog, batch, accepting, status, pushed, heartbeat>>

(* The kernel's filters: read is ready on data and end of file, write on   *)
(* room and end of file.                                                   *)
Ready ==
  (IF listening /\ backlog # <<>> THEN {ListenerEvent} ELSE {})
  \cup {[kind |-> "PendingReadable", fd |-> f, peer |-> conn[f].peer] :
          f \in {g \in Fd : /\ conn[g].read = "pending"
                            /\ \/ peer[conn[g].peer].inbox # "none"
                               \/ peer[conn[g].peer].left}}
  \cup {[kind |-> "Stream", fd |-> f, peer |-> conn[f].peer] :
          f \in {g \in Fd : /\ conn[g].read = "stream"
                            /\ \/ peer[conn[g].peer].inbox # "none"
                               \/ peer[conn[g].peer].left}}
  \cup {[kind |-> "StreamWritable", fd |-> f, peer |-> conn[f].peer] :
          f \in {g \in Fd : /\ conn[g].write
                            /\ \/ Len(peer[conn[g].peer].wire) < Room
                               \/ peer[conn[g].peer].left}}

(* EventQueue::wait returns what is ready, at most MaxEvents of it.        *)
WaitReturns ==
  /\ pc = "wait"
  /\ pc' = "dispatch"
  /\ \E all \in {Ready, Ready \cup {SupervisorEvent}} :
       /\ all # {}
       /\ batch' \in SUBSET all
       /\ batch' # {} /\ Cardinality(batch') <= MaxEvents
       /\ Cardinality(all) <= MaxEvents => batch' = all
  /\ UNCHANGED <<conn, listening, backlog, accepting, status, pushed,
                 heartbeat, peer>>

(* A ready filter is returned in the end: the kernel moves a level-         *)
(* triggered one behind the others once it was returned.                   *)
ListenerReturned == WaitReturns /\ ListenerEvent \in batch'

(* The wait ends empty: at a deadline of the supervisor or interrupted.    *)
WaitEmpty ==
  /\ pc = "wait" /\ Ready = {}
  /\ pc' = "dispatch"
  /\ UNCHANGED <<conn, listening, backlog, batch, accepting, status, pushed,
                 heartbeat, peer>>

(* wait_timeout: ... or at the heartbeat or the deadline of a handshake.   *)
WaitTimesOut == (heartbeat \/ \E f \in Pending : conn[f].expired) /\ WaitEmpty

Handle(e) ==
  \/ e.kind = "PendingReadable" /\ PendingReadable(e.fd)
  \/ e.kind = "StreamWritable" /\ PendingWritable(e.fd)
  \/ e.kind = "Stream" /\ SubscriberReadable(e.fd)
  \/ e.kind = "Supervisor" /\ status' \in Later /\ UNCHANGED <<conn, peer>>
  \/ e.kind = "Listener" /\ UNCHANGED <<conn, peer, status>>

(* One event of the batch; the order is the kernel's.                      *)
Dispatch ==
  /\ pc = "dispatch"
  /\ \E e \in batch :
       /\ batch' = batch \ {e}
       /\ Handle(e)
       /\ accepting' = [accepting EXCEPT
                          !.ready = @ \/ e.kind = "Listener"]
  /\ UNCHANGED <<pc, listening, backlog, pushed, heartbeat>>

(* finish_event_batch, up to its accepts.                                  *)
FinishBatch ==
  /\ pc = "dispatch" /\ batch = {}
  /\ Retained
  /\ IF accepting.ready /\ listening /\ Cardinality(Pending') < MaxPending
     THEN pc' = "accept" /\ UNCHANGED listening
     ELSE pc' = "tick" /\ listening' = ListenerAdjusted
  /\ accepting' = [ready |-> FALSE, attempts |-> 0]
  /\ UNCHANGED <<backlog, batch, status, pushed, heartbeat>>

MayAccept ==
  Cardinality(Pending) < MaxPending /\ accepting.attempts < MaxPending

(* One turn of accept_connections, on a descriptor of the kernel's choice; *)
(* register_accepted refuses another user, a socket it cannot set up and a *)
(* peer that took too long.                                                *)
Accept ==
  /\ pc = "accept" /\ backlog # <<>> /\ MayAccept
  /\ LET p == Head(backlog)
     IN  \/ \E f \in Free :
            /\ conn' = [conn EXCEPT ![f] = [NoConnection EXCEPT
                          !.peer = p, !.state = "reading", !.read = "pending"]]
            /\ peer' = [peer EXCEPT ![p].at = "connected"]
         \/ conn' = conn /\ peer' = Gone(p)
  /\ backlog' = Tail(backlog)
  /\ accepting' = [accepting EXCEPT !.attempts = @ + 1]
  /\ UNCHANGED <<pc, listening, batch, status, pushed, heartbeat>>

(* The accepts end: none is left, the limit is reached or one failed.      *)
AcceptsDone ==
  /\ pc = "accept"
  /\ pc' = "tick"
  /\ UNCHANGED <<conn, backlog, batch, status, pushed, heartbeat, peer>>
  /\ listening' = ListenerAdjusted
  /\ accepting' = [ready |-> FALSE, attempts |-> 0]

(* SIGTERM and SIGINT end the loop at its top, a wait that fails or a      *)
(* crash ends it anywhere; every descriptor closes.                        *)
Terminate ==
  /\ pc # "stopped"
  /\ pc' = "stopped"
  /\ conn' = [f \in Fd |-> NoConnection]
  /\ listening' = FALSE
  /\ backlog' = <<>>
  /\ peer' = [p \in Peer |-> Away]
  /\ batch' = {}
  /\ accepting' = [ready |-> FALSE, attempts |-> 0]
  /\ UNCHANGED <<status, pushed, heartbeat>>

(* launchd starts the agent again: bind and a new loop.                    *)
Relaunch ==
  /\ pc = "stopped"
  /\ pc' = "tick"
  /\ listening' = TRUE
  /\ pushed' = Fingerprint(status)
  /\ heartbeat' = FALSE
  /\ UNCHANGED <<conn, backlog, batch, accepting, status, peer>>

-----------------------------------------------------------------------------
(* Time and the peers                                                      *)

HeartbeatElapses ==
  /\ pc # "stopped" /\ ~ heartbeat
  /\ heartbeat' = TRUE
  /\ UNCHANGED <<pc, conn, listening, backlog, batch, accepting, status,
                 pushed, peer>>

(* HANDSHAKE_TIMEOUT                                                       *)
DeadlinePasses(f) ==
  /\ f \in Pending /\ ~ conn[f].expired
  /\ conn' = [conn EXCEPT ![f].expired = TRUE]
  /\ UNCHANGED <<pc, listening, backlog, batch, accepting, status, pushed,
                 heartbeat, peer>>

PeerStep(p, new) ==
  /\ peer' = [peer EXCEPT ![p] = new]
  /\ UNCHANGED <<pc, conn, listening, batch, accepting, status, pushed,
                 heartbeat>>

Connect(p) ==
  /\ pc # "stopped" /\ peer[p].at = "away"
  /\ backlog' = Append(backlog, p)
  /\ PeerStep(p, [Away EXCEPT !.at = "backlog"])

(* What a peer does before it is accepted the agent sees as done just      *)
(* after; whatever it sends once its line was read is unexpected bytes.    *)
Send(p) ==
  /\ peer[p].at = "connected"
  /\ ~ peer[p].left /\ peer[p].inbox = "none"
  /\ \E b \in IF \E f \in Fd : conn[f].peer = p /\ conn[f].state = "reading"
               THEN Sends ELSE {"part"} :
       PeerStep(p, [peer[p] EXCEPT !.inbox = b])
  /\ UNCHANGED backlog

Receive(p) ==
  /\ ~ peer[p].left /\ peer[p].wire # <<>>
  /\ PeerStep(p, [peer[p] EXCEPT !.wire = Tail(@), !.last = Head(peer[p].wire)])
  /\ UNCHANGED backlog

Leave(p) ==
  /\ peer[p].at = "connected" /\ ~ peer[p].left
  /\ PeerStep(p, [peer[p] EXCEPT !.left = TRUE])
  /\ UNCHANGED backlog

-----------------------------------------------------------------------------

LoopStep ==
  \/ Tick \/ PrepareWait \/ WaitReturns \/ WaitEmpty
  \/ Dispatch \/ FinishBatch \/ Accept \/ AcceptsDone

Time == HeartbeatElapses \/ \E f \in Fd : DeadlinePasses(f)

PeerNext ==
  \E p \in Peer :
    Connect(p) \/ Send(p) \/ Receive(p) \/ Leave(p)

Next == LoopStep \/ Terminate \/ Relaunch \/ Time \/ PeerNext

Spec == Init /\ [][Next]_vars

(* The loop keeps running while the agent does, timers run out, launchd    *)
(* starts the agent again. Nothing is assumed of the peers, and an accept  *)
(* that can be done is not failed for ever.                                *)
FairSpec ==
  /\ Spec
  /\ WF_vars(Tick) /\ WF_vars(PrepareWait)
  /\ WF_vars(WaitReturns) /\ SF_vars(ListenerReturned)
  /\ WF_vars(WaitTimesOut)
  /\ WF_vars(Dispatch) /\ WF_vars(FinishBatch)
  /\ SF_vars(Accept) /\ WF_vars(AcceptsDone)
  /\ WF_vars(HeartbeatElapses) /\ \A f \in Fd : WF_vars(DeadlinePasses(f))
  /\ WF_vars(Relaunch)

-----------------------------------------------------------------------------
(* Properties                                                              *)

(* The unit written last to a peer, and the one before its i-th unread.    *)
Newest(x) == IF x.wire = <<>> THEN x.last ELSE x.wire[Len(x.wire)]

Before(x, i) == IF i = 1 THEN x.last ELSE x.wire[i - 1]

Follows(u, w) ==
  IF u.k = LineUnits THEN w.k = 1 ELSE w.v = u.v /\ w.k = u.k + 1

(* A peer reads whole lines: a new line starts only where one has ended,   *)
(* whoever wrote the two (advance_write, broadcast).                       *)
WholeLines ==
  \A p \in Peer : \A i \in 1..Len(peer[p].wire) :
    Follows(Before(peer[p], i), peer[p].wire[i])

(* An event that waits in the batch is about the connection, and the state *)
(* of it, the kernel raised it for, whatever was dispatched before it: no  *)
(* descriptor is closed or reused under a copied event                     *)
(* (finish_event_batch).                                                   *)
EventsAreCurrent ==
  \A e \in batch : e.fd # 0 =>
    /\ conn[e.fd].peer = e.peer
    /\ e.kind = "PendingReadable" => conn[e.fd].state = "reading"
    /\ e.kind = "StreamWritable" => conn[e.fd].state = "writing"
    /\ e.kind = "Stream" => conn[e.fd].state = "subscribed"

(* The limits hold, and the loop goes to sleep listening exactly when      *)
(* there is room for a handshake (maintain, Subscribers::add).             *)
Backpressure ==
  /\ Cardinality(Pending) <= MaxPending
  /\ Cardinality(Subscribed) <= MaxSubscribers
  /\ pc = "wait" => (listening <=> Cardinality(Pending) < MaxPending)

(* What a peer is told on one connection never goes back to an older       *)
(* status, although the response and the pushes are encoded at different   *)
(* times (queue_response, broadcast).                                      *)
NeverGoesBack ==
  [][\A p \in Peer : peer'[p].at # "away" =>
       peer'[p].last.v >= peer[p].last.v]_vars

(* Whoever connects is accepted or refused in the end, however many        *)
(* handshakes stall (HANDSHAKE_TIMEOUT, enable_listener).                  *)
Accepted == \A p \in Peer : peer[p].at = "backlog" ~> peer[p].at # "backlog"

(* A subscriber that missed a change while it was being answered is told   *)
(* or dropped in the end, without any help from the peer (broadcast,       *)
(* SUBSCRIBER_HEARTBEAT).                                                  *)
IsSubscribed(p) == \E f \in Subscribed : conn[f].peer = p

Told(p) == Newest(peer[p]).v = status

Converges == \A p \in Peer : IsSubscribed(p) ~> (Told(p) \/ ~ IsSubscribed(p))

-----------------------------------------------------------------------------
(* The inductive invariant                                                 *)

(* A descriptor waits for exactly the readiness its state calls for: a     *)
(* request, room for the rest of a response, the end of a subscriber. A    *)
(* missing filter leaves a peer hanging until its deadline, a left-over    *)
(* one spins the loop.                                                     *)
FiltersMatch(c) ==
  /\ c.read = "pending" <=> c.state = "reading"
  /\ c.read = "stream" <=> c.state = "subscribed"
  /\ c.write <=> c.state = "writing"

(* What connection c is about to write fits what its peer x was sent.      *)
Serves(c, x, now) ==
  /\ x.at = "connected"
  /\ c.state = "reading" => x.wire = <<>> /\ x.last = Away.last
  /\ c.state = "writing" => /\ Follows(Newest(x), c.rest)
                            /\ Newest(x).v <= c.rest.v /\ c.rest.v <= now
  /\ c.state = "subscribed" => Newest(x).k = LineUnits

(* What a peer was sent is in the order of lines and of statuses.          *)
InOrder(x, now) ==
  /\ \A i \in 1..Len(x.wire) : /\ Follows(Before(x, i), x.wire[i])
                              /\ Before(x, i).v <= x.wire[i].v
  /\ Newest(x).v <= now

(* Nothing was exchanged with a peer that was not accepted.                *)
Unheard(x) == x.at # "connected" => x = [Away EXCEPT !.at = x.at]

(* A peer has one connection or one place in the backlog.                  *)
Owned ==
  /\ \A f \in Fd : conn[f].peer = NoPeer <=> conn[f].state = "free"
  /\ \A f, g \in Fd : conn[f].peer = conn[g].peer /\ conn[f].peer # NoPeer
                      => f = g
  /\ \A i \in 1..Len(backlog) : peer[backlog[i]].at = "backlog"
  /\ \A i, j \in 1..Len(backlog) : backlog[i] = backlog[j] => i = j

IInv ==
  /\ TypeOK
  /\ Owned
  /\ \A f \in Fd : FiltersMatch(conn[f])
  /\ \A f \in Fd : conn[f].state # "free" =>
       Serves(conn[f], peer[conn[f].peer], status)
  /\ \A p \in Peer : InOrder(peer[p], status)
  /\ \A p \in Peer : Unheard(peer[p])
  /\ pc # "dispatch" => batch = {}
  /\ EventsAreCurrent
=============================================================================
