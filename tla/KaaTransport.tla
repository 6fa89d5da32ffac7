---------------------------- MODULE KaaTransport ----------------------------
(***************************************************************************)
(* The transport of a Kaa endpoint: the bootstrap channel, the operations  *)
(* channel, the bootstrap manager that hands them access points, the       *)
(* event loop of the demo applications that drives them, and the kernel    *)
(* and servers at the other end of the sockets.                            *)
(*                                                                         *)
(* Everything runs on one thread.  A handler may call, synchronously, from *)
(* one channel through the bootstrap manager into the other channel; such  *)
(* a call chain is one step.  It is written with operators from system     *)
(* record to system record:                                                *)
(*   ch       the two channels            boot     index of the bootstrap AP *)
(*   current  the operations AP in use (NoList: no list, NOps + 1: the     *)
(*            list is used up)            err      the return code # NONE  *)
(*   owed     ghost: services the application asked to sync and whose data *)
(*            no server has received since                                 *)
(*   used     the faults, of those chosen for the step, that struck        *)
(***************************************************************************)
EXTENDS TcpChannel, FiniteSets, SequencesExt

CONSTANTS NBoot, NOps,        \* access points in the client's and in the server's list
          StartServices,      \* services the application syncs before kaa_start
          InputServices,      \* services that application code syncs on its own
          CallbackServices,   \* services that callbacks of a server sync ask to sync again
          AsyncDns,           \* gethostbyaddr answers through its callbacks
          FaultKinds,         \* what may go wrong, at most MaxFaults times
          MaxFaults, MaxSyncs, MaxPings, MaxPushes, MaxLogTimeouts

ASSUME TransportAssumption ==
  /\ NBoot \in Nat \ {0} /\ NOps \in Nat \ {0}
  /\ StartServices \subseteq OpsServices
  /\ InputServices \subseteq OpsServices
  /\ CallbackServices \subseteq OpsServices
  /\ AsyncDns \in BOOLEAN
  /\ FaultKinds \subseteq {"open", "dns", "write", "busy", "refuse", "close",
                           "disconnect", "garbage", "reject", "empty"}
  /\ MaxFaults \in Nat /\ MaxSyncs \in Nat /\ MaxPings \in Nat /\ MaxPushes \in Nat /\ MaxLogTimeouts \in Nat

VARIABLES chan,       \* the two channels
          current,    \* operations_access_points->current_access_points
          bootIndex,  \* bootstrap_access_points->index
          owed,       \* ghost, see above
          todo,       \* what is left of this turn of the event loop
          parse,      \* messages left of the buffer being parsed, and its channel
          faults, syncs, pings, pushes, logTimeouts  \* budgets

vars == <<chan, current, bootIndex, owed, todo, parse, faults, syncs, pings, pushes, logTimeouts>>
budgets == <<faults, syncs, pings, pushes, logTimeouts>>

NoList == 0
Idle == [c |-> "boot", msgs |-> <<>>]
Event(c, op) == [c |-> c, op |-> op]
-----------------------------------------------------------------------------
(* Bootstrap manager and the channel functions that call it. *)

System == [ch |-> chan, current |-> current, boot |-> bootIndex,
           owed |-> owed, err |-> FALSE, used |-> {}]

Put(s, c, x)   == [s EXCEPT !.ch[c] = x, !.err = FALSE]
Fail(s)        == [s EXCEPT !.err = TRUE]
Strikes(s, f, e) == [s EXCEPT !.used = @ \cup ({f} \cap e)]

Connect(s, c, e) ==
  LET ok == <<"open", c>> \notin e
  IN  [Strikes(Put(s, c, ConnectAccessPoint(s.ch[c], ok)), <<"open", c>>, e)
        EXCEPT !.err = ~ok]

(* Mutant: the index runs off the end of the list. *)
BootstrapFailedPastEnd(s) ==
  LET next == IF s.boot <= NBoot THEN s.boot + 1 ELSE 1
  IN  [Put(s, "boot", SetAccessPoint(s.ch["boot"], next)) EXCEPT !.boot = next]

(* The list of bootstrap access points is circular. *)
BootstrapFailed(s) ==
  LET next == IF s.boot < NBoot THEN s.boot + 1 ELSE 1
  IN  [Put(s, "boot", SetAccessPoint(s.ch["boot"], next)) EXCEPT !.boot = next]

TrySync(s, c, svcs, e) ==
  LET s1 == Put(s, c, UpdatePending(s.ch[c], svcs))
  IN  IF NeedsConnection(s1.ch[c]) THEN Connect(s1, c, e) ELSE s1

BootstrapSync(s, e) ==
  LET s1 == TrySync(s, "boot", {"bootstrap"}, e)
  IN  IF s1.err THEN BootstrapFailed(s1) ELSE s1

(* Mutant: at the end of the list nobody asks for a new one. *)
OperationsFailedQuietly(s, e) ==
  IF s.current = NoList THEN Fail(s)
  ELSE IF s.current < NOps
  THEN [Put(s, "ops", SetAccessPoint(s.ch["ops"], s.current + 1)) EXCEPT !.current = @ + 1]
  ELSE Fail([s EXCEPT !.current = NOps + 1])

(* The next operations access point, or a new list from a bootstrap server. *)
OperationsFailed(s, e) ==
  IF s.current = NoList THEN Fail(s)
  ELSE IF s.current < NOps
  THEN [Put(s, "ops", SetAccessPoint(s.ch["ops"], s.current + 1)) EXCEPT !.current = @ + 1]
  ELSE Fail(BootstrapSync([s EXCEPT !.current = NOps + 1], e))

AccessPointFailed(s, c, e) ==
  IF c = "boot" THEN BootstrapFailed(s) ELSE OperationsFailed(s, e)

OperationsSync(s, svcs, e) ==
  LET s1 == TrySync([s EXCEPT !.owed = @ \cup svcs], "ops", svcs, e)
  IN  IF s1.err THEN OperationsFailed(s1, e) ELSE s1

SocketIoError(s, c, e) ==
  LET s1 == Put(s, c, CloseSocket(s.ch[c]))
      s2 == IF s.ch[c].sync = "STARTED" THEN AccessPointFailed(s1, c, e) ELSE s1
  IN  [s2 EXCEPT !.ch[c] = ResetChannel(@)]

(* A write that takes nothing frees nothing, which the buffer reports as an *)
(* error; a write to a closed descriptor or a broken connection is an I/O  *)
(* error.                                                                  *)
WriteBuffer(s, c, e) ==
  LET ch == s.ch[c] IN
  IF ch.out = <<>> THEN Put(s, c, ch)
  ELSE IF ~FdOpen(ch) THEN SocketIoError(s, c, e)
  ELSE IF <<"write", c>> \in e THEN SocketIoError(Strikes(s, <<"write", c>>, e), c, e)
  ELSE IF <<"busy", c>> \in e THEN Fail(Strikes(s, <<"busy", c>>, e))
  ELSE Put(s, c, Transmit(ch))

WritePending(s, c, svcs, e) ==
  LET s1 == Put(s, c, QueueSync(s.ch[c], svcs))
  IN  IF HasRoom(s.ch[c]) THEN WriteBuffer(s1, c, e) ELSE Fail(s1)

ChannelAuthorize(s, c) ==
  [Put(s, c, Authorize(s.ch[c], c)) EXCEPT !.err = AuthorizeFails(s.ch[c])]

(* A resolved address is dialled at once; failing that, the next one is up. *)
Dial(s, c, addr, e) ==
  LET s1 == Connect(Put(s, c, [s.ch[c] EXCEPT !.ap = "RESOLVED", !.addr = addr]), c, e)
  IN  IF s1.err THEN AccessPointFailed(s1, c, e) ELSE s1

(* Mutants: an address once resolved is dialled ever after; the resolver is *)
(* asked again while it works.                                             *)
ResolveOnce(s, c, e) ==
  LET ch == s.ch[c] IN
  IF ch.addr = 0 /\ AsyncDns
  THEN Put(s, c, [ch EXCEPT !.ap = "IN_PROGRESS", !.queries = Append(@, ch.id)])
  ELSE Dial(s, c, IF ch.addr = 0 THEN ch.id ELSE ch.addr, e)
ResolveAgain(s, c, e) == Put(s, c, [s.ch[c] EXCEPT !.queries = Append(@, s.ch[c].id)])

Resolve(s, c, e) ==
  LET ch == s.ch[c] IN
  IF AsyncDns THEN
    Put(s, c, [ch EXCEPT !.ap = "IN_PROGRESS", !.queries = Append(@, ch.id)])
  ELSE IF <<"dns", c>> \in e THEN
    AccessPointFailed(Strikes(Put(s, c, [ch EXCEPT !.ap = "NOT_SET"]), <<"dns", c>>, e), c, e)
  ELSE Dial(s, c, ch.id, e)

(* kaa_tcp_channel_check_keepalive: resolves a new access point, else sends *)
(* a ping when one is due.                                                 *)
CheckKeepalive(s, c, e) ==
  LET ch == s.ch[c] IN
  IF ch.ap = "SET" THEN Resolve(s, c, e)
  ELSE IF ch.state = "AUTHORIZED" /\ ch.due THEN
    [Put(s, c, Ping(ch)) EXCEPT !.err = ~HasRoom(ch)]
  ELSE Put(s, c, ch)

(* A new list of operations access points; the first is set at once.       *)
NewOperationsList(s, empty) ==
  IF empty THEN [s EXCEPT !.current = NoList]
  ELSE [Put(s, "ops", SetAccessPoint(s.ch["ops"], 1)) EXCEPT !.current = 1]
-----------------------------------------------------------------------------
(* process_event: a keepalive check that fails ends it. *)

(* The part of FD_WRITE on a connected channel after its buffer is written. *)
AfterWrite(s, c, e) ==
  LET ch == s.ch[c] IN
  IF ch.state = "DISCONNECTING" THEN
    IF ch.out = <<>> THEN SocketIoError(s, c, e) ELSE s
  ELSE IF ch.pending = {} THEN s
  ELSE IF c = "boot" THEN WritePending(s, c, {"bootstrap"}, e)
  ELSE IF ch.state = "AUTHORIZED" THEN WritePending(s, c, ch.pending, e)
  ELSE ChannelAuthorize(s, c)

ProcessWrite(s, c, e) ==
  LET ch == s.ch[c] IN
  IF ch.ap = "CONNECTING" THEN
    CASE ch.sock.st = "refused" -> SocketIoError(s, c, e)
      [] ch.sock.st \in {"up", "closed"} ->
           ChannelAuthorize(Put(s, c, [ch EXCEPT !.ap = "CONNECTED"]), c)
      [] OTHER -> s
  ELSE IF ch.ap = "CONNECTED" THEN
    LET s1 == WriteBuffer(s, c, e)
    IN  IF s1.err THEN s1 ELSE AfterWrite(s1, c, e)
  ELSE s

(* A read that returns no data: the connection is closed, or select spoke  *)
(* of an earlier one.                                                      *)
ProcessEmptyRead(s, c, e) ==
  LET ch == s.ch[c] IN
  IF ch.ap # "CONNECTED" THEN s
  ELSE IF ch.sock.st = "closed" THEN SocketIoError(s, c, e)
  ELSE Fail(s)

(* The parser's message callbacks.  again: the services that the callbacks *)
(* of an operations sync ask to sync again.                                *)
ProcessMessage(s, c, m, again, e) ==
  LET ch == s.ch[c] IN
  CASE m = "CONNACK" /\ ch.state = "AUTHORIZING" ->
         Put(s, c, [ch EXCEPT !.state = "AUTHORIZED", !.due = FALSE])
    [] m \in {"CONNACK", "REFUSED"} /\ ~(m = "CONNACK" /\ ch.state = "AUTHORIZING") ->
         SocketIoError(s, c, e)
    [] m \in {"KAASYNC", "EMPTY"} /\ c = "boot" ->
         LET s1 == NewOperationsList(s, m = "EMPTY")
         IN  Put(s1, c, DisconnectInternal([s1.ch[c] EXCEPT !.sync = "FINISHED"]))
    [] m \in {"KAASYNC", "EMPTY"} /\ c = "ops" ->
         IF again = {} THEN s ELSE OperationsSync(s, again, e)
    [] m = "DISCONNECT" -> SocketIoError(Put(s, c, [ch EXCEPT !.sync = "STARTED"]), c, e)
    [] m \in {"INTERNAL_ERROR", "GARBAGE"} -> SocketIoError(s, c, e)
    [] m = "PINGRESP" -> s
-----------------------------------------------------------------------------
(* Steps of the event loop. *)

(* The faults that may strike in one handler of channel c. *)
FaultsOf(c) ==
  {<<k, x>> : k \in FaultKinds \cap {"open"}, x \in {c, "boot"}}
    \cup {<<k, c>> : k \in FaultKinds \cap {"dns", "write", "busy"}}

FaultChoices(c) == {e \in SUBSET FaultsOf(c) : Cardinality(e) <= faults}

(* The step ends in system s; the faults chosen are those that struck.     *)
Commit(s, e) ==
  /\ s.used = e
  /\ chan' = s.ch
  /\ current' = s.current
  /\ bootIndex' = s.boot
  /\ owed' = s.owed
  /\ faults' = faults - Cardinality(e)

(* select(): all that is ready, in the order in which the loop handles it,  *)
(* or, when nothing is, a timeout.                                         *)
IsReady(c, op) ==
  IF op = "READ" THEN IsReadyRead(chan[c]) /\ Readable(chan[c])
                 ELSE IsReadyWrite(chan[c]) /\ Writable(chan[c])

IfReady(c, op) == IF IsReady(c, op) THEN <<Event(c, op)>> ELSE <<>>

Ready == IfReady("boot", "READ") \o IfReady("boot", "WRITE")
           \o IfReady("ops", "READ") \o IfReady("ops", "WRITE")

Timeout == <<Event("ops", "KEEPALIVE"), Event("boot", "KEEPALIVE")>>

LoopIdle == todo = <<>> /\ parse.msgs = <<>>
Turn(op) == parse.msgs = <<>> /\ todo # <<>> /\ Head(todo).op = op

Select ==
  /\ LoopIdle
  /\ todo' = Append(IF Ready = <<>> THEN Timeout ELSE Ready, Event("ops", "INPUT"))
  /\ UNCHANGED <<chan, current, bootIndex, owed, parse, budgets>>

Keepalive ==
  /\ Turn("KEEPALIVE")
  /\ LET c == Head(todo).c
     IN  \E e \in FaultChoices(c) : Commit(CheckKeepalive(System, c, e), e)
  /\ todo' = Tail(todo)
  /\ UNCHANGED <<parse, syncs, pings, pushes, logTimeouts>>

ReadEvent ==
  /\ Turn("READ")
  /\ LET c == Head(todo).c IN
     \E e \in FaultChoices(c) :
       LET s1 == CheckKeepalive(System, c, e)
           arrived == s1.ch[c].sock.s2c
       IN  IF ~s1.err /\ s1.ch[c].ap = "CONNECTED" /\ arrived # <<>>
           THEN \E n \in 1..Len(arrived) :
                  LET ch == Receive(s1.ch[c], n)
                  IN  /\ Commit(Put(s1, c, ch), e)
                      /\ parse' = [c |-> c, msgs |-> ch.inbuf]
           ELSE /\ Commit(IF s1.err THEN s1 ELSE ProcessEmptyRead(s1, c, e), e)
                /\ parse' = Idle
  /\ todo' = Tail(todo)
  /\ UNCHANGED <<syncs, pings, pushes, logTimeouts>>

(* One message of the buffer.  The last one frees the buffer if the channel *)
(* is still connected; a malformed one ends the parsing.                   *)
ParseMessage ==
  /\ parse.msgs # <<>>
  /\ LET c == parse.c
         m == Head(parse.msgs)
         last == m = "GARBAGE" \/ Len(parse.msgs) = 1
     IN  \E e \in FaultChoices(c),
            again \in {{}} \cup {{x} : x \in IF syncs < MaxSyncs THEN CallbackServices ELSE {}} :
           LET s1 == ProcessMessage(System, c, m, again, e)
               free == last /\ m # "GARBAGE" /\ s1.ch[c].ap = "CONNECTED"
           IN  /\ again # {} => c = "ops" /\ m = "KAASYNC"
               /\ Commit(IF free THEN [s1 EXCEPT !.ch[c].inbuf = <<>>] ELSE s1, e)
               /\ parse' = IF last THEN Idle ELSE [parse EXCEPT !.msgs = Tail(@)]
               /\ syncs' = syncs + Cardinality(again)
  /\ UNCHANGED <<todo, pings, pushes, logTimeouts>>

WriteEvent ==
  /\ Turn("WRITE")
  /\ LET c == Head(todo).c IN
     \E e \in FaultChoices(c) :
       LET s1 == CheckKeepalive(System, c, e)
       IN  Commit(IF s1.err THEN s1 ELSE ProcessWrite(s1, c, e), e)
  /\ todo' = Tail(todo)
  /\ UNCHANGED <<parse, syncs, pings, pushes, logTimeouts>>

(* The application's part of a turn: nothing, a sync of some service, or   *)
(* the upload strategy giving up on the operations server it waits for.    *)
NoInput ==
  /\ Turn("INPUT")
  /\ todo' = Tail(todo)
  /\ UNCHANGED <<chan, current, bootIndex, owed, parse, budgets>>

InputSync ==
  /\ Turn("INPUT")
  /\ syncs < MaxSyncs
  /\ \E x \in InputServices, e \in FaultChoices("ops") :
       Commit(OperationsSync(System, {x}, e), e)
  /\ syncs' = syncs + 1
  /\ todo' = Tail(todo)
  /\ UNCHANGED <<parse, pings, pushes, logTimeouts>>

(* An add call may find a log delivery late whatever has become of the     *)
(* connection since; the timers themselves are left to LogDelivery.        *)
LogDeliveryTimeout ==
  /\ Turn("INPUT")
  /\ logTimeouts < MaxLogTimeouts
  /\ \E e \in FaultChoices("ops") : Commit(OperationsFailed(System, e), e)
  /\ logTimeouts' = logTimeouts + 1
  /\ todo' = Tail(todo)
  /\ UNCHANGED <<parse, syncs, pings, pushes>>

(* The resolver's callbacks, on a platform that resolves asynchronously.   *)
HostnameResolved(c) ==
  /\ LoopIdle
  /\ \E i \in 1..Len(chan[c].queries), e \in FaultChoices(c) :
       LET asked == [chan[c] EXCEPT !.queries = RemoveAt(@, i)]
       IN  Commit(Dial(Put(System, c, asked), c, chan[c].queries[i], e), e)
  /\ UNCHANGED <<todo, parse, syncs, pings, pushes, logTimeouts>>

HostnameResolveFailed(c) ==
  /\ LoopIdle
  /\ "dns" \in FaultKinds /\ faults > 0
  /\ \E i \in 1..Len(chan[c].queries) :
       chan' = [chan EXCEPT ![c].queries = RemoveAt(@, i), ![c].ap = "NOT_SET"]
  /\ faults' = faults - 1
  /\ UNCHANGED <<current, bootIndex, owed, todo, parse, syncs, pings, pushes, logTimeouts>>

(* Half a keepalive interval has passed since the last ping. *)
PingDue(c) ==
  /\ pings < MaxPings
  /\ chan[c].state = "AUTHORIZED"
  /\ chan' = [chan EXCEPT ![c].due = TRUE]
  /\ pings' = pings + 1
  /\ UNCHANGED <<current, bootIndex, owed, todo, parse, faults, syncs, pushes, logTimeouts>>
-----------------------------------------------------------------------------
(* Kernel and servers. *)

Peer(c, sock) == chan' = [chan EXCEPT ![c].sock = sock]

Accept(c) ==
  /\ chan[c].sock.st = "syn"
  /\ Peer(c, [chan[c].sock EXCEPT !.st = "up"])
  /\ UNCHANGED <<current, bootIndex, owed, todo, parse, budgets>>

(* The services of a message, unless asked for again or also on the way in *)
(* a later message.                                                        *)
Delivered(ch) ==
  LET later == Tail(ch.sock.c2s) \o ch.out
  IN  {x \in Head(ch.sock.c2s).svcs :
         x \notin ch.pending /\ \A i \in 1..Len(later) : x \notin later[i].svcs}

(* The server answers only on a connection that began with a CONNECT. *)
Answer(sock, m, reply) ==
  LET rest == [sock EXCEPT !.c2s = Tail(@)]
  IN  IF m.type = "DISCONNECT" THEN [rest EXCEPT !.st = "closed"]
      ELSE [rest EXCEPT !.session = reply # <<>> /\ reply # <<"REFUSED">>, !.s2c = @ \o reply]

Serve(c) ==
  /\ chan[c].sock.st = "up" /\ chan[c].sock.c2s # <<>>
  /\ LET sock == chan[c].sock
         m    == Head(sock.c2s)
     IN  Peer(c, Answer(sock, m, CASE m.type = "CONNECT" -> <<"CONNACK", "KAASYNC">>
                                   [] sock.session /\ m.type = "KAASYNC" -> <<"KAASYNC">>
                                   [] sock.session /\ m.type = "PING" -> <<"PINGRESP">>
                                   [] OTHER -> <<>>))
         /\ owed' = IF c = "ops" /\ (sock.session \/ m.type = "CONNECT")
                    THEN owed \ Delivered(chan[c]) ELSE owed
  /\ UNCHANGED <<current, bootIndex, todo, parse, budgets>>

(* An operations server syncs on its own: an event for this endpoint. *)
Push ==
  /\ pushes < MaxPushes
  /\ chan["ops"].sock.st = "up" /\ chan["ops"].sock.session
  /\ Peer("ops", [chan["ops"].sock EXCEPT !.s2c = Append(@, "KAASYNC")])
  /\ pushes' = pushes + 1
  /\ UNCHANGED <<current, bootIndex, owed, todo, parse, faults, syncs, pings, logTimeouts>>

(* The server refuses the CONNECT, or has no operations server to name.    *)
ServeBadly(c) ==
  /\ faults > 0
  /\ chan[c].sock.st = "up" /\ chan[c].sock.c2s # <<>>
  /\ LET sock == chan[c].sock
         m    == Head(sock.c2s)
     IN  /\ m.type = "CONNECT"
         /\ \/ "reject" \in FaultKinds /\ Peer(c, Answer(sock, m, <<"REFUSED">>))
            \/ "empty" \in FaultKinds /\ c = "boot"
                 /\ Peer(c, Answer(sock, m, <<"CONNACK", "EMPTY">>))
  /\ faults' = faults - 1
  /\ UNCHANGED <<current, bootIndex, owed, todo, parse, syncs, pings, pushes, logTimeouts>>

(* The connection is refused, lost, closed with a DISCONNECT, or garbled.  *)
PeerFault(c) ==
  /\ faults > 0
  /\ LET sock == chan[c].sock IN
     \/ /\ "refuse" \in FaultKinds /\ sock.st = "syn"
        /\ Peer(c, [sock EXCEPT !.st = "refused"])
     \/ /\ "close" \in FaultKinds /\ sock.st = "up"
        /\ Peer(c, [sock EXCEPT !.st = "closed"])
     \/ /\ "disconnect" \in FaultKinds /\ sock.st = "up"
        /\ \E m \in {"DISCONNECT", "INTERNAL_ERROR"} :
             Peer(c, [sock EXCEPT !.st = "closed", !.s2c = Append(@, m)])
     \/ /\ "garbage" \in FaultKinds /\ sock.st = "up"
        /\ Peer(c, [sock EXCEPT !.s2c = Append(@, "GARBAGE")])
  /\ faults' = faults - 1
  /\ UNCHANGED <<current, bootIndex, owed, todo, parse, syncs, pings, pushes, logTimeouts>>
-----------------------------------------------------------------------------
(* After kaa_init (init_channel gives the bootstrap channel its first      *)
(* access point) and kaa_start.                                            *)
Init ==
  /\ chan = [boot |-> UpdatePending(SetAccessPoint(NewChannel, 1), {"bootstrap"}),
             ops  |-> UpdatePending(NewChannel, StartServices)]
  /\ current = NoList
  /\ bootIndex = 1
  /\ owed = StartServices
  /\ todo = <<>>
  /\ parse = Idle
  /\ faults = MaxFaults /\ syncs = 0 /\ pings = 0 /\ pushes = 0 /\ logTimeouts = 0

EventLoop == Select \/ Keepalive \/ ReadEvent \/ ParseMessage \/ WriteEvent
               \/ NoInput \/ InputSync \/ LogDeliveryTimeout

Environment ==
  \/ Push
  \/ \E c \in Channels : \/ HostnameResolved(c) \/ HostnameResolveFailed(c) \/ PingDue(c)
                         \/ Accept(c) \/ Serve(c) \/ ServeBadly(c) \/ PeerFault(c)

Next == EventLoop \/ Environment

Spec == Init /\ [][Next]_vars

(* The loop keeps turning, and connections, servers and the resolver       *)
(* answer in the end unless a fault stops them.                            *)
Fairness ==
  /\ WF_vars(EventLoop)
  /\ \A c \in Channels : WF_vars(Accept(c)) /\ WF_vars(Serve(c)) /\ SF_vars(HostnameResolved(c))

FairSpec == Spec /\ Fairness
-----------------------------------------------------------------------------
TypeOK ==
  /\ chan \in [Channels -> ChannelRecords]
  /\ current \in 0..(NOps + 1) /\ bootIndex \in 1..NBoot
  /\ owed \subseteq OpsServices
  /\ todo \in Seq([c : Channels, op : {"READ", "WRITE", "KEEPALIVE", "INPUT"}])
  /\ parse \in [c : Channels, msgs : Seq(ServerMsgs)]
  /\ faults \in Nat /\ syncs \in Nat /\ pings \in Nat /\ pushes \in Nat /\ logTimeouts \in Nat

(* A descriptor is open exactly while the access point is connecting or    *)
(* connected, and none is overwritten or dropped while open.               *)
NoDescriptorLeak ==
  \A c \in Channels : /\ FdOpen(chan[c]) <=> chan[c].ap \in {"CONNECTING", "CONNECTED"}
                      /\ ~chan[c].leaked

(* A connection goes to the access point the channel was last given.       *)
DialsChosenAccessPoint ==
  \A c \in Channels : FdOpen(chan[c]) => chan[c].sock.peer = chan[c].id

(* A channel that believes it is authorized is so on its present           *)
(* connection: the server has accepted a CONNECT on it.                    *)
AuthorizedOnThisConnection ==
  \A c \in Channels :
    chan[c].state = "AUTHORIZED" =>
      chan[c].ap = "CONNECTED" /\ (chan[c].sock.st # "none" => chan[c].sock.session)

(* What the server receives first on a connection is a CONNECT. *)
ConnectComesFirst ==
  \A c \in Channels :
    chan[c].sock.c2s # <<>> /\ ~chan[c].sock.session => Head(chan[c].sock.c2s).type = "CONNECT"

(* On an authorized channel a service that the application asked to sync   *)
(* is still pending or on its way.                                         *)
NoForgottenRequest ==
  LET ch == chan["ops"]
      way == ch.sock.c2s \o ch.out
  IN  ch.state = "AUTHORIZED" =>
        \A x \in owed : x \in ch.pending \/ \E i \in 1..Len(way) : x \in way[i].svcs

Online == chan["ops"].state = "AUTHORIZED" /\ chan["ops"].ap = "CONNECTED" /\ chan["ops"].sock.session

(* Once the faults are over the endpoint gets, and stays, connected. *)
EventuallyOnline == <>[]Online

(* A list that is used up is replaced by a new one. *)
UsedUpListIsRenewed == current = NOps + 1 ~> current # NOps + 1

(* A channel whose connection is established starts authorization. *)
ConnectionStartsAuthorization ==
  [][\A c \in Channels :
       chan[c].ap = "CONNECTING" /\ chan'[c].ap = "CONNECTED" =>
         \E i \in 1..Len(chan'[c].out) : chan'[c].out[i].type = "CONNECT"]_vars

(* Every service asked for is synced in the end. *)
RequestsServed == \A x \in OpsServices : x \in owed ~> x \notin owed
=============================================================================
