------------------------- MODULE KaaTransportProofs -------------------------
(***************************************************************************)
(* The safety of KaaTransport.                                             *)
(*                                                                         *)
(* First what holds of every application under every fault: the type, and  *)
(* that no descriptor leaks when host names are resolved synchronously.    *)
(* The inductive invariant is TypeOK with, for each channel, Tight: the    *)
(* descriptor is open exactly in the two states of the access point in     *)
(* which release_access_point would close it.                              *)
(*                                                                         *)
(* Then the bot.  The inductive invariant, Orderly, says in which stage    *)
(* each connection is (Session), that the bootstrap channel has one        *)
(* request for a list at most (Single), that the two channels take turns   *)
(* (Handover) and that what is owed is on its way (Covered).               *)
(*                                                                         *)
(* A step is a call chain, so both proofs go along it: what every operator *)
(* does to a channel, then to a system, and at last what each action does  *)
(* to the state.                                                           *)
(***************************************************************************)
EXTENDS KaaTransport, FiniteSetTheorems, TLAPS

Tight(ch) ==
  /\ FdOpen(ch) <=> ch.ap \in {"CONNECTING", "CONNECTED"}
  /\ ~ch.leaked
  /\ ch.queries = <<>>

Good(ch) == AsyncDns \/ Tight(ch)

GoodChannels == {ch \in ChannelRecords : Good(ch)}
-----------------------------------------------------------------------------
(* Channels: what each operator of TcpChannel preserves. *)

LEMMA NoSocketType == NoSocket \in Sockets /\ NoSocket.st = "none"
  BY DEF NoSocket, Sockets

LEMMA ConstantTypes ==
  /\ NBoot \in Nat \ {0} /\ NOps \in Nat \ {0}
  /\ InputServices \subseteq OpsServices /\ CallbackServices \subseteq OpsServices
  /\ StartServices \subseteq OpsServices
  BY TransportAssumption DEF TransportAssumption

LEMMA ChannelNames == "boot" \in Channels /\ "ops" \in Channels
  BY DEF Channels

LEMMA EmptySeqType == <<>> \in Seq(ServerMsgs) /\ <<>> \in Seq(ClientMsgs)
  OBVIOUS

LEMMA MsgType == ASSUME NEW svcs \in SUBSET Services,
                        NEW t \in {"CONNECT", "KAASYNC", "PING", "DISCONNECT"}
                 PROVE  Msg(t, svcs) \in ClientMsgs
  BY DEF Msg, ClientMsgs

LEMMA ReleaseGood ==
  ASSUME NEW ch \in GoodChannels
  PROVE  ReleaseAccessPoint(ch) \in GoodChannels /\ ~FdOpen(ReleaseAccessPoint(ch))
  <1>1. ReleaseAccessPoint(ch) \in ChannelRecords
    BY NoSocketType DEF GoodChannels, ReleaseAccessPoint, ChannelRecords, APStates
  <1>2. ASSUME Tight(ch) PROVE Tight(ReleaseAccessPoint(ch))
    BY <1>2, NoSocketType DEF GoodChannels, ReleaseAccessPoint, ChannelRecords, APStates, Tight, FdOpen
  <1>3. ~FdOpen(ReleaseAccessPoint(ch))
    BY NoSocketType DEF GoodChannels, ReleaseAccessPoint, ChannelRecords, FdOpen
  <1>4. QED BY <1>1, <1>2, <1>3 DEF GoodChannels, Good

LEMMA SetAccessPointGood ==
  ASSUME NEW ch \in GoodChannels, NEW id \in Nat
  PROVE  SetAccessPoint(ch, id) \in GoodChannels
  <1> DEFINE r == IF ch.ap # "NOT_SET" THEN ReleaseAccessPoint(ch) ELSE ch
  <1>1. r \in GoodChannels /\ (Tight(ch) => ~FdOpen(r))
    BY ReleaseGood DEF GoodChannels, Tight
  <1>2. SetAccessPoint(ch, id) = [r EXCEPT !.ap = "SET", !.id = id]
    BY DEF SetAccessPoint
  <1> HIDE DEF r
  <1>3. SetAccessPoint(ch, id) \in ChannelRecords
    BY <1>1, <1>2 DEF GoodChannels, ChannelRecords, APStates
  <1>4. ASSUME Tight(ch), Tight(r) PROVE Tight(SetAccessPoint(ch, id))
    BY <1>1, <1>2, <1>4 DEF GoodChannels, ChannelRecords, Tight, FdOpen
  <1>5. QED BY <1>1, <1>3, <1>4 DEF GoodChannels, Good

LEMMA ConnectGood ==
  ASSUME NEW ch \in GoodChannels, NEW ok \in BOOLEAN,
         ch.ap \notin {"CONNECTING", "CONNECTED"} \/ AsyncDns
  PROVE  ConnectAccessPoint(ch, ok) \in GoodChannels
  <1> DEFINE sock == [NoSocket EXCEPT !.st = "syn", !.peer = ch.addr]
  <1>1. sock \in Sockets /\ sock.st = "syn"
    BY NoSocketType, ch.addr \in Nat DEF Sockets, GoodChannels, ChannelRecords
  <1>2. ok => ConnectAccessPoint(ch, ok) =
                [ch EXCEPT !.leaked = @ \/ FdOpen(ch), !.sock = sock,
                           !.ap = "CONNECTING", !.sync = "STARTED"]
    BY DEF ConnectAccessPoint
  <1>3. ~ok => ConnectAccessPoint(ch, ok) = ch
    BY DEF ConnectAccessPoint
  <1> HIDE DEF sock
  <1>4. ConnectAccessPoint(ch, ok) \in ChannelRecords
    BY <1>1, <1>2, <1>3 DEF GoodChannels, ChannelRecords, APStates, SyncStates
  <1>5. ASSUME Tight(ch), ~AsyncDns PROVE Tight(ConnectAccessPoint(ch, ok))
    BY <1>1, <1>2, <1>3, <1>5 DEF GoodChannels, ChannelRecords, Tight, FdOpen
  <1>6. QED BY <1>4, <1>5 DEF GoodChannels, Good

LEMMA CloseGood ==
  ASSUME NEW ch \in GoodChannels
  PROVE  CloseSocket(ch) \in GoodChannels
  <1>1. CloseSocket(ch) \in ChannelRecords
    BY NoSocketType DEF GoodChannels, CloseSocket, ChannelRecords, APStates, ChannelStates
  <1>2. ASSUME Tight(ch) PROVE Tight(CloseSocket(ch))
    BY <1>2, NoSocketType DEF GoodChannels, CloseSocket, ChannelRecords, Tight, FdOpen
  <1>3. QED BY <1>1, <1>2 DEF GoodChannels, Good

(* An update that leaves these fields alone keeps a channel tight. *)
LEMMA SameConnection ==
  ASSUME NEW ch \in GoodChannels, NEW x \in ChannelRecords,
         x.ap = ch.ap, x.sock.st = ch.sock.st, x.leaked = ch.leaked, x.queries = ch.queries
  PROVE  x \in GoodChannels
  BY DEF GoodChannels, Good, Tight, FdOpen

LEMMA ResetGood ==
  ASSUME NEW ch \in GoodChannels
  PROVE  ResetChannel(ch) \in GoodChannels
  <1>1. ResetChannel(ch) \in ChannelRecords
    BY EmptySeqType DEF GoodChannels, ResetChannel, ChannelRecords, SyncStates
  <1>2. QED BY <1>1, SameConnection DEF GoodChannels, ResetChannel, ChannelRecords

LEMMA PendingGood ==
  ASSUME NEW ch \in GoodChannels, NEW svcs \in SUBSET Services
  PROVE  UpdatePending(ch, svcs) \in GoodChannels /\ DeletePending(ch, svcs) \in GoodChannels
  <1>1. UpdatePending(ch, svcs) \in ChannelRecords /\ DeletePending(ch, svcs) \in ChannelRecords
    BY DEF GoodChannels, UpdatePending, DeletePending, ChannelRecords
  <1>2. QED BY <1>1, SameConnection DEF GoodChannels, UpdatePending, DeletePending, ChannelRecords

LEMMA QueueGood ==
  ASSUME NEW ch \in GoodChannels, NEW m \in ClientMsgs
  PROVE  Queue(ch, m) \in GoodChannels
  <1>1. Append(ch.out, m) \in Seq(ClientMsgs)
    BY DEF GoodChannels, ChannelRecords
  <1>2. Queue(ch, m) = [ch EXCEPT !.out = Append(ch.out, m)]
    BY DEF Queue
  <1>3. Queue(ch, m) \in ChannelRecords
    BY <1>1, <1>2 DEF GoodChannels, ChannelRecords
  <1>4. QED BY <1>2, <1>3, SameConnection DEF GoodChannels, ChannelRecords

(* Authorizing, syncing, pinging and disconnecting only queue a message and *)
(* change the state of the channel.                                        *)
LEMMA ChangeStateGood ==
  ASSUME NEW ch \in GoodChannels, NEW state \in ChannelStates, NEW sync \in SyncStates,
         NEW due \in BOOLEAN
  PROVE  /\ [ch EXCEPT !.state = state, !.sync = sync] \in GoodChannels
         /\ [ch EXCEPT !.state = state] \in GoodChannels
         /\ [ch EXCEPT !.state = state, !.due = due] \in GoodChannels
         /\ [ch EXCEPT !.sync = sync] \in GoodChannels
         /\ [ch EXCEPT !.due = due] \in GoodChannels
  <1>1. /\ [ch EXCEPT !.state = state, !.sync = sync] \in ChannelRecords
        /\ [ch EXCEPT !.state = state] \in ChannelRecords
        /\ [ch EXCEPT !.state = state, !.due = due] \in ChannelRecords
        /\ [ch EXCEPT !.sync = sync] \in ChannelRecords
        /\ [ch EXCEPT !.due = due] \in ChannelRecords
    BY DEF GoodChannels, ChannelRecords
  <1>2. QED BY <1>1, SameConnection DEF GoodChannels, ChannelRecords

LEMMA RequestsGood ==
  ASSUME NEW ch \in GoodChannels, NEW c \in Channels, NEW svcs \in SUBSET Services
  PROVE  /\ Authorize(ch, c) \in GoodChannels
         /\ QueueSync(ch, svcs) \in GoodChannels
         /\ Ping(ch) \in GoodChannels
         /\ DisconnectInternal(ch) \in GoodChannels
  <1>1. Supported[c] \in SUBSET Services /\ ch.pending \in SUBSET Services /\ {} \in SUBSET Services
    BY DEF Supported, Channels, Services, GoodChannels, ChannelRecords
  <1>2. DeletePending(ch, ch.pending) \in GoodChannels /\ DeletePending(ch, svcs) \in GoodChannels
    BY <1>1, PendingGood
  <1>3. Authorize(ch, c) \in GoodChannels
    <2>1. Queue(DeletePending(ch, ch.pending), Msg("CONNECT", Supported[c])) \in GoodChannels
      BY <1>1, <1>2, MsgType, QueueGood
    <2>2. QED BY <1>2, <2>1, ChangeStateGood DEF Authorize, ChannelStates, SyncStates
  <1>4. QueueSync(ch, svcs) \in GoodChannels
    BY <1>2, MsgType, QueueGood DEF QueueSync
  <1>5. Ping(ch) \in GoodChannels
    <2>1. Queue(ch, Msg("PING", {})) \in GoodChannels
      BY <1>1, MsgType, QueueGood
    <2>2. [Queue(ch, Msg("PING", {})) EXCEPT !.due = FALSE] \in GoodChannels
      BY <2>1, ChangeStateGood DEF ChannelStates, SyncStates
    <2>3. QED BY <2>2 DEF Ping
  <1>6. DisconnectInternal(ch) \in GoodChannels
    <2>1. Queue(ch, Msg("DISCONNECT", {})) \in GoodChannels
      BY <1>1, MsgType, QueueGood
    <2>2. [Queue(ch, Msg("DISCONNECT", {})) EXCEPT !.state = "DISCONNECTING"] \in GoodChannels
      BY <2>1, ChangeStateGood DEF ChannelStates, SyncStates
    <2>3. QED BY <2>2 DEF DisconnectInternal
  <1>7. QED BY <1>3, <1>4, <1>5, <1>6

LEMMA TransmitGood ==
  ASSUME NEW ch \in GoodChannels
  PROVE  Transmit(ch) \in GoodChannels
  <1> DEFINE q == ch.sock.c2s \o ch.out
  <1>1. q \in Seq(ClientMsgs)
    BY DEF GoodChannels, ChannelRecords, Sockets
  <1>2. Transmit(ch) = [ch EXCEPT !.sock.c2s = q, !.out = <<>>]
    BY DEF Transmit
  <1> HIDE DEF q
  <1>3. Transmit(ch) \in ChannelRecords
    BY <1>1, <1>2, EmptySeqType DEF GoodChannels, ChannelRecords, Sockets
  <1>4. QED BY <1>2, <1>3, SameConnection DEF GoodChannels, ChannelRecords, Sockets

LEMMA ReceiveGood ==
  ASSUME NEW ch \in GoodChannels, NEW n \in 1..Len(ch.sock.s2c)
  PROVE  Receive(ch, n) \in GoodChannels
  <1> DEFINE got == ch.inbuf \o SubSeq(ch.sock.s2c, 1, n)
             rest == SubSeq(ch.sock.s2c, n + 1, Len(ch.sock.s2c))
  <1>1. ch.inbuf \in Seq(ServerMsgs) /\ ch.sock.s2c \in Seq(ServerMsgs)
    BY DEF GoodChannels, ChannelRecords, Sockets
  <1>2. got \in Seq(ServerMsgs) /\ rest \in Seq(ServerMsgs)
    BY <1>1
  <1>3. Receive(ch, n) = [ch EXCEPT !.inbuf = got, !.sock.s2c = rest]
    BY DEF Receive
  <1> HIDE DEF got, rest
  <1>4. Receive(ch, n) \in ChannelRecords
    BY <1>2, <1>3 DEF GoodChannels, ChannelRecords, Sockets
  <1>5. QED BY <1>3, <1>4, SameConnection DEF GoodChannels, ChannelRecords, Sockets
-----------------------------------------------------------------------------
(* Systems: what each operator of KaaTransport preserves. *)

Faults == {"open", "dns", "write", "busy"} \X Channels

GoodSystems ==
  [ch : [Channels -> GoodChannels], current : 0..(NOps + 1), boot : 1..NBoot,
   owed : SUBSET OpsServices, err : BOOLEAN, used : SUBSET Faults]

(* Nothing to close: an access point may be dialled without losing a socket. *)
MayDial(ch) == AsyncDns \/ ch.ap \notin {"CONNECTING", "CONNECTED"}

LEMMA ChGood ==
  ASSUME NEW s \in GoodSystems, NEW c \in Channels
  PROVE  s.ch[c] \in GoodChannels /\ s.ch[c] \in ChannelRecords
  BY DEF GoodSystems, GoodChannels

LEMMA ReplaceGood ==
  ASSUME NEW s \in GoodSystems, NEW c \in Channels, NEW x \in GoodChannels
  PROVE  [s EXCEPT !.ch[c] = x] \in GoodSystems
  BY DEF GoodSystems

LEMMA PutGood ==
  ASSUME NEW s \in GoodSystems, NEW c \in Channels, NEW x \in GoodChannels
  PROVE  /\ Put(s, c, x) \in GoodSystems
         /\ Put(s, c, x).ch[c] = x
         /\ Put(s, c, x).used = s.used
  BY DEF GoodSystems, Put

LEMMA FailGood == ASSUME NEW s \in GoodSystems, NEW b \in BOOLEAN
                  PROVE  Fail(s) \in GoodSystems /\ [s EXCEPT !.err = b] \in GoodSystems
  BY DEF GoodSystems, Fail

LEMMA StrikesGood ==
  ASSUME NEW s \in GoodSystems, NEW f \in Faults, NEW e
  PROVE  Strikes(s, f, e) \in GoodSystems /\ Strikes(s, f, e).ch = s.ch
  <1>1. s.used \cup ({f} \cap e) \in SUBSET Faults
    BY DEF GoodSystems
  <1>2. QED BY <1>1 DEF GoodSystems, Strikes

LEMMA FaultType ==
  ASSUME NEW c \in Channels, NEW k \in {"open", "dns", "write", "busy"}
  PROVE  <<k, c>> \in Faults
  BY DEF Faults

LEMMA CurrentGood ==
  ASSUME NEW s \in GoodSystems, NEW i \in 0..(NOps + 1)
  PROVE  [s EXCEPT !.current = i] \in GoodSystems
  BY DEF GoodSystems

LEMMA SystemConnectGood ==
  ASSUME NEW s \in GoodSystems, NEW c \in Channels, NEW e, MayDial(s.ch[c])
  PROVE  Connect(s, c, e) \in GoodSystems
  <1> DEFINE ok == <<"open", c>> \notin e
             s1 == Put(s, c, ConnectAccessPoint(s.ch[c], ok))
             s2 == Strikes(s1, <<"open", c>>, e)
  <1>1. ConnectAccessPoint(s.ch[c], ok) \in GoodChannels
    BY ChGood, ConnectGood DEF MayDial
  <1>2. s1 \in GoodSystems
    BY <1>1, PutGood
  <1>3. s2 \in GoodSystems
    BY <1>2, FaultType, StrikesGood
  <1>4. [s2 EXCEPT !.err = ~ok] \in GoodSystems
    BY <1>3, FailGood
  <1>5. QED BY <1>4 DEF Connect

LEMMA BootstrapFailedGood ==
  ASSUME NEW s \in GoodSystems
  PROVE  BootstrapFailed(s) \in GoodSystems
  <1> DEFINE next == IF s.boot < NBoot THEN s.boot + 1 ELSE 1
             s1   == Put(s, "boot", SetAccessPoint(s.ch["boot"], next))
  <1>1. next \in 1..NBoot /\ next \in Nat
    BY ConstantTypes DEF GoodSystems
  <1>2. s1 \in GoodSystems
    BY <1>1, ChannelNames, ChGood, SetAccessPointGood, PutGood
  <1>3. BootstrapFailed(s) = [s1 EXCEPT !.boot = next]
    BY DEF BootstrapFailed
  <1> HIDE DEF next, s1
  <1>4. QED BY <1>1, <1>2, <1>3 DEF GoodSystems

LEMMA TrySyncGood ==
  ASSUME NEW s \in GoodSystems, NEW c \in Channels, NEW svcs \in SUBSET Services, NEW e
  PROVE  TrySync(s, c, svcs, e) \in GoodSystems
  <1> DEFINE s1 == Put(s, c, UpdatePending(s.ch[c], svcs))
  <1>1. s1 \in GoodSystems
    BY ChGood, PendingGood, PutGood
  <1> HIDE DEF s1
  <1>2. ASSUME NeedsConnection(s1.ch[c]) PROVE Connect(s1, c, e) \in GoodSystems
    BY <1>1, <1>2, SystemConnectGood DEF MayDial, NeedsConnection
  <1>3. QED BY <1>1, <1>2 DEF TrySync, s1

LEMMA BootstrapSyncGood ==
  ASSUME NEW s \in GoodSystems, NEW e
  PROVE  BootstrapSync(s, e) \in GoodSystems
  <1>1. {"bootstrap"} \in SUBSET Services
    BY DEF Services
  <1>2. TrySync(s, "boot", {"bootstrap"}, e) \in GoodSystems
    BY <1>1, ChannelNames, TrySyncGood
  <1>3. QED BY <1>2, BootstrapFailedGood DEF BootstrapSync

LEMMA OperationsFailedGood ==
  ASSUME NEW s \in GoodSystems, NEW e
  PROVE  OperationsFailed(s, e) \in GoodSystems
  <1>1. CASE s.current = NoList
    BY <1>1, FailGood DEF OperationsFailed
  <1>2. CASE s.current # NoList /\ s.current < NOps
    <2> DEFINE s1 == Put(s, "ops", SetAccessPoint(s.ch["ops"], s.current + 1))
    <2>1. s.current + 1 \in 0..(NOps + 1) /\ s.current + 1 \in Nat
      BY <1>2, ConstantTypes DEF GoodSystems
    <2>2. s1 \in GoodSystems /\ s1.current = s.current
      BY <2>1, ChannelNames, ChGood, SetAccessPointGood, PutGood DEF Put, GoodSystems
    <2>3. OperationsFailed(s, e) = [s1 EXCEPT !.current = s1.current + 1]
      BY <1>2 DEF OperationsFailed
    <2> HIDE DEF s1
    <2>4. QED BY <2>1, <2>2, <2>3, CurrentGood
  <1>3. CASE s.current # NoList /\ ~(s.current < NOps)
    <2>1. [s EXCEPT !.current = NOps + 1] \in GoodSystems
      BY CurrentGood, ConstantTypes
    <2>2. QED BY <1>3, <2>1, BootstrapSyncGood, FailGood DEF OperationsFailed
  <1>4. QED BY <1>1, <1>2, <1>3

LEMMA AccessPointFailedGood ==
  ASSUME NEW s \in GoodSystems, NEW c \in Channels, NEW e
  PROVE  AccessPointFailed(s, c, e) \in GoodSystems
  BY BootstrapFailedGood, OperationsFailedGood DEF AccessPointFailed

LEMMA OperationsSyncGood ==
  ASSUME NEW s \in GoodSystems, NEW svcs \in SUBSET OpsServices, NEW e
  PROVE  OperationsSync(s, svcs, e) \in GoodSystems
  <1> DEFINE s1 == [s EXCEPT !.owed = @ \cup svcs]
  <1>1. s1 \in GoodSystems
    <2>1. s.owed \cup svcs \in SUBSET OpsServices
      BY DEF GoodSystems
    <2>2. QED BY <2>1 DEF GoodSystems
  <1> HIDE DEF s1
  <1>2. TrySync(s1, "ops", svcs, e) \in GoodSystems
    BY <1>1, ChannelNames, TrySyncGood DEF Services
  <1>3. QED BY <1>2, OperationsFailedGood DEF OperationsSync, s1

LEMMA SocketIoErrorGood ==
  ASSUME NEW s \in GoodSystems, NEW c \in Channels, NEW e
  PROVE  SocketIoError(s, c, e) \in GoodSystems
  <1> DEFINE s1 == Put(s, c, CloseSocket(s.ch[c]))
             s2 == IF s.ch[c].sync = "STARTED" THEN AccessPointFailed(s1, c, e) ELSE s1
  <1>1. s1 \in GoodSystems
    BY ChGood, CloseGood, PutGood
  <1>2. s2 \in GoodSystems
    BY <1>1, AccessPointFailedGood
  <1>3. SocketIoError(s, c, e) = [s2 EXCEPT !.ch[c] = ResetChannel(s2.ch[c])]
    BY DEF SocketIoError
  <1> HIDE DEF s1, s2
  <1>4. QED BY <1>2, <1>3, ChGood, ResetGood, ReplaceGood

LEMMA WriteBufferGood ==
  ASSUME NEW s \in GoodSystems, NEW c \in Channels, NEW e
  PROVE  WriteBuffer(s, c, e) \in GoodSystems
  <1>1. Put(s, c, s.ch[c]) \in GoodSystems /\ Put(s, c, Transmit(s.ch[c])) \in GoodSystems
    BY ChGood, TransmitGood, PutGood
  <1>2. SocketIoError(s, c, e) \in GoodSystems
    BY SocketIoErrorGood
  <1>3. SocketIoError(Strikes(s, <<"write", c>>, e), c, e) \in GoodSystems
    BY FaultType, StrikesGood, SocketIoErrorGood
  <1>4. Fail(Strikes(s, <<"busy", c>>, e)) \in GoodSystems
    BY FaultType, StrikesGood, FailGood
  <1>5. QED BY <1>1, <1>2, <1>3, <1>4 DEF WriteBuffer

LEMMA WritePendingGood ==
  ASSUME NEW s \in GoodSystems, NEW c \in Channels, NEW svcs \in SUBSET Services, NEW e
  PROVE  WritePending(s, c, svcs, e) \in GoodSystems
  <1>1. Put(s, c, QueueSync(s.ch[c], svcs)) \in GoodSystems
    BY ChGood, RequestsGood, PutGood
  <1>2. QED BY <1>1, WriteBufferGood, FailGood DEF WritePending

LEMMA ChannelAuthorizeGood ==
  ASSUME NEW s \in GoodSystems, NEW c \in Channels
  PROVE  ChannelAuthorize(s, c) \in GoodSystems
  <1>1. Put(s, c, Authorize(s.ch[c], c)) \in GoodSystems
    <2>1. Authorize(s.ch[c], c) \in GoodChannels
      BY ChGood, RequestsGood
    <2>2. QED BY <2>1, PutGood
  <1>2. AuthorizeFails(s.ch[c]) \in BOOLEAN
    BY DEF AuthorizeFails
  <1>3. QED BY <1>1, <1>2, FailGood DEF ChannelAuthorize

LEMMA DialGood ==
  ASSUME NEW s \in GoodSystems, NEW c \in Channels, NEW addr \in Nat, NEW e, MayDial(s.ch[c])
  PROVE  Dial(s, c, addr, e) \in GoodSystems
  <1> DEFINE ch == [s.ch[c] EXCEPT !.ap = "RESOLVED", !.addr = addr]
             s1 == Put(s, c, ch)
             s2 == Connect(s1, c, e)
  <1>1. ch \in GoodChannels /\ ch.ap = "RESOLVED"
    <2>1. ch \in ChannelRecords /\ ch.ap = "RESOLVED"
      BY ChGood DEF ChannelRecords, APStates
    <2>2. Tight(s.ch[c]) /\ ~AsyncDns => Tight(ch)
      BY ChGood DEF Tight, MayDial, FdOpen, ChannelRecords
    <2>3. QED BY <2>1, <2>2, ChGood DEF GoodChannels, Good
  <1>2. s1 \in GoodSystems /\ MayDial(s1.ch[c])
    BY <1>1, PutGood DEF MayDial
  <1> HIDE DEF ch, s1
  <1>3. s2 \in GoodSystems
    BY <1>2, SystemConnectGood
  <1>4. AccessPointFailed(s2, c, e) \in GoodSystems
    BY <1>3, AccessPointFailedGood
  <1>5. QED BY <1>3, <1>4 DEF Dial, s1, ch

LEMMA ResolveGood ==
  ASSUME NEW s \in GoodSystems, NEW c \in Channels, NEW e, s.ch[c].ap = "SET"
  PROVE  Resolve(s, c, e) \in GoodSystems
  <1> DEFINE ch == s.ch[c]
  <1>0. ch \in GoodChannels /\ ch \in ChannelRecords /\ ch.id \in Nat
    BY ChGood DEF ChannelRecords
  <1>1. CASE AsyncDns
    <2> DEFINE x == [ch EXCEPT !.ap = "IN_PROGRESS", !.queries = Append(ch.queries, ch.id)]
    <2>1. Append(ch.queries, ch.id) \in Seq(Nat)
      BY <1>0 DEF ChannelRecords
    <2>2. x \in ChannelRecords
      BY <1>0, <2>1 DEF ChannelRecords, APStates
    <2>3. x \in GoodChannels
      BY <1>1, <2>2 DEF GoodChannels, Good
    <2>4. Resolve(s, c, e) = Put(s, c, x)
      BY <1>1 DEF Resolve
    <2>5. QED BY <2>3, <2>4, PutGood
  <1>2. CASE ~AsyncDns /\ <<"dns", c>> \in e
    <2> DEFINE x == [ch EXCEPT !.ap = "NOT_SET"]
    <2>1. x \in ChannelRecords
      BY <1>0 DEF ChannelRecords, APStates
    <2>2. Tight(ch) => Tight(x)
      BY <1>0 DEF ChannelRecords, Tight, FdOpen
    <2>3. x \in GoodChannels
      BY <1>0, <2>1, <2>2 DEF GoodChannels, Good
    <2>4. Strikes(Put(s, c, x), <<"dns", c>>, e) \in GoodSystems
      BY <2>3, PutGood, FaultType, StrikesGood
    <2>5. QED BY <1>2, <2>4, AccessPointFailedGood DEF Resolve
  <1>3. CASE ~AsyncDns /\ <<"dns", c>> \notin e
    BY <1>0, <1>3, DialGood DEF Resolve, MayDial
  <1>4. QED BY <1>1, <1>2, <1>3

LEMMA CheckKeepaliveGood ==
  ASSUME NEW s \in GoodSystems, NEW c \in Channels, NEW e
  PROVE  CheckKeepalive(s, c, e) \in GoodSystems
  <1>1. Put(s, c, s.ch[c]) \in GoodSystems
    BY ChGood, PutGood
  <1>2. [Put(s, c, Ping(s.ch[c])) EXCEPT !.err = ~HasRoom(s.ch[c])] \in GoodSystems
    <2>1. Ping(s.ch[c]) \in GoodChannels
      BY ChGood, RequestsGood
    <2>2. Put(s, c, Ping(s.ch[c])) \in GoodSystems
      BY <2>1, PutGood
    <2>3. QED BY <2>2, FailGood
  <1>3. QED BY <1>1, <1>2, ResolveGood DEF CheckKeepalive

LEMMA NewOperationsListGood ==
  ASSUME NEW s \in GoodSystems, NEW empty \in BOOLEAN
  PROVE  NewOperationsList(s, empty) \in GoodSystems
  <1>1. [s EXCEPT !.current = NoList] \in GoodSystems
    BY CurrentGood, ConstantTypes DEF NoList
  <1>2. Put(s, "ops", SetAccessPoint(s.ch["ops"], 1)) \in GoodSystems
    BY ChannelNames, ChGood, SetAccessPointGood, PutGood
  <1>3. 1 \in 0..(NOps + 1)
    BY ConstantTypes
  <1>4. QED BY <1>1, <1>2, <1>3, CurrentGood DEF NewOperationsList

LEMMA AfterWriteGood ==
  ASSUME NEW s \in GoodSystems, NEW c \in Channels, NEW e
  PROVE  AfterWrite(s, c, e) \in GoodSystems
  <1>1. {"bootstrap"} \in SUBSET Services /\ s.ch[c].pending \in SUBSET Services
    BY ChGood DEF Services, ChannelRecords
  <1>2. /\ WritePending(s, c, {"bootstrap"}, e) \in GoodSystems
        /\ WritePending(s, c, s.ch[c].pending, e) \in GoodSystems
    BY <1>1, WritePendingGood
  <1>3. QED BY <1>2, SocketIoErrorGood, ChannelAuthorizeGood DEF AfterWrite

LEMMA ProcessWriteGood ==
  ASSUME NEW s \in GoodSystems, NEW c \in Channels, NEW e
  PROVE  ProcessWrite(s, c, e) \in GoodSystems
  <1>1. CASE s.ch[c].ap = "CONNECTING"
    <2> DEFINE x == [s.ch[c] EXCEPT !.ap = "CONNECTED"]
    <2>1. x \in ChannelRecords
      BY ChGood DEF ChannelRecords, APStates
    <2>2. Tight(s.ch[c]) => Tight(x)
      BY <1>1, ChGood DEF ChannelRecords, Tight, FdOpen
    <2>3. x \in GoodChannels
      BY <2>1, <2>2, ChGood DEF GoodChannels, Good
    <2>4. ChannelAuthorize(Put(s, c, x), c) \in GoodSystems
      BY <2>3, PutGood, ChannelAuthorizeGood
    <2>5. QED BY <1>1, <2>4, SocketIoErrorGood DEF ProcessWrite
  <1>2. CASE s.ch[c].ap = "CONNECTED"
    BY <1>2, WriteBufferGood, AfterWriteGood DEF ProcessWrite
  <1>3. CASE s.ch[c].ap \notin {"CONNECTING", "CONNECTED"}
    BY <1>3 DEF ProcessWrite
  <1>4. QED BY <1>1, <1>2, <1>3

LEMMA ProcessEmptyReadGood ==
  ASSUME NEW s \in GoodSystems, NEW c \in Channels, NEW e
  PROVE  ProcessEmptyRead(s, c, e) \in GoodSystems
  BY SocketIoErrorGood, FailGood DEF ProcessEmptyRead

LEMMA ProcessMessageGood ==
  ASSUME NEW s \in GoodSystems, NEW c \in Channels, NEW m \in ServerMsgs,
         NEW again \in SUBSET OpsServices, NEW e
  PROVE  ProcessMessage(s, c, m, again, e) \in GoodSystems
  <1> DEFINE ch == s.ch[c]
  <1>0. ch \in GoodChannels
    BY ChGood
  <1>1. SocketIoError(s, c, e) \in GoodSystems /\ OperationsSync(s, again, e) \in GoodSystems
    BY SocketIoErrorGood, OperationsSyncGood
  <1>2. CASE m = "CONNACK" /\ ch.state = "AUTHORIZING"
    <2>1. [ch EXCEPT !.state = "AUTHORIZED", !.due = FALSE] \in GoodChannels
      BY <1>0, ChangeStateGood DEF ChannelStates, SyncStates
    <2>2. QED BY <1>2, <2>1, PutGood DEF ProcessMessage
  <1>3. CASE m \in {"CONNACK", "REFUSED"} /\ ~(m = "CONNACK" /\ ch.state = "AUTHORIZING")
    BY <1>1, <1>3 DEF ProcessMessage
  <1>4. CASE m \in {"KAASYNC", "EMPTY"} /\ c = "boot"
    <2> DEFINE s1 == NewOperationsList(s, m = "EMPTY")
               x  == [s1.ch[c] EXCEPT !.sync = "FINISHED"]
    <2>1. s1 \in GoodSystems
      BY NewOperationsListGood
    <2>2. x \in GoodChannels
      BY <2>1, ChGood, ChangeStateGood DEF ChannelStates, SyncStates
    <2>3. DisconnectInternal(x) \in GoodChannels
      BY <2>2, RequestsGood
    <2>4. Put(s1, c, DisconnectInternal(x)) \in GoodSystems
      BY <2>1, <2>3, PutGood
    <2>5. QED BY <1>4, <2>4 DEF ProcessMessage
  <1>5. CASE m \in {"KAASYNC", "EMPTY"} /\ c # "boot"
    BY <1>1, <1>5 DEF ProcessMessage, Channels
  <1>6. CASE m = "DISCONNECT"
    <2>1. [ch EXCEPT !.sync = "STARTED"] \in GoodChannels
      BY <1>0, ChangeStateGood DEF ChannelStates, SyncStates
    <2>2. SocketIoError(Put(s, c, [ch EXCEPT !.sync = "STARTED"]), c, e) \in GoodSystems
      BY <2>1, PutGood, SocketIoErrorGood
    <2>3. QED BY <1>6, <2>2 DEF ProcessMessage
  <1>7. CASE m \in {"INTERNAL_ERROR", "GARBAGE"}
    BY <1>1, <1>7 DEF ProcessMessage
  <1>8. CASE m = "PINGRESP"
    BY <1>8 DEF ProcessMessage
  <1>9. QED BY <1>2, <1>3, <1>4, <1>5, <1>6, <1>7, <1>8 DEF ServerMsgs
-----------------------------------------------------------------------------
(* The state. *)

Events == [c : Channels, op : {"READ", "WRITE", "KEEPALIVE", "INPUT"}]

CoreOK ==
  /\ chan \in [Channels -> GoodChannels]
  /\ current \in 0..(NOps + 1)
  /\ bootIndex \in 1..NBoot
  /\ owed \in SUBSET OpsServices
  /\ faults \in Nat

LoopOK ==
  /\ todo \in Seq(Events)
  /\ parse \in [c : Channels, msgs : Seq(ServerMsgs)]
  /\ syncs \in Nat /\ pings \in Nat /\ pushes \in Nat /\ logTimeouts \in Nat

IInv == CoreOK /\ LoopOK

LEMMA IInvTypeOK == IInv => TypeOK
  BY DEF IInv, CoreOK, LoopOK, TypeOK, GoodChannels, Events

LEMMA SystemGood == CoreOK => System \in GoodSystems
  BY DEF CoreOK, System, GoodSystems

LEMMA FaultChoiceLeft ==
  ASSUME faults \in Nat, NEW c \in Channels, NEW e \in FaultChoices(c)
  PROVE  faults - Cardinality(e) \in Nat
  <1>1. IsFiniteSet({"open", "dns", "write", "busy"})
    <2> DEFINE two == {"open"} \cup {"dns"}
               three == two \cup {"write"}
    <2>1. IsFiniteSet(two)
      BY FS_Singleton, FS_AddElement
    <2> HIDE DEF two
    <2>2. IsFiniteSet(three)
      BY <2>1, FS_AddElement
    <2> HIDE DEF three
    <2>3. IsFiniteSet(three \cup {"busy"})
      BY <2>2, FS_AddElement
    <2>4. three \cup {"busy"} = {"open", "dns", "write", "busy"}
      BY DEF two, three
    <2>5. QED BY <2>3, <2>4
  <1>0. IsFiniteSet(Channels)
    <2>1. IsFiniteSet({"boot"} \cup {"ops"})
      BY FS_Singleton, FS_AddElement
    <2>2. {"boot"} \cup {"ops"} = Channels
      BY DEF Channels
    <2>3. QED BY <2>1, <2>2
  <1>2. IsFiniteSet(Faults)
    BY <1>0, <1>1, FS_Product DEF Faults
  <1>3. e \subseteq Faults
    BY ChannelNames DEF FaultChoices, FaultsOf, Faults
  <1>4. Cardinality(e) \in Nat
    BY <1>2, <1>3, FS_Subset, FS_CardinalityType
  <1>5. Cardinality(e) <= faults
    BY DEF FaultChoices
  <1>6. QED BY <1>4, <1>5

LEMMA CommitOK ==
  ASSUME CoreOK, NEW s \in GoodSystems, NEW c \in Channels, NEW e \in FaultChoices(c),
         Commit(s, e)
  PROVE  CoreOK'
  <1>1. faults' \in Nat
    BY FaultChoiceLeft DEF CoreOK, Commit
  <1>2. QED BY <1>1 DEF CoreOK, Commit, GoodSystems

(* The steps of the event loop. *)

LEMMA HeadType ==
  ASSUME LoopOK, NEW op, Turn(op)
  PROVE  Head(todo).c \in Channels /\ Tail(todo) \in Seq(Events)
  <1>1. todo \in Seq(Events) /\ todo # <<>>
    BY DEF LoopOK, Turn
  <1>2. Head(todo) \in Events /\ Tail(todo) \in Seq(Events)
    BY <1>1
  <1>3. QED BY <1>2 DEF Events

LEMMA SelectOK == ASSUME IInv, Select PROVE IInv'
  <1>1. ASSUME NEW c \in Channels, NEW op \in {"READ", "WRITE"}
        PROVE  IfReady(c, op) \in Seq(Events)
    <2>1. Event(c, op) \in Events
      BY DEF Event, Events
    <2>2. <<Event(c, op)>> \in Seq(Events) /\ <<>> \in Seq(Events)
      BY <2>1
    <2>3. QED BY <2>2 DEF IfReady
  <1>2. Ready \in Seq(Events)
    BY <1>1, ChannelNames DEF Ready
  <1>3. Timeout \in Seq(Events)
    BY ChannelNames DEF Timeout, Event, Events
  <1>4. Event("ops", "INPUT") \in Events
    BY ChannelNames DEF Event, Events
  <1>5. todo' \in Seq(Events)
    BY <1>2, <1>3, <1>4 DEF Select
  <1>6. QED BY <1>5 DEF IInv, CoreOK, LoopOK, Select, budgets

LEMMA KeepaliveOK == ASSUME IInv, Keepalive PROVE IInv'
  <1> DEFINE c == Head(todo).c
  <1>1. c \in Channels /\ Tail(todo) \in Seq(Events)
    BY HeadType DEF IInv, Keepalive
  <1>2. PICK e \in FaultChoices(c) : Commit(CheckKeepalive(System, c, e), e)
    BY DEF Keepalive
  <1>3. CheckKeepalive(System, c, e) \in GoodSystems
    BY <1>1, SystemGood, CheckKeepaliveGood DEF IInv
  <1> HIDE DEF c
  <1>4. CoreOK'
    BY <1>1, <1>2, <1>3, CommitOK DEF IInv
  <1>5. LoopOK'
    BY <1>1 DEF IInv, LoopOK, Keepalive
  <1>6. QED BY <1>4, <1>5 DEF IInv

LEMMA WriteEventOK == ASSUME IInv, WriteEvent PROVE IInv'
  <1> DEFINE c == Head(todo).c
             s1(e) == CheckKeepalive(System, c, e)
             s2(e) == IF s1(e).err THEN s1(e) ELSE ProcessWrite(s1(e), c, e)
  <1>1. c \in Channels /\ Tail(todo) \in Seq(Events)
    BY HeadType DEF IInv, WriteEvent
  <1>2. PICK e \in FaultChoices(c) : Commit(s2(e), e)
    BY DEF WriteEvent
  <1>3. s2(e) \in GoodSystems
    BY <1>1, SystemGood, CheckKeepaliveGood, ProcessWriteGood DEF IInv
  <1> HIDE DEF c, s2
  <1>4. CoreOK'
    BY <1>1, <1>2, <1>3, CommitOK DEF IInv
  <1>5. LoopOK'
    BY <1>1 DEF IInv, LoopOK, WriteEvent
  <1>6. QED BY <1>4, <1>5 DEF IInv

LEMMA ReadEventOK == ASSUME IInv, ReadEvent PROVE IInv'
  <1> DEFINE c == Head(todo).c
             s1(e) == CheckKeepalive(System, c, e)
             arrived(e) == s1(e).ch[c].sock.s2c
             hit(e) == ~s1(e).err /\ s1(e).ch[c].ap = "CONNECTED" /\ arrived(e) # <<>>
             s2(e) == IF s1(e).err THEN s1(e) ELSE ProcessEmptyRead(s1(e), c, e)
             ch(e, n) == Receive(s1(e).ch[c], n)
  <1>1. c \in Channels /\ Tail(todo) \in Seq(Events)
    BY HeadType DEF IInv, ReadEvent
  <1>2. PICK e \in FaultChoices(c) :
          IF hit(e)
          THEN \E n \in 1..Len(arrived(e)) : /\ Commit(Put(s1(e), c, ch(e, n)), e)
                                             /\ parse' = [c |-> c, msgs |-> ch(e, n).inbuf]
          ELSE Commit(s2(e), e) /\ parse' = Idle
    BY DEF ReadEvent
  <1>3. s1(e) \in GoodSystems /\ s2(e) \in GoodSystems
    BY <1>1, SystemGood, CheckKeepaliveGood, ProcessEmptyReadGood DEF IInv
  <1> HIDE DEF s1, s2, c
  <1>4. CASE hit(e)
    <2>1. PICK n \in 1..Len(arrived(e)) : /\ Commit(Put(s1(e), c, ch(e, n)), e)
                                          /\ parse' = [c |-> c, msgs |-> ch(e, n).inbuf]
      BY <1>2, <1>4
    <2>2. ch(e, n) \in GoodChannels
      BY <1>1, <1>3, ChGood, ReceiveGood
    <2>3. ch(e, n).inbuf \in Seq(ServerMsgs)
      BY <2>2 DEF GoodChannels, ChannelRecords
    <2> HIDE DEF ch
    <2>4. Put(s1(e), c, ch(e, n)) \in GoodSystems
      BY <1>1, <1>3, <2>2, PutGood
    <2>5. CoreOK'
      BY <1>1, <2>1, <2>4, CommitOK DEF IInv
    <2>6. LoopOK'
      BY <1>1, <2>1, <2>3 DEF IInv, LoopOK, ReadEvent, c
    <2>7. QED BY <2>5, <2>6 DEF IInv
  <1>5. CASE ~hit(e)
    <2>1. CoreOK'
      BY <1>1, <1>2, <1>3, <1>5, CommitOK DEF IInv
    <2>2. Idle \in [c : Channels, msgs : Seq(ServerMsgs)]
      BY ChannelNames, EmptySeqType DEF Idle
    <2>3. LoopOK'
      BY <1>1, <1>2, <1>5, <2>2 DEF IInv, LoopOK, ReadEvent, c
    <2>4. QED BY <2>1, <2>3 DEF IInv
  <1>6. QED BY <1>4, <1>5

LEMMA ParseMessageOK == ASSUME IInv, ParseMessage PROVE IInv'
  <1> DEFINE c == parse.c
             m == Head(parse.msgs)
             last == m = "GARBAGE" \/ Len(parse.msgs) = 1
             s1(e, again) == ProcessMessage(System, c, m, again, e)
             free(e, again) == last /\ m # "GARBAGE" /\ s1(e, again).ch[c].ap = "CONNECTED"
             s2(e, again) == IF free(e, again) THEN [s1(e, again) EXCEPT !.ch[c].inbuf = <<>>]
                                               ELSE s1(e, again)
  <1>1. c \in Channels /\ m \in ServerMsgs /\ Tail(parse.msgs) \in Seq(ServerMsgs)
    <2>1. c \in Channels /\ parse.msgs \in Seq(ServerMsgs) /\ parse.msgs # <<>>
      BY DEF IInv, LoopOK, ParseMessage
    <2>2. QED BY <2>1
  <1>2. PICK e \in FaultChoices(c),
             again \in {{}} \cup {{x} : x \in IF syncs < MaxSyncs THEN CallbackServices ELSE {}} :
          /\ Commit(s2(e, again), e)
          /\ parse' = IF last THEN Idle ELSE [parse EXCEPT !.msgs = Tail(@)]
          /\ syncs' = syncs + Cardinality(again)
    BY DEF ParseMessage
  <1>3. again \in SUBSET OpsServices /\ Cardinality(again) \in Nat
    <2>1. again = {} \/ \E x \in CallbackServices : again = {x}
      OBVIOUS
    <2>2. Cardinality({}) = 0 /\ \A x : Cardinality({x}) = 1
      BY FS_EmptySet, FS_Singleton
    <2>3. CASE again = {}
      BY <2>2, <2>3
    <2>4. CASE again # {}
      <3>1. PICK x \in CallbackServices : again = {x}
        BY <2>1, <2>4
      <3>2. QED BY <2>2, <3>1, ConstantTypes
    <2>5. QED BY <2>3, <2>4
  <1>4. s1(e, again) \in GoodSystems
    BY <1>1, <1>3, SystemGood, ProcessMessageGood DEF IInv
  <1>5. s2(e, again) \in GoodSystems
    <2> DEFINE x == s1(e, again).ch[c]
               y == [x EXCEPT !.inbuf = <<>>]
    <2>1. x \in GoodChannels
      BY <1>1, <1>4, ChGood
    <2>2. y \in ChannelRecords
      BY <2>1, EmptySeqType DEF GoodChannels, ChannelRecords
    <2>3. y \in GoodChannels
      BY <2>1, <2>2, SameConnection DEF GoodChannels, ChannelRecords
    <2>4. [s1(e, again) EXCEPT !.ch[c] = y] \in GoodSystems
      BY <1>1, <1>4, <2>3, ReplaceGood
    <2>5. [s1(e, again) EXCEPT !.ch[c].inbuf = <<>>] = [s1(e, again) EXCEPT !.ch[c] = y]
      OBVIOUS
    <2>6. QED BY <1>4, <2>4, <2>5
  <1>6. CoreOK'
    <2> HIDE DEF s2, c
    <2>1. QED BY <1>1, <1>2, <1>5, CommitOK DEF IInv
  <1>7. parse' \in [c : Channels, msgs : Seq(ServerMsgs)]
    BY <1>1, <1>2, ChannelNames, EmptySeqType DEF IInv, LoopOK, Idle
  <1>8. LoopOK'
    BY <1>2, <1>3, <1>7 DEF IInv, LoopOK, ParseMessage
  <1>9. QED BY <1>6, <1>8 DEF IInv

LEMMA NoInputOK == ASSUME IInv, NoInput PROVE IInv'
  BY HeadType DEF IInv, CoreOK, LoopOK, NoInput, budgets

LEMMA InputSyncOK == ASSUME IInv, InputSync PROVE IInv'
  <1>1. Tail(todo) \in Seq(Events)
    BY HeadType DEF IInv, InputSync
  <1>2. PICK x \in InputServices, e \in FaultChoices("ops") : Commit(OperationsSync(System, {x}, e), e)
    BY DEF InputSync
  <1>3. OperationsSync(System, {x}, e) \in GoodSystems
    BY ConstantTypes, SystemGood, OperationsSyncGood DEF IInv
  <1>4. CoreOK'
    BY <1>2, <1>3, ChannelNames, CommitOK DEF IInv
  <1>5. LoopOK'
    BY <1>1 DEF IInv, LoopOK, InputSync
  <1>6. QED BY <1>4, <1>5 DEF IInv

LEMMA LogDeliveryTimeoutOK == ASSUME IInv, LogDeliveryTimeout PROVE IInv'
  <1>1. Tail(todo) \in Seq(Events)
    BY HeadType DEF IInv, LogDeliveryTimeout
  <1>2. PICK e \in FaultChoices("ops") : Commit(OperationsFailed(System, e), e)
    BY DEF LogDeliveryTimeout
  <1>3. OperationsFailed(System, e) \in GoodSystems
    BY SystemGood, OperationsFailedGood DEF IInv
  <1>4. CoreOK'
    BY <1>2, <1>3, ChannelNames, CommitOK DEF IInv
  <1>5. LoopOK'
    BY <1>1 DEF IInv, LoopOK, LogDeliveryTimeout
  <1>6. QED BY <1>4, <1>5 DEF IInv

(* The resolver: with synchronous resolution it is never asked. *)

LEMMA Answered ==
  ASSUME CoreOK, NEW c \in Channels, NEW i \in 1..Len(chan[c].queries)
  PROVE  /\ AsyncDns
         /\ chan[c].queries[i] \in Nat
         /\ RemoveAt(chan[c].queries, i) \in Seq(Nat)
  <1>1. chan[c] \in GoodChannels /\ chan[c].queries \in Seq(Nat)
    BY DEF CoreOK, GoodChannels, ChannelRecords
  <1>2. chan[c].queries # <<>>
    BY <1>1
  <1>3. AsyncDns
    BY <1>1, <1>2 DEF GoodChannels, Good, Tight
  <1>4. QED BY <1>1, <1>3 DEF RemoveAt

LEMMA HostnameResolvedOK ==
  ASSUME IInv, NEW c \in Channels, HostnameResolved(c) PROVE IInv'
  <1> DEFINE asked(i) == [chan[c] EXCEPT !.queries = RemoveAt(@, i)]
             s1(i, e) == Dial(Put(System, c, asked(i)), c, chan[c].queries[i], e)
  <1>1. PICK i \in 1..Len(chan[c].queries), e \in FaultChoices(c) : Commit(s1(i, e), e)
    BY DEF HostnameResolved
  <1>2. AsyncDns /\ chan[c].queries[i] \in Nat
    BY Answered DEF IInv
  <1>3. asked(i) \in ChannelRecords
    BY Answered DEF IInv, CoreOK, GoodChannels, ChannelRecords
  <1>4. asked(i) \in GoodChannels
    BY <1>2, <1>3 DEF GoodChannels, Good
  <1> HIDE DEF asked
  <1>5. s1(i, e) \in GoodSystems
    BY <1>2, <1>4, SystemGood, PutGood, DialGood DEF IInv, MayDial
  <1> HIDE DEF s1
  <1>6. CoreOK'
    BY <1>1, <1>5, CommitOK DEF IInv
  <1>7. LoopOK'
    BY DEF IInv, LoopOK, HostnameResolved
  <1>8. QED BY <1>6, <1>7 DEF IInv

LEMMA HostnameResolveFailedOK ==
  ASSUME IInv, NEW c \in Channels, HostnameResolveFailed(c) PROVE IInv'
  <1> DEFINE asked(i) == [chan[c] EXCEPT !.queries = RemoveAt(@, i), !.ap = "NOT_SET"]
  <1>1. PICK i \in 1..Len(chan[c].queries) : chan' = [chan EXCEPT ![c] = asked(i)]
    BY DEF HostnameResolveFailed
  <1>2. asked(i) \in ChannelRecords
    BY Answered DEF IInv, CoreOK, GoodChannels, ChannelRecords, APStates
  <1>3. asked(i) \in GoodChannels
    BY <1>2, Answered DEF GoodChannels, Good, IInv
  <1> HIDE DEF asked
  <1>4. CoreOK'
    <2>1. chan' \in [Channels -> GoodChannels]
      BY <1>1, <1>3 DEF IInv, CoreOK
    <2>2. faults' \in Nat
      BY DEF IInv, CoreOK, HostnameResolveFailed
    <2>3. QED BY <2>1, <2>2 DEF IInv, CoreOK, HostnameResolveFailed
  <1>5. LoopOK'
    BY DEF IInv, LoopOK, HostnameResolveFailed
  <1>6. QED BY <1>4, <1>5 DEF IInv

LEMMA PingDueOK ==
  ASSUME IInv, NEW c \in Channels, PingDue(c) PROVE IInv'
  <1>1. [chan[c] EXCEPT !.due = TRUE] \in GoodChannels
    BY ChangeStateGood DEF IInv, CoreOK, ChannelStates, SyncStates
  <1>2. chan' = [chan EXCEPT ![c] = [chan[c] EXCEPT !.due = TRUE]]
    BY DEF PingDue
  <1>3. CoreOK'
    BY <1>1, <1>2 DEF IInv, CoreOK, PingDue
  <1>4. LoopOK'
    BY DEF IInv, LoopOK, PingDue
  <1>5. QED BY <1>3, <1>4 DEF IInv

(* Kernel and servers change only what is in flight. *)

LEMMA PeerOK ==
  ASSUME CoreOK, NEW c \in Channels, NEW sock \in Sockets, Peer(c, sock),
         sock.st # "none", chan[c].sock.st # "none"
  PROVE  chan' \in [Channels -> GoodChannels]
  <1> DEFINE x == [chan[c] EXCEPT !.sock = sock]
  <1>1. chan[c] \in GoodChannels
    BY DEF CoreOK
  <1>2. x \in ChannelRecords
    BY <1>1 DEF GoodChannels, ChannelRecords
  <1>3. Tight(chan[c]) => Tight(x)
    BY <1>1 DEF Tight, FdOpen, GoodChannels, ChannelRecords
  <1>4. x \in GoodChannels
    BY <1>1, <1>2, <1>3 DEF GoodChannels, Good
  <1>5. chan' = [chan EXCEPT ![c] = x]
    BY DEF Peer
  <1> HIDE DEF x
  <1>6. QED BY <1>4, <1>5 DEF CoreOK

LEMMA SockType ==
  ASSUME CoreOK, NEW c \in Channels
  PROVE  chan[c].sock \in Sockets
  BY DEF CoreOK, GoodChannels, ChannelRecords

LEMMA AnswerType ==
  ASSUME NEW sock \in Sockets, sock.st = "up", sock.c2s # <<>>, NEW m,
         NEW reply \in Seq(ServerMsgs)
  PROVE  Answer(sock, m, reply) \in Sockets /\ Answer(sock, m, reply).st # "none"
  <1> DEFINE rest == [sock EXCEPT !.c2s = Tail(@)]
             b == reply # <<>> /\ reply # <<"REFUSED">>
             msgs == rest.s2c \o reply
  <1>1. Tail(sock.c2s) \in Seq(ClientMsgs)
    BY DEF Sockets
  <1>2. rest \in Sockets /\ rest.st = "up"
    BY <1>1 DEF Sockets
  <1>3. b \in BOOLEAN /\ msgs \in Seq(ServerMsgs)
    BY <1>2 DEF Sockets
  <1>4. Answer(sock, m, reply) = IF m.type = "DISCONNECT" THEN [rest EXCEPT !.st = "closed"]
                                 ELSE [rest EXCEPT !.session = b, !.s2c = msgs]
    BY DEF Answer
  <1> HIDE DEF rest, b, msgs
  <1>5. QED BY <1>2, <1>3, <1>4 DEF Sockets

LEMMA AcceptOK == ASSUME IInv, NEW c \in Channels, Accept(c) PROVE IInv'
  <1> DEFINE sock == [chan[c].sock EXCEPT !.st = "up"]
  <1>1. sock \in Sockets /\ sock.st # "none" /\ chan[c].sock.st # "none" /\ Peer(c, sock)
    BY SockType DEF IInv, Accept, Sockets
  <1> HIDE DEF sock
  <1>2. chan' \in [Channels -> GoodChannels]
    BY <1>1, PeerOK DEF IInv
  <1>3. QED BY <1>2 DEF IInv, CoreOK, LoopOK, Accept, budgets

LEMMA ReplyTypes ==
  /\ <<"CONNACK", "KAASYNC">> \in Seq(ServerMsgs) /\ <<"KAASYNC">> \in Seq(ServerMsgs)
  /\ <<"PINGRESP">> \in Seq(ServerMsgs) /\ <<"REFUSED">> \in Seq(ServerMsgs)
  /\ <<"CONNACK", "EMPTY">> \in Seq(ServerMsgs) /\ <<>> \in Seq(ServerMsgs)
  BY DEF ServerMsgs

LEMMA ServeOK == ASSUME IInv, NEW c \in Channels, Serve(c) PROVE IInv'
  <1> DEFINE sock == chan[c].sock
             m    == Head(sock.c2s)
             reply == CASE m.type = "CONNECT" -> <<"CONNACK", "KAASYNC">>
                        [] sock.session /\ m.type = "KAASYNC" -> <<"KAASYNC">>
                        [] sock.session /\ m.type = "PING" -> <<"PINGRESP">>
                        [] OTHER -> <<>>
  <1>1. sock \in Sockets /\ sock.st = "up" /\ sock.c2s # <<>> /\ Peer(c, Answer(sock, m, reply))
    BY SockType DEF IInv, Serve
  <1>2. reply \in Seq(ServerMsgs)
    BY ReplyTypes
  <1> HIDE DEF reply, m
  <1>3. Answer(sock, m, reply) \in Sockets /\ Answer(sock, m, reply).st # "none"
    BY <1>1, <1>2, AnswerType
  <1>4. chan' \in [Channels -> GoodChannels]
    BY <1>1, <1>3, PeerOK DEF IInv
  <1>5. owed' \in SUBSET OpsServices
    BY DEF IInv, CoreOK, Serve
  <1>6. QED BY <1>4, <1>5 DEF IInv, CoreOK, LoopOK, Serve, budgets

LEMMA PushOK == ASSUME IInv, Push PROVE IInv'
  <1> DEFINE sock == [chan["ops"].sock EXCEPT !.s2c = Append(@, "KAASYNC")]
  <1>1. chan["ops"].sock \in Sockets /\ chan["ops"].sock.st = "up" /\ Peer("ops", sock)
    BY ChannelNames, SockType DEF IInv, Push
  <1>2. Append(chan["ops"].sock.s2c, "KAASYNC") \in Seq(ServerMsgs)
    BY <1>1 DEF Sockets, ServerMsgs
  <1>3. sock \in Sockets /\ sock.st = "up"
    BY <1>1, <1>2 DEF Sockets
  <1> HIDE DEF sock
  <1>4. chan' \in [Channels -> GoodChannels]
    BY <1>1, <1>3, ChannelNames, PeerOK DEF IInv
  <1>5. QED BY <1>4 DEF IInv, CoreOK, LoopOK, Push

LEMMA ServeBadlyOK == ASSUME IInv, NEW c \in Channels, ServeBadly(c) PROVE IInv'
  <1> DEFINE sock == chan[c].sock
             m    == Head(sock.c2s)
  <1>1. PICK reply \in {<<"REFUSED">>, <<"CONNACK", "EMPTY">>} : Peer(c, Answer(sock, m, reply))
    BY DEF ServeBadly
  <1>2. sock \in Sockets /\ sock.st = "up" /\ sock.c2s # <<>>
    BY SockType DEF IInv, ServeBadly
  <1> HIDE DEF m
  <1>3. Answer(sock, m, reply) \in Sockets /\ Answer(sock, m, reply).st # "none"
    BY <1>2, ReplyTypes, AnswerType
  <1>4. chan' \in [Channels -> GoodChannels]
    BY <1>1, <1>2, <1>3, PeerOK DEF IInv
  <1>5. faults' \in Nat
    BY DEF IInv, CoreOK, ServeBadly
  <1>6. QED BY <1>4, <1>5 DEF IInv, CoreOK, LoopOK, ServeBadly

LEMMA PeerFaultOK == ASSUME IInv, NEW c \in Channels, PeerFault(c) PROVE IInv'
  <1> DEFINE sock == chan[c].sock
             says(m) == Append(sock.s2c, m)
  <1>0. sock \in Sockets
    BY SockType DEF IInv
  <1>1. PICK new \in {[sock EXCEPT !.st = "refused"], [sock EXCEPT !.st = "closed"]}
                     \cup {[sock EXCEPT !.st = "closed", !.s2c = says(m)] :
                             m \in {"DISCONNECT", "INTERNAL_ERROR"}}
                     \cup {[sock EXCEPT !.s2c = says("GARBAGE")]} :
          Peer(c, new) /\ sock.st \in {"syn", "up"}
    BY DEF PeerFault
  <1>2. \A m \in {"DISCONNECT", "INTERNAL_ERROR", "GARBAGE"} : says(m) \in Seq(ServerMsgs)
    BY <1>0 DEF Sockets, ServerMsgs
  <1> HIDE DEF says
  <1>3. new \in Sockets /\ new.st # "none"
    BY <1>0, <1>1, <1>2 DEF Sockets
  <1>4. chan' \in [Channels -> GoodChannels]
    BY <1>1, <1>3, PeerOK DEF IInv
  <1>5. faults' \in Nat
    BY DEF IInv, CoreOK, PeerFault
  <1>6. QED BY <1>4, <1>5 DEF IInv, CoreOK, LoopOK, PeerFault
-----------------------------------------------------------------------------
LEMMA InitOK == Init => IInv
  <1> SUFFICES ASSUME Init PROVE IInv
    OBVIOUS
  <1>1. NewChannel \in GoodChannels
    <2>1. NewChannel \in ChannelRecords
      BY NoSocketType, EmptySeqType, <<>> \in Seq(Nat)
      DEF NewChannel, ChannelRecords, APStates, ChannelStates, SyncStates
    <2>2. Tight(NewChannel)
      BY NoSocketType DEF NewChannel, Tight, FdOpen
    <2>3. QED BY <2>1, <2>2 DEF GoodChannels, Good
  <1>2. /\ UpdatePending(SetAccessPoint(NewChannel, 1), {"bootstrap"}) \in GoodChannels
        /\ UpdatePending(NewChannel, StartServices) \in GoodChannels
    <2>1. SetAccessPoint(NewChannel, 1) \in GoodChannels
      BY <1>1, SetAccessPointGood
    <2>2. QED BY <1>1, <2>1, PendingGood, ConstantTypes DEF Services
  <1>3. chan \in [Channels -> GoodChannels]
    BY <1>2 DEF Init, Channels
  <1>4. CoreOK
    BY <1>3, ConstantTypes, TransportAssumption DEF Init, CoreOK, NoList, TransportAssumption
  <1>5. LoopOK
    BY ChannelNames, EmptySeqType DEF Init, LoopOK, Idle
  <1>6. QED BY <1>4, <1>5 DEF IInv

LEMMA StepOK == IInv /\ [Next]_vars => IInv'
  <1> SUFFICES ASSUME IInv, [Next]_vars PROVE IInv'
    OBVIOUS
  <1>1. CASE EventLoop
    BY <1>1, SelectOK, KeepaliveOK, ReadEventOK, ParseMessageOK, WriteEventOK, NoInputOK,
       InputSyncOK, LogDeliveryTimeoutOK DEF EventLoop
  <1>2. CASE Environment
    BY <1>2, PushOK, HostnameResolvedOK, HostnameResolveFailedOK, PingDueOK, AcceptOK, ServeOK,
       ServeBadlyOK, PeerFaultOK DEF Environment
  <1>3. CASE UNCHANGED vars
    BY <1>3 DEF vars, IInv, CoreOK, LoopOK
  <1>4. QED BY <1>1, <1>2, <1>3 DEF Next

LEMMA Invariance == Spec => []IInv
  BY InitOK, StepOK, PTL DEF Spec

(* The state of the transport is always of its type. *)
THEOREM TypeCorrectness == Spec => []TypeOK
  BY Invariance, IInvTypeOK, PTL

(* With synchronous resolution of host names (posix) no sequence of faults, *)
(* timeouts and requests leaks a descriptor or loses track of one:         *)
(* kaa_tcp_channel.c assigns socket_descriptor only when it holds none.    *)
THEOREM DescriptorsAreTracked ==
  ASSUME ~AsyncDns
  PROVE  Spec => []NoDescriptorLeak
  <1>1. IInv => NoDescriptorLeak
    BY DEF IInv, CoreOK, NoDescriptorLeak, GoodChannels, Good, Tight
  <1>2. QED BY <1>1, Invariance, PTL
-----------------------------------------------------------------------------
(* One connection of a channel, as the client and the server see it.  What *)
(* the client has sent and the server has not served, and what the server  *)
(* has sent and the client has not parsed (w: what the parser has left).    *)
Way(ch)   == ch.sock.c2s \o ch.out
In(ch, w) == w \o ch.sock.s2c

Only(q, msgs) == \A i \in 1..Len(q) : q[i] \in msgs
Login(c)      == Msg("CONNECT", Supported[c])
Endings       == {"GARBAGE", "REFUSED"}
Contents      == {"KAASYNC", "EMPTY", "PINGRESP", "GARBAGE"}

(* Without a connection the channel is idle, or holds the one CONNECT that *)
(* it queued when it lost the last connection.                             *)
Unstarted(ch, c) ==
  \/ ch.state = "UNDEFINED" /\ ch.out = <<>>
  \/ c = "ops" /\ ch.state = "AUTHORIZING" /\ ch.out = <<Login(c)>>

Offline(ch, c, w) ==
  /\ ch.ap # "CONNECTED"
  /\ IF ch.ap = "CONNECTING" THEN FdOpen(ch) /\ ch.addr = ch.id /\ ch.sock.peer = ch.id
                              ELSE ch.sock = NoSocket
  /\ ~ch.sock.session /\ ch.sock.c2s = <<>> /\ Only(ch.sock.s2c, {"GARBAGE"})
  /\ ch.queries = IF ch.ap = "IN_PROGRESS" THEN <<ch.id>> ELSE <<>>
  /\ Unstarted(ch, c)
  /\ ch.inbuf = <<>>
  /\ Only(w, Endings)
  /\ w # <<>> => /\ ch.ap \in {"NOT_SET", "SET", "RESOLVED"}
                 /\ ch.state = "UNDEFINED" /\ ch.sync = "UNDEFINED"

(* The stages of a connection: the CONNECT is on its way; the CONNACK is on *)
(* its way; the CONNECT was refused; the channel is authorized.            *)
Asking(ch, c, in) ==
  /\ ch.state = "AUTHORIZING" /\ ~ch.sock.session
  /\ Way(ch) = <<Login(c)>> /\ Only(in, {"GARBAGE"})

AcknowledgedAt(in, k) ==
  /\ k \in 1..Len(in) /\ in[k] = "CONNACK"
  /\ \A i \in 1..Len(in) : (i < k => in[i] = "GARBAGE") /\ (i > k => in[i] \in Contents)

Accepted(ch, in) ==
  /\ ch.state = "AUTHORIZING" /\ ch.sock.session
  /\ Way(ch) = <<>> /\ \E k \in 1..Len(in) : AcknowledgedAt(in, k)

Refused(ch, in) ==
  /\ ch.state = "AUTHORIZING" /\ ~ch.sock.session
  /\ Way(ch) = <<>> /\ Only(in, Endings)

NoLogin(q) == \A i \in 1..Len(q) : q[i].type # "CONNECT"

Opened(ch, in) ==
  /\ ch.state \in {"AUTHORIZED", "DISCONNECTING"} /\ ch.sock.session
  /\ NoLogin(Way(ch)) /\ Only(in, Contents)

Stage(ch, c, in) == Asking(ch, c, in) \/ Accepted(ch, in) \/ Refused(ch, in) \/ Opened(ch, in)

Connected(ch, c, w) ==
  /\ ch.ap = "CONNECTED" /\ FdOpen(ch) /\ ch.queries = <<>>
  /\ ch.addr = ch.id /\ ch.sock.peer = ch.id
  /\ w = <<>> => ch.inbuf = <<>>
  /\ Stage(ch, c, In(ch, w))

Session(ch, c, w) == ~ch.leaked /\ (Offline(ch, c, w) \/ Connected(ch, c, w))

(* The bootstrap channel has at most one request for a list outstanding:   *)
(* pending, on its way or answered.                                        *)
Asks  == {"CONNECT", "KAASYNC"}
Names == {"KAASYNC", "EMPTY"}
NoAsk(q)   == \A i \in 1..Len(q) : q[i].type \notin Asks
NoName(q)  == \A i \in 1..Len(q) : q[i] \notin Names
OneAsk(q)  == \A i, j \in 1..Len(q) : q[i].type \in Asks /\ q[j].type \in Asks => i = j
OneName(q) == \A i, j \in 1..Len(q) : q[i] \in Names /\ q[j] \in Names => i = j

Single(ch, w) ==
  /\ ch.pending \subseteq {"bootstrap"}
  /\ OneAsk(Way(ch)) /\ OneName(In(ch, w))
  /\ NoAsk(Way(ch)) \/ NoName(In(ch, w))
  /\ ch.pending # {} => NoAsk(Way(ch)) /\ NoName(In(ch, w)) /\ ch.state # "AUTHORIZING"

Quiet(ch, w) ==
  /\ ch.ap \in {"RESOLVED", "CONNECTED"} /\ ch.addr = ch.id
  /\ ch.state # "AUTHORIZING" /\ ch.sync # "STARTED" /\ ch.pending = {}
  /\ NoAsk(Way(ch)) /\ NoName(In(ch, w))

(* The two channels take turns: while the operations channel has a list to *)
(* work on nothing is asked of a bootstrap server, and while it has none it *)
(* has no access point to dial.                                            *)
Handover(s, w) ==
  IF s.current \in 1..NOps THEN Quiet(s.ch["boot"], w["boot"])
                           ELSE s.ch["ops"].ap \in {"NOT_SET", "RESOLVED"}

(* What the application asked for is on its way to a server that listens.  *)
Covered(ch, owing) ==
  ch.sock.session =>
    \A x \in owing : x \in ch.pending \/ \E i \in 1..Len(Way(ch)) : x \in Way(ch)[i].svcs

Orderly(s, w) ==
  /\ Session(s.ch["boot"], "boot", w["boot"]) /\ Session(s.ch["ops"], "ops", w["ops"])
  /\ Single(s.ch["boot"], w["boot"])
  /\ Handover(s, w)
  /\ Covered(s.ch["ops"], s.owed)
-----------------------------------------------------------------------------
(* Sequences of messages. *)

LEMMA ConcatEmpty ==
  ASSUME NEW S, NEW q \in Seq(S)
  PROVE  <<>> \o q = q /\ q \o <<>> = q
  OBVIOUS

LEMMA ConcatTail ==
  ASSUME NEW S, NEW p \in Seq(S), NEW q \in Seq(S), p # <<>>
  PROVE  /\ p \o q \in Seq(S) /\ p \o q # <<>>
         /\ Tail(p) \in Seq(S) /\ Tail(p) \o q = Tail(p \o q) /\ (p \o q)[1] = Head(p)
  OBVIOUS

LEMMA ConcatAppend ==
  ASSUME NEW p \in Seq(ClientMsgs), NEW q \in Seq(ClientMsgs), NEW m \in ClientMsgs
  PROVE  p \o Append(q, m) = Append(p \o q, m)
  OBVIOUS

LEMMA ConcatConcat ==
  ASSUME NEW S, NEW p \in Seq(S), NEW q \in Seq(S), NEW r \in Seq(S)
  PROVE  p \o (q \o r) = (p \o q) \o r
  OBVIOUS

LEMMA SplitConcat ==
  ASSUME NEW S, NEW q \in Seq(S), NEW n \in 1..Len(q)
  PROVE  SubSeq(q, 1, n) \o SubSeq(q, n + 1, Len(q)) = q
  OBVIOUS

LEMMA OnlyEmpty == ASSUME NEW T PROVE Only(<<>>, T)
  BY DEF Only

LEMMA OnlyParts ==
  ASSUME NEW S, NEW T, NEW p \in Seq(S), NEW q \in Seq(S)
  PROVE  Only(p \o q, T) <=> Only(p, T) /\ Only(q, T)
  <1>1. ASSUME Only(p \o q, T), NEW i \in 1..Len(p) PROVE p[i] \in T
    <2>1. i \in 1..Len(p \o q) /\ (p \o q)[i] = p[i]
      OBVIOUS
    <2>2. QED BY <1>1, <2>1 DEF Only
  <1>2. ASSUME Only(p \o q, T), NEW i \in 1..Len(q) PROVE q[i] \in T
    <2>1. Len(p) + i \in 1..Len(p \o q) /\ (p \o q)[Len(p) + i] = q[i]
      OBVIOUS
    <2>2. QED BY <1>2, <2>1 DEF Only
  <1>3. ASSUME Only(p, T), Only(q, T), NEW i \in 1..Len(p \o q) PROVE (p \o q)[i] \in T
    <2>1. CASE i \in 1..Len(p)
      <3>1. (p \o q)[i] = p[i]
        BY <2>1
      <3>2. QED BY <1>3, <2>1, <3>1 DEF Only
    <2>2. CASE i \notin 1..Len(p)
      <3>1. i - Len(p) \in 1..Len(q) /\ (p \o q)[i] = q[i - Len(p)]
        BY <2>2
      <3>2. QED BY <1>3, <3>1 DEF Only
    <2>3. QED BY <2>1, <2>2
  <1>4. QED BY <1>1, <1>2, <1>3 DEF Only

LEMMA TailElements ==
  ASSUME NEW S, NEW q \in Seq(S), q # <<>>
  PROVE  /\ Len(Tail(q)) = Len(q) - 1 /\ Len(q) \in Nat \ {0} /\ Head(q) = q[1]
         /\ \A i \in 1..Len(Tail(q)) : i + 1 \in 1..Len(q) /\ Tail(q)[i] = q[i + 1]
  OBVIOUS

LEMMA AppendElements ==
  ASSUME NEW S, NEW q \in Seq(S), NEW m \in S
  PROVE  /\ Len(Append(q, m)) = Len(q) + 1 /\ Len(q) \in Nat
         /\ Append(q, m)[Len(q) + 1] = m
         /\ \A i \in 1..Len(q) : Append(q, m)[i] = q[i]
  OBVIOUS

LEMMA OnlyTail ==
  ASSUME NEW S, NEW T, NEW q \in Seq(S), q # <<>>, Only(q, T)
  PROVE  Only(Tail(q), T) /\ Head(q) \in T
  BY TailElements DEF Only

LEMMA OnlyAppend ==
  ASSUME NEW S, NEW T, NEW q \in Seq(S), NEW m \in S, m \in T, Only(q, T)
  PROVE  Only(Append(q, m), T)
  BY AppendElements DEF Only

LEMMA OnlyMore ==
  ASSUME NEW T, NEW U, NEW q, Only(q, T), T \subseteq U
  PROVE  Only(q, U)
  BY DEF Only

LEMMA AcknowledgedTail ==
  ASSUME NEW q \in Seq(ServerMsgs), q # <<>>, NEW k \in 1..Len(q), AcknowledgedAt(q, k)
  PROVE  /\ k = 1 => Head(q) = "CONNACK" /\ Only(Tail(q), Contents)
         /\ k # 1 => Head(q) = "GARBAGE"
  BY TailElements DEF AcknowledgedAt, Only

LEMMA AcknowledgedAppend ==
  ASSUME NEW q \in Seq(ServerMsgs), NEW m \in ServerMsgs, NEW k \in 1..Len(q), AcknowledgedAt(q, k),
         m \in Contents
  PROVE  k \in 1..Len(Append(q, m)) /\ AcknowledgedAt(Append(q, m), k)
  <1>1. Len(Append(q, m)) = Len(q) + 1 /\ Len(q) \in Nat
    BY AppendElements
  <1>2. \A i \in 1..Len(Append(q, m)) :
          Append(q, m)[i] = IF i \in 1..Len(q) THEN q[i] ELSE m
    OBVIOUS
  <1>3. k \in 1..Len(Append(q, m)) /\ Append(q, m)[k] = "CONNACK"
    BY <1>1, <1>2 DEF AcknowledgedAt
  <1>4. ASSUME NEW i \in 1..Len(Append(q, m))
        PROVE  /\ i < k => Append(q, m)[i] = "GARBAGE"
               /\ i > k => Append(q, m)[i] \in Contents
    <2>1. CASE i \in 1..Len(q)
      BY <1>2, <2>1 DEF AcknowledgedAt
    <2>2. CASE i \notin 1..Len(q)
      BY <1>1, <1>2, <2>2
    <2>3. QED BY <2>1, <2>2
  <1>5. QED BY <1>3, <1>4 DEF AcknowledgedAt

(* A CONNACK behind garbage. *)
LEMMA AcknowledgedLast ==
  ASSUME NEW q \in Seq(ServerMsgs), Only(q, {"GARBAGE"})
  PROVE  /\ Len(q) + 1 \in 1..Len(Append(q, "CONNACK"))
         /\ AcknowledgedAt(Append(q, "CONNACK"), Len(q) + 1)
  <1>1. "CONNACK" \in ServerMsgs
    BY DEF ServerMsgs
  <1>2. Len(Append(q, "CONNACK")) = Len(q) + 1 /\ Len(q) \in Nat
    BY <1>1, AppendElements
  <1>3. \A i \in 1..Len(Append(q, "CONNACK")) :
          Append(q, "CONNACK")[i] = IF i \in 1..Len(q) THEN q[i] ELSE "CONNACK"
    OBVIOUS
  <1>4. QED BY <1>2, <1>3 DEF AcknowledgedAt, Only

LEMMA NoNameTail ==
  ASSUME NEW q \in Seq(ServerMsgs), q # <<>>
  PROVE  /\ NoName(q) => NoName(Tail(q)) /\ Head(q) \notin Names
         /\ OneName(q) => OneName(Tail(q))
         /\ OneName(q) /\ Head(q) \in Names => NoName(Tail(q))
  <1>1. /\ Len(Tail(q)) = Len(q) - 1 /\ Len(q) \in Nat \ {0} /\ Head(q) = q[1] /\ 1 \in 1..Len(q)
        /\ \A i \in 1..Len(Tail(q)) : i + 1 \in 1..Len(q) /\ Tail(q)[i] = q[i + 1]
    BY TailElements
  <1>2. NoName(q) => NoName(Tail(q)) /\ Head(q) \notin Names
    BY <1>1 DEF NoName
  <1>3. ASSUME OneName(q), NEW i \in 1..Len(Tail(q)), NEW j \in 1..Len(Tail(q)),
               Tail(q)[i] \in Names, Tail(q)[j] \in Names
        PROVE  i = j
    <2>1. i + 1 = j + 1
      BY <1>1, <1>3 DEF OneName
    <2>2. QED BY <2>1
  <1>4. ASSUME OneName(q), Head(q) \in Names, NEW i \in 1..Len(Tail(q)), Tail(q)[i] \in Names
        PROVE  FALSE
    <2>1. 1 = i + 1
      BY <1>1, <1>4 DEF OneName
    <2>2. QED BY <2>1
  <1>5. QED BY <1>2, <1>3, <1>4 DEF NoName, OneName

LEMMA NoNameAppend ==
  ASSUME NEW q \in Seq(ServerMsgs), NEW m \in ServerMsgs
  PROVE  /\ NoName(q) /\ m \notin Names => NoName(Append(q, m))
         /\ OneName(q) /\ m \notin Names => OneName(Append(q, m))
         /\ NoName(q) => OneName(Append(q, m))
  <1>1. Len(Append(q, m)) = Len(q) + 1 /\ Len(q) \in Nat
    BY AppendElements
  <1>2. \A i \in 1..Len(Append(q, m)) :
          (i \in 1..Len(q) /\ Append(q, m)[i] = q[i]) \/ (i = Len(q) + 1 /\ Append(q, m)[i] = m)
    BY AppendElements
  <1>3. QED BY <1>2 DEF NoName, OneName

LEMMA NoAskTail ==
  ASSUME NEW q \in Seq(ClientMsgs), q # <<>>
  PROVE  /\ NoAsk(q) => NoAsk(Tail(q)) /\ Head(q).type \notin Asks
         /\ OneAsk(q) => OneAsk(Tail(q))
         /\ OneAsk(q) /\ Head(q).type \in Asks => NoAsk(Tail(q))
         /\ NoLogin(q) => NoLogin(Tail(q)) /\ Head(q).type # "CONNECT"
  <1>1. /\ Len(Tail(q)) = Len(q) - 1 /\ Len(q) \in Nat \ {0} /\ Head(q) = q[1] /\ 1 \in 1..Len(q)
        /\ \A i \in 1..Len(Tail(q)) : i + 1 \in 1..Len(q) /\ Tail(q)[i] = q[i + 1]
    BY TailElements
  <1>2. NoAsk(q) => NoAsk(Tail(q)) /\ Head(q).type \notin Asks
    BY <1>1 DEF NoAsk
  <1>3. ASSUME OneAsk(q), NEW i \in 1..Len(Tail(q)), NEW j \in 1..Len(Tail(q)),
               Tail(q)[i].type \in Asks, Tail(q)[j].type \in Asks
        PROVE  i = j
    <2>1. i + 1 = j + 1
      BY <1>1, <1>3 DEF OneAsk
    <2>2. QED BY <2>1
  <1>4. ASSUME OneAsk(q), Head(q).type \in Asks, NEW i \in 1..Len(Tail(q)), Tail(q)[i].type \in Asks
        PROVE  FALSE
    <2>1. 1 = i + 1
      BY <1>1, <1>4 DEF OneAsk
    <2>2. QED BY <2>1
  <1>5. NoLogin(q) => NoLogin(Tail(q)) /\ Head(q).type # "CONNECT"
    BY <1>1 DEF NoLogin
  <1>6. QED BY <1>2, <1>3, <1>4, <1>5 DEF NoAsk, OneAsk

LEMMA NoAskAppend ==
  ASSUME NEW q \in Seq(ClientMsgs), NEW m \in ClientMsgs
  PROVE  /\ NoAsk(q) /\ m.type \notin Asks => NoAsk(Append(q, m))
         /\ OneAsk(q) /\ m.type \notin Asks => OneAsk(Append(q, m))
         /\ NoAsk(q) => OneAsk(Append(q, m))
         /\ NoLogin(q) /\ m.type # "CONNECT" => NoLogin(Append(q, m))
  <1>1. Len(Append(q, m)) = Len(q) + 1 /\ Len(q) \in Nat
    BY AppendElements
  <1>2. \A i \in 1..Len(Append(q, m)) :
          (i \in 1..Len(q) /\ Append(q, m)[i] = q[i]) \/ (i = Len(q) + 1 /\ Append(q, m)[i] = m)
    BY AppendElements
  <1>3. QED BY <1>2 DEF NoAsk, OneAsk, NoLogin

LEMMA EmptyQueues ==
  /\ NoAsk(<<>>) /\ OneAsk(<<>>) /\ NoLogin(<<>>) /\ NoName(<<>>) /\ OneName(<<>>)
  BY DEF NoAsk, OneAsk, NoLogin, NoName, OneName

LEMMA OnlyEndings ==
  ASSUME NEW q, Only(q, Endings)
  PROVE  NoName(q) /\ OneName(q)
  BY DEF Only, Endings, NoName, OneName, Names
-----------------------------------------------------------------------------
(* Channels. *)

Waits == [Channels -> Seq(ServerMsgs)]

LEMMA EmptySocket ==
  /\ NoSocket.st = "none" /\ NoSocket.c2s = <<>> /\ NoSocket.s2c = <<>> /\ NoSocket.session = FALSE
  BY DEF NoSocket

LEMMA Fields ==
  ASSUME NEW ch \in ChannelRecords, NEW w \in Seq(ServerMsgs)
  PROVE  /\ ch.sock \in Sockets /\ ch.sock.st \in {"none", "syn", "up", "refused", "closed"}
         /\ ch.sock.session \in BOOLEAN
         /\ ch.sock.c2s \in Seq(ClientMsgs) /\ ch.sock.s2c \in Seq(ServerMsgs)
         /\ ch.out \in Seq(ClientMsgs) /\ ch.inbuf \in Seq(ServerMsgs)
         /\ Way(ch) \in Seq(ClientMsgs) /\ In(ch, w) \in Seq(ServerMsgs)
  <1>1. /\ ch.sock \in Sockets /\ ch.sock.st \in {"none", "syn", "up", "refused", "closed"}
        /\ ch.sock.session \in BOOLEAN
        /\ ch.sock.c2s \in Seq(ClientMsgs) /\ ch.sock.s2c \in Seq(ServerMsgs)
        /\ ch.out \in Seq(ClientMsgs) /\ ch.inbuf \in Seq(ServerMsgs)
    BY DEF ChannelRecords, Sockets
  <1>2. Way(ch) \in Seq(ClientMsgs)
    BY <1>1 DEF Way
  <1>3. In(ch, w) \in Seq(ServerMsgs)
    BY <1>1 DEF In
  <1>4. QED BY <1>1, <1>2, <1>3

(* Requests and keepalives are no business of the session. *)
LEMMA SameSession ==
  ASSUME NEW x, NEW y, NEW c, NEW w, Session(x, c, w),
         y.ap = x.ap, y.id = x.id, y.addr = x.addr, y.queries = x.queries, y.sock = x.sock,
         y.leaked = x.leaked, y.state = x.state, y.sync = x.sync, y.out = x.out, y.inbuf = x.inbuf
  PROVE  Session(y, c, w)
  <1>1. Way(y) = Way(x) /\ In(y, w) = In(x, w) /\ (FdOpen(y) <=> FdOpen(x))
    BY DEF Way, In, FdOpen
  <1>2. Offline(x, c, w) => Offline(y, c, w)
    BY <1>1 DEF Offline, Unstarted
  <1>3. Connected(x, c, w) => Connected(y, c, w)
    BY <1>1 DEF Connected, Stage, Asking, Accepted, Refused, Opened
  <1>4. QED BY <1>2, <1>3 DEF Session

(* A channel that lost its connection, and one that was given another      *)
(* access point.                                                           *)
Down(ch) ==
  /\ ch.ap \in {"NOT_SET", "SET", "RESOLVED"} /\ ch.sock = NoSocket /\ ~ch.leaked
  /\ ch.queries = <<>> /\ ch.state = "UNDEFINED" /\ ch.sync = "UNDEFINED"
  /\ ch.out = <<>> /\ ch.inbuf = <<>>

Loose(ch) ==
  /\ ch.ap \in {"NOT_SET", "RESOLVED"} /\ ch.sock = NoSocket /\ ~ch.leaked /\ ch.queries = <<>>

Moved(x, y) ==
  /\ y.ap = "SET" /\ y.sock = NoSocket /\ ~y.leaked /\ y.queries = <<>>
  /\ y.addr = x.addr /\ y.state = x.state /\ y.sync = x.sync /\ y.pending = x.pending
  /\ y.out = x.out /\ y.inbuf = x.inbuf

LEMMA EmptyWay ==
  ASSUME NEW ch \in ChannelRecords, NEW w \in Seq(ServerMsgs), ch.sock = NoSocket
  PROVE  Way(ch) = ch.out /\ In(ch, w) = w
  <1>1. ch.out \in Seq(ClientMsgs)
    BY Fields
  <1>2. ch.sock.c2s = <<>> /\ ch.sock.s2c = <<>>
    BY EmptySocket
  <1>3. QED BY <1>1, <1>2, ConcatEmpty DEF Way, In

LEMMA DownOrderly ==
  ASSUME NEW ch \in ChannelRecords, NEW c, NEW w \in Seq(ServerMsgs), Down(ch), Only(w, Endings)
  PROVE  /\ Session(ch, c, w) /\ (ch.pending \subseteq {"bootstrap"} => Single(ch, w))
         /\ NoAsk(Way(ch)) /\ NoName(In(ch, w))
         /\ \A owing : Covered(ch, owing)
  <1>1. Way(ch) = <<>> /\ In(ch, w) = w
    BY EmptyWay DEF Down
  <1>2. Offline(ch, c, w)
    BY EmptySocket, OnlyEmpty DEF Down, Offline, Unstarted
  <1>3. NoAsk(Way(ch)) /\ OneAsk(Way(ch)) /\ NoName(In(ch, w)) /\ OneName(In(ch, w))
    BY <1>1, EmptyQueues, OnlyEndings
  <1>4. \A owing : Covered(ch, owing)
    BY EmptySocket DEF Down, Covered
  <1>5. QED BY <1>2, <1>3, <1>4 DEF Session, Single, Down

LEMMA SetLoose ==
  ASSUME NEW ch \in ChannelRecords, NEW id \in Nat, Loose(ch)
  PROVE  Moved(ch, SetAccessPoint(ch, id))
  <1>1. ~FdOpen(ch)
    BY EmptySocket DEF Loose, FdOpen
  <1> DEFINE r == IF ch.ap # "NOT_SET" THEN ReleaseAccessPoint(ch) ELSE ch
  <1>2. /\ DOMAIN r = DOMAIN ch /\ r.sock = NoSocket /\ ~r.leaked /\ r.queries = <<>>
        /\ r.addr = ch.addr /\ r.state = ch.state /\ r.sync = ch.sync /\ r.pending = ch.pending
        /\ r.out = ch.out /\ r.inbuf = ch.inbuf /\ r \in ChannelRecords
    <2>1. CASE ch.ap = "NOT_SET"
      BY <2>1 DEF Loose
    <2>2. CASE ch.ap # "NOT_SET"
      BY <1>1, <2>2, NoSocketType DEF Loose, ReleaseAccessPoint, ChannelRecords, APStates
    <2>3. QED BY <2>1, <2>2
  <1>3. SetAccessPoint(ch, id) = [r EXCEPT !.ap = "SET", !.id = id]
    BY DEF SetAccessPoint
  <1> HIDE DEF r
  <1>4. QED BY <1>2, <1>3 DEF Moved, ChannelRecords

(* Another access point does not disturb a channel without a connection. *)
LEMMA MovedOffline ==
  ASSUME NEW x \in ChannelRecords, NEW y \in ChannelRecords, NEW c, NEW w \in Seq(ServerMsgs),
         Moved(x, y), Unstarted(x, c), x.inbuf = <<>>, Only(w, Endings),
         w # <<>> => x.state = "UNDEFINED" /\ x.sync = "UNDEFINED"
  PROVE  /\ Session(y, c, w)
         /\ x.state = "UNDEFINED" /\ x.pending \subseteq {"bootstrap"} => Single(y, w)
         /\ \A owing : Covered(y, owing)
  <1>1. Way(y) = y.out /\ In(y, w) = w
    BY EmptyWay DEF Moved
  <1>2. Offline(y, c, w)
    BY EmptySocket, OnlyEmpty DEF Moved, Offline, Unstarted
  <1>3. Session(y, c, w)
    BY <1>2 DEF Session, Moved
  <1>4. ASSUME x.state = "UNDEFINED", x.pending \subseteq {"bootstrap"} PROVE Single(y, w)
    <2>1. y.out = <<>> /\ y.state # "AUTHORIZING" /\ y.pending \subseteq {"bootstrap"}
      BY <1>4 DEF Moved, Unstarted
    <2>2. QED BY <1>1, <2>1, EmptyQueues, OnlyEndings DEF Single
  <1>5. \A owing : Covered(y, owing)
    BY EmptySocket DEF Moved, Covered
  <1>6. QED BY <1>3, <1>4, <1>5
-----------------------------------------------------------------------------
(* Access points that fail. *)

LEMMA BootstrapFailedMoves ==
  ASSUME NEW s \in GoodSystems, Loose(s.ch["boot"])
  PROVE  LET r == BootstrapFailed(s)
         IN  /\ Moved(s.ch["boot"], r.ch["boot"]) /\ r.ch["ops"] = s.ch["ops"]
             /\ r.current = s.current /\ r.owed = s.owed /\ ~r.err
  <1> DEFINE next == IF s.boot < NBoot THEN s.boot + 1 ELSE 1
             x == SetAccessPoint(s.ch["boot"], next)
  <1>1. next \in Nat
    BY ConstantTypes DEF GoodSystems
  <1>2. s.ch["boot"] \in ChannelRecords
    BY ChannelNames, ChGood
  <1>3. Moved(s.ch["boot"], x)
    BY <1>1, <1>2, SetLoose
  <1>4. BootstrapFailed(s) = [Put(s, "boot", x) EXCEPT !.boot = next]
    BY DEF BootstrapFailed
  <1> HIDE DEF next, x
  <1>5. QED BY <1>3, <1>4, ChannelNames DEF GoodSystems, Put, Channels

(* A quiet bootstrap channel that is asked for a list: it dials if it must. *)
LEMMA BootstrapSyncOrderly ==
  ASSUME NEW s \in GoodSystems, NEW e, Session(s.ch["boot"], "boot", <<>>), Quiet(s.ch["boot"], <<>>)
  PROVE  LET r == BootstrapSync(s, e)
         IN  /\ Session(r.ch["boot"], "boot", <<>>) /\ Single(r.ch["boot"], <<>>)
             /\ r.ch["ops"] = s.ch["ops"] /\ r.current = s.current /\ r.owed = s.owed
  <1> DEFINE b  == s.ch["boot"]
             x  == UpdatePending(b, {"bootstrap"})
             s1 == Put(s, "boot", x)
             ok == <<"open", "boot">> \notin e
             y  == ConnectAccessPoint(x, ok)
             s2 == Connect(s1, "boot", e)
  <1>1. b \in ChannelRecords /\ b \in GoodChannels /\ <<>> \in Seq(ServerMsgs)
    BY ChannelNames, ChGood, EmptySeqType
  <1>2. x = [b EXCEPT !.pending = b.pending \cup {"bootstrap"}]
    BY DEF UpdatePending
  <1>3. x \in GoodChannels
    BY <1>1, PendingGood DEF Services
  <1>4. /\ s1 \in GoodSystems /\ s1.ch["boot"] = x /\ s1.ch["ops"] = s.ch["ops"]
        /\ s1.current = s.current /\ s1.owed = s.owed /\ ~s1.err
    BY <1>3, ChannelNames, PutGood DEF Put, GoodSystems, Channels
  <1> HIDE DEF s1
  <1>5. Session(x, "boot", <<>>)
    BY <1>1, <1>2, SameSession DEF ChannelRecords
  <1>6. NoAsk(Way(x)) /\ OneAsk(Way(x)) /\ NoName(In(x, <<>>)) /\ OneName(In(x, <<>>))
    <2>1. Way(x) = Way(b) /\ In(x, <<>>) = In(b, <<>>)
      BY <1>1, <1>2 DEF Way, In, ChannelRecords
    <2>2. QED BY <2>1 DEF Quiet, NoAsk, OneAsk, NoName, OneName
  <1>7. Single(x, <<>>)
    <2>1. x.state # "AUTHORIZING" /\ x.pending \subseteq {"bootstrap"}
      BY <1>1, <1>2 DEF Quiet, ChannelRecords
    <2>2. QED BY <1>6, <2>1 DEF Single
  <1>8. CASE ~NeedsConnection(x)
    <2>1. BootstrapSync(s, e) = s1
      BY <1>4, <1>8 DEF BootstrapSync, TrySync, s1
    <2>2. QED BY <1>4, <1>5, <1>7, <2>1
  <1>9. CASE NeedsConnection(x)
    <2>1. /\ x.ap = "RESOLVED" /\ x.state = "UNDEFINED" /\ x.out = <<>> /\ x.inbuf = <<>>
          /\ x.sock = NoSocket /\ x.queries = <<>> /\ ~x.leaked /\ x.addr = x.id
      <3>1. Offline(x, "boot", <<>>)
        BY <1>5, <1>9 DEF Session, Connected, NeedsConnection
      <3>2. x.addr = x.id
        BY <1>1, <1>2 DEF Quiet, ChannelRecords
      <3>3. QED BY <1>5, <1>9, <3>1, <3>2 DEF Session, Offline, Unstarted, NeedsConnection
    <2>2. /\ TrySync(s, "boot", {"bootstrap"}, e) = s2
          /\ BootstrapSync(s, e) = IF s2.err THEN BootstrapFailed(s2) ELSE s2
      BY <1>4, <1>9 DEF BootstrapSync, TrySync, s1
    <2>3. s2 \in GoodSystems
      BY <1>4, <2>1, ChannelNames, SystemConnectGood DEF MayDial
    <2>4. /\ s2.ch["boot"] = y /\ s2.ch["ops"] = s.ch["ops"]
          /\ s2.current = s.current /\ s2.owed = s.owed /\ (s2.err <=> ~ok)
      <3>1. Put(s1, "boot", y) \in GoodSystems
        <4>1. y \in GoodChannels
          BY <1>3, <2>1, ConnectGood
        <4>2. QED BY <1>4, <4>1, ChannelNames, PutGood
      <3>2. s2 = [Strikes(Put(s1, "boot", y), <<"open", "boot">>, e) EXCEPT !.err = ~ok]
        BY <1>4 DEF Connect
      <3> HIDE DEF y, s2
      <3>3. QED BY <1>4, <3>1, <3>2, ChannelNames DEF Strikes, Put, GoodSystems, Channels
    <2> HIDE DEF s2
    <2>5. CASE ok
      <3> DEFINE sock == [NoSocket EXCEPT !.st = "syn", !.peer = x.addr]
      <3>0. /\ sock.st = "syn" /\ sock.peer = x.addr /\ sock.c2s = <<>> /\ sock.s2c = <<>>
            /\ ~sock.session
        BY DEF NoSocket
      <3>1. y = [x EXCEPT !.leaked = x.leaked \/ FdOpen(x), !.sock = sock,
                          !.ap = "CONNECTING", !.sync = "STARTED"]
        BY <2>5 DEF ConnectAccessPoint
      <3> HIDE DEF y, sock
      <3>2. /\ y.ap = "CONNECTING" /\ y.state = "UNDEFINED" /\ y.out = <<>> /\ y.inbuf = <<>>
            /\ y.queries = <<>> /\ ~y.leaked /\ y.addr = y.id
            /\ y.sock.st = "syn" /\ y.sock.peer = y.addr /\ y.sock.c2s = <<>> /\ y.sock.s2c = <<>>
            /\ ~y.sock.session /\ y.pending = x.pending
        BY <1>3, <2>1, <3>0, <3>1, EmptySocket DEF GoodChannels, ChannelRecords, FdOpen
      <3> HIDE DEF x
      <3>3. Way(y) = <<>> /\ In(y, <<>>) = <<>>
        BY <3>2 DEF Way, In
      <3>4. Offline(y, "boot", <<>>)
        BY <3>2, OnlyEmpty DEF Offline, Unstarted, FdOpen
      <3>5. Session(y, "boot", <<>>) /\ Single(y, <<>>)
        BY <1>7, <3>2, <3>3, <3>4, EmptyQueues DEF Session, Single
      <3>6. QED BY <2>2, <2>4, <2>5, <3>5
    <2>6. CASE ~ok
      <3>1. y = x
        BY <2>6 DEF ConnectAccessPoint
      <3>2. Loose(s2.ch["boot"])
        BY <2>1, <2>4, <3>1 DEF Loose
      <3> DEFINE r == BootstrapFailed(s2)
      <3>3. /\ Moved(x, r.ch["boot"]) /\ r.ch["ops"] = s.ch["ops"]
            /\ r.current = s.current /\ r.owed = s.owed
        BY <2>3, <2>4, <3>1, <3>2, BootstrapFailedMoves
      <3>4. r.ch["boot"] \in ChannelRecords
        BY <2>3, BootstrapFailedGood, ChannelNames, ChGood
      <3>5. x \in ChannelRecords /\ Unstarted(x, "boot") /\ Only(<<>>, Endings)
        BY <1>3, <2>1, OnlyEmpty DEF GoodChannels, Unstarted
      <3> HIDE DEF r, x, y
      <3>6. Session(r.ch["boot"], "boot", <<>>) /\ Single(r.ch["boot"], <<>>)
        BY <1>1, <1>7, <2>1, <3>3, <3>4, <3>5, MovedOffline DEF Single
      <3>7. QED BY <2>2, <2>4, <2>6, <3>3, <3>6 DEF r
    <2>7. QED BY <2>5, <2>6
  <1>10. QED BY <1>8, <1>9

(* The next access point of the list, or the end of the list. *)
NextOrNone(s, r) ==
  /\ r.owed = s.owed
  /\ Session(r.ch["boot"], "boot", <<>>) /\ Single(r.ch["boot"], <<>>)
  /\ \/ /\ r.current \in 1..NOps /\ r.ch["boot"] = s.ch["boot"]
        /\ Moved(s.ch["ops"], r.ch["ops"])
     \/ r.current \notin 1..NOps /\ r.ch["ops"] = s.ch["ops"]

LEMMA OperationsFailedOrderly ==
  ASSUME NEW s \in GoodSystems, NEW e, Loose(s.ch["ops"]), s.current \in 1..NOps,
         Session(s.ch["boot"], "boot", <<>>), Single(s.ch["boot"], <<>>), Quiet(s.ch["boot"], <<>>)
  PROVE  NextOrNone(s, OperationsFailed(s, e))
  <1> DEFINE r == OperationsFailed(s, e)
  <1>0. NOps \in Nat \ {0} /\ s.current \in Nat /\ s.current # NoList
    BY ConstantTypes DEF NoList
  <1>1. CASE s.current < NOps
    <2> DEFINE x == SetAccessPoint(s.ch["ops"], s.current + 1)
    <2>1. Moved(s.ch["ops"], x)
      BY <1>0, ChannelNames, ChGood, SetLoose
    <2>2. r = [Put(s, "ops", x) EXCEPT !.current = Put(s, "ops", x).current + 1]
      BY <1>0, <1>1 DEF OperationsFailed
    <2> HIDE DEF x, r
    <2>3. /\ r.ch["ops"] = x /\ r.ch["boot"] = s.ch["boot"] /\ r.owed = s.owed
          /\ r.current = s.current + 1
      BY <2>2, ChannelNames DEF Put, GoodSystems, Channels
    <2>4. r.current \in 1..NOps
      BY <1>0, <1>1, <2>3
    <2>5. QED BY <2>1, <2>3, <2>4 DEF NextOrNone, r
  <1>2. CASE ~(s.current < NOps)
    <2> DEFINE s1 == [s EXCEPT !.current = NOps + 1]
               s2 == BootstrapSync(s1, e)
    <2>1. /\ s1 \in GoodSystems /\ s1.ch = s.ch /\ s1.owed = s.owed /\ s1.current = NOps + 1
      BY <1>0, CurrentGood DEF GoodSystems
    <2>2. /\ Session(s2.ch["boot"], "boot", <<>>) /\ Single(s2.ch["boot"], <<>>)
          /\ s2.ch["ops"] = s.ch["ops"] /\ s2.current = NOps + 1 /\ s2.owed = s.owed
      BY <2>1, BootstrapSyncOrderly
    <2>3. s2 \in GoodSystems
      BY <2>1, BootstrapSyncGood
    <2>4. r = Fail(s2)
      BY <1>0, <1>2 DEF OperationsFailed
    <2> HIDE DEF s1, s2, r
    <2>5. r.ch = s2.ch /\ r.current = s2.current /\ r.owed = s2.owed
      BY <2>3, <2>4 DEF Fail, GoodSystems
    <2>6. r.current \notin 1..NOps
      BY <1>0, <2>2, <2>5
    <2>7. QED BY <2>2, <2>5, <2>6 DEF NextOrNone, r
  <1>3. QED BY <1>1, <1>2
-----------------------------------------------------------------------------
(* The connection is lost. *)

LEMMA PutParts ==
  ASSUME NEW s \in GoodSystems, NEW c \in Channels, NEW x
  PROVE  /\ Put(s, c, x).ch[c] = x /\ \A o \in Channels : o # c => Put(s, c, x).ch[o] = s.ch[o]
         /\ Put(s, c, x).current = s.current /\ Put(s, c, x).owed = s.owed /\ ~Put(s, c, x).err
  BY DEF Put, GoodSystems

LEMMA CloseLoose ==
  ASSUME NEW ch \in ChannelRecords, ~ch.leaked, ch.queries = <<>>
  PROVE  LET x == CloseSocket(ch)
         IN  /\ Loose(x) /\ x.ap = "RESOLVED" /\ x.state = "UNDEFINED" /\ x.addr = ch.addr
             /\ x.id = ch.id /\ x.pending = ch.pending /\ x.sync = ch.sync
  BY DEF CloseSocket, Loose, ChannelRecords

LEMMA ResetDown ==
  ASSUME NEW ch \in ChannelRecords, Loose(ch) \/ \E x : Moved(x, ch), ch.state = "UNDEFINED"
  PROVE  LET y == ResetChannel(ch)
         IN  /\ Down(y) /\ y.ap = ch.ap /\ y.addr = ch.addr /\ y.id = ch.id /\ y.pending = ch.pending
  BY DEF ResetChannel, Loose, Moved, Down, ChannelRecords

LEMMA SocketIoErrorBoot ==
  ASSUME NEW s \in GoodSystems, NEW e, NEW w \in Waits,
         ~s.ch["boot"].leaked, s.ch["boot"].queries = <<>>, Only(w["boot"], Endings),
         s.ch["boot"].pending \subseteq {"bootstrap"},
         Session(s.ch["ops"], "ops", w["ops"]), Covered(s.ch["ops"], s.owed),
         IF s.current \in 1..NOps
         THEN /\ s.ch["boot"].sync # "STARTED" /\ s.ch["boot"].pending = {}
              /\ s.ch["boot"].addr = s.ch["boot"].id
         ELSE s.ch["ops"].ap \in {"NOT_SET", "RESOLVED"}
  PROVE  LET r == SocketIoError(s, "boot", e)
         IN  /\ Orderly(r, w) /\ Down(r.ch["boot"]) /\ r.ch["boot"].pending = s.ch["boot"].pending
             /\ r.ch["ops"] = s.ch["ops"]
  <1> DEFINE b  == s.ch["boot"]
             x  == CloseSocket(b)
             s1 == Put(s, "boot", x)
             s2 == IF b.sync = "STARTED" THEN AccessPointFailed(s1, "boot", e) ELSE s1
             y  == ResetChannel(s2.ch["boot"])
             r  == SocketIoError(s, "boot", e)
  <1>1. b \in ChannelRecords /\ b \in GoodChannels /\ w["boot"] \in Seq(ServerMsgs)
    BY ChannelNames, ChGood DEF Waits
  <1>2. x \in GoodChannels
    BY <1>1, CloseGood
  <1>3. /\ Loose(x) /\ x.ap = "RESOLVED" /\ x.state = "UNDEFINED" /\ x.addr = b.addr
        /\ x.id = b.id /\ x.pending = b.pending
    BY <1>1, CloseLoose
  <1> HIDE DEF x
  <1>4. /\ s1 \in GoodSystems /\ s1.ch["boot"] = x /\ s1.ch["ops"] = s.ch["ops"]
        /\ s1.current = s.current /\ s1.owed = s.owed
    BY <1>2, ChannelNames, PutGood, PutParts
  <1> HIDE DEF s1
  <1>5. /\ s2 \in GoodSystems /\ s2.ch["ops"] = s.ch["ops"]
        /\ s2.current = s.current /\ s2.owed = s.owed
        /\ IF b.sync = "STARTED" THEN Moved(x, s2.ch["boot"]) ELSE s2.ch["boot"] = x
    <2>1. CASE b.sync = "STARTED"
      <3>1. s2 = BootstrapFailed(s1)
        BY <2>1 DEF AccessPointFailed
      <3>2. Loose(s1.ch["boot"])
        BY <1>3, <1>4
      <3> HIDE DEF s2
      <3>3. QED BY <1>4, <2>1, <3>1, <3>2, BootstrapFailedMoves, BootstrapFailedGood
    <2>2. CASE b.sync # "STARTED"
      BY <1>4, <2>2
    <2>3. QED BY <2>1, <2>2
  <1>6. r = [s2 EXCEPT !.ch["boot"] = y]
    BY DEF SocketIoError, s1, x
  <1> HIDE DEF s2, r
  <1>7. s2.ch["boot"] \in ChannelRecords /\ s2.ch["boot"].state = "UNDEFINED"
        /\ (Loose(s2.ch["boot"]) \/ \E z : Moved(z, s2.ch["boot"]))
    <2>1. s2.ch["boot"] \in ChannelRecords
      BY <1>5, ChannelNames, ChGood
    <2>2. QED BY <1>3, <1>5, <2>1 DEF Moved
  <1>8. /\ Down(y) /\ y.pending = s2.ch["boot"].pending /\ y.ap = s2.ch["boot"].ap
        /\ y.addr = s2.ch["boot"].addr /\ y.id = s2.ch["boot"].id
    BY <1>7, ResetDown
  <1>9. y \in ChannelRecords
    <2>1. s2.ch["boot"] \in GoodChannels
      BY <1>5, ChannelNames, ChGood
    <2>2. QED BY <2>1, ResetGood DEF GoodChannels
  <1> HIDE DEF y
  <1>10. /\ r.ch["boot"] = y /\ r.ch["ops"] = s.ch["ops"] /\ r.current = s.current /\ r.owed = s.owed
    BY <1>5, <1>6, ChannelNames DEF GoodSystems, Channels
  <1>11. y.pending = b.pending
    BY <1>3, <1>5, <1>8 DEF Moved
  <1>12. /\ Session(y, "boot", w["boot"]) /\ Single(y, w["boot"])
         /\ NoAsk(Way(y)) /\ NoName(In(y, w["boot"]))
    BY <1>1, <1>8, <1>9, <1>11, DownOrderly
  <1>13. Handover(r, w)
    <2>1. CASE s.current \in 1..NOps
      <3>1. s2.ch["boot"] = x
        BY <1>5, <2>1
      <3>2. y.ap = "RESOLVED" /\ y.addr = y.id /\ y.pending = {}
        BY <1>3, <1>8, <1>11, <2>1, <3>1
      <3>3. Quiet(y, w["boot"])
        BY <1>8, <1>12, <3>2 DEF Quiet, Down
      <3>4. QED BY <1>10, <2>1, <3>3 DEF Handover
    <2>2. CASE s.current \notin 1..NOps
      BY <1>10, <2>2 DEF Handover
    <2>3. QED BY <2>1, <2>2
  <1>14. QED BY <1>8, <1>10, <1>11, <1>12, <1>13 DEF Orderly, r

LEMMA SocketIoErrorOps ==
  ASSUME NEW s \in GoodSystems, NEW e, NEW w \in Waits,
         ~s.ch["ops"].leaked, s.ch["ops"].queries = <<>>, Only(w["ops"], Endings), w["boot"] = <<>>,
         Session(s.ch["boot"], "boot", <<>>), Single(s.ch["boot"], <<>>),
         IF s.current \in 1..NOps THEN Quiet(s.ch["boot"], <<>>) ELSE s.ch["ops"].sync # "STARTED"
  PROVE  LET r == SocketIoError(s, "ops", e)
         IN  Orderly(r, w) /\ Down(r.ch["ops"])
  <1> DEFINE b  == s.ch["ops"]
             x  == CloseSocket(b)
             s1 == Put(s, "ops", x)
             s2 == IF b.sync = "STARTED" THEN AccessPointFailed(s1, "ops", e) ELSE s1
             y  == ResetChannel(s2.ch["ops"])
             r  == SocketIoError(s, "ops", e)
  <1>1. b \in ChannelRecords /\ b \in GoodChannels /\ w["ops"] \in Seq(ServerMsgs)
    BY ChannelNames, ChGood DEF Waits
  <1>2. x \in GoodChannels
    BY <1>1, CloseGood
  <1>3. Loose(x) /\ x.ap = "RESOLVED" /\ x.state = "UNDEFINED"
    BY <1>1, CloseLoose
  <1> HIDE DEF x
  <1>4. /\ s1 \in GoodSystems /\ s1.ch["ops"] = x /\ s1.ch["boot"] = s.ch["boot"]
        /\ s1.current = s.current /\ s1.owed = s.owed
    BY <1>2, ChannelNames, PutGood, PutParts
  <1> HIDE DEF s1
  <1>5. /\ s2 \in GoodSystems /\ s2.owed = s.owed
        /\ Session(s2.ch["boot"], "boot", <<>>) /\ Single(s2.ch["boot"], <<>>)
        /\ IF s2.current \in 1..NOps
           THEN s2.ch["boot"] = s.ch["boot"] /\ s.current \in 1..NOps
                /\ (s2.ch["ops"] = x \/ Moved(x, s2.ch["ops"]))
           ELSE s2.ch["ops"] = x
    <2>1. CASE b.sync = "STARTED"
      <3>1. s2 = OperationsFailed(s1, e)
        BY <2>1 DEF AccessPointFailed
      <3>2. NextOrNone(s1, s2)
        BY <1>3, <1>4, <2>1, <3>1, OperationsFailedOrderly
      <3>3. s2 \in GoodSystems
        BY <1>4, <3>1, OperationsFailedGood
      <3> HIDE DEF s2
      <3>4. QED BY <1>4, <2>1, <3>2, <3>3 DEF NextOrNone
    <2>2. CASE b.sync # "STARTED"
      BY <1>4, <2>2
    <2>3. QED BY <2>1, <2>2
  <1>6. r = [s2 EXCEPT !.ch["ops"] = y]
    BY DEF SocketIoError, s1, x
  <1> HIDE DEF s2, r
  <1>7. s2.ch["ops"] \in ChannelRecords /\ s2.ch["ops"].state = "UNDEFINED"
        /\ (Loose(s2.ch["ops"]) \/ \E z : Moved(z, s2.ch["ops"]))
    <2>1. s2.ch["ops"] \in ChannelRecords
      BY <1>5, ChannelNames, ChGood
    <2>2. QED BY <1>3, <1>5, <2>1 DEF Moved
  <1>8. Down(y) /\ y.ap = s2.ch["ops"].ap
    BY <1>7, ResetDown
  <1>9. y \in ChannelRecords
    <2>1. s2.ch["ops"] \in GoodChannels
      BY <1>5, ChannelNames, ChGood
    <2>2. QED BY <2>1, ResetGood DEF GoodChannels
  <1> HIDE DEF y
  <1>10. r.ch["ops"] = y /\ r.ch["boot"] = s2.ch["boot"] /\ r.current = s2.current /\ r.owed = s.owed
    BY <1>5, <1>6, ChannelNames DEF GoodSystems, Channels
  <1>11. Session(y, "ops", w["ops"]) /\ Covered(y, s.owed)
    BY <1>1, <1>8, <1>9, DownOrderly
  <1>12. Handover(r, w)
    <2>1. CASE r.current \in 1..NOps
      BY <1>5, <1>10, <2>1 DEF Handover
    <2>2. CASE r.current \notin 1..NOps
      BY <1>3, <1>5, <1>8, <1>10, <2>2 DEF Handover
    <2>3. QED BY <2>1, <2>2
  <1>13. QED BY <1>5, <1>8, <1>10, <1>11, <1>12 DEF Orderly, r

(* A channel of an orderly system fails while its messages are read (w1) or *)
(* its buffer is written; w2 is left for the parser.                       *)
LEMMA SocketIoErrorOrderly ==
  ASSUME NEW s \in GoodSystems, NEW e, NEW c \in Channels, NEW w1 \in Waits, NEW w2 \in Waits,
         Orderly(s, w1), s.ch[c].ap \in {"CONNECTING", "CONNECTED"} \/ w1[c] # <<>>,
         Only(w2[c], Endings),
         \A o \in Channels : o # c => w1[o] = <<>> /\ w2[o] = <<>>
  PROVE  LET r == SocketIoError(s, c, e)
         IN  /\ Orderly(r, w2) /\ Down(r.ch[c])
             /\ c = "boot" => r.ch["boot"].pending = s.ch["boot"].pending
  <1>1. ~s.ch[c].leaked /\ s.ch[c].queries = <<>>
    BY DEF Orderly, Session, Offline, Connected, Channels
  <1>2. CASE c = "boot"
    <2>1. Session(s.ch["ops"], "ops", w2["ops"]) /\ Covered(s.ch["ops"], s.owed)
      BY <1>2, ChannelNames DEF Orderly
    <2>2. IF s.current \in 1..NOps
          THEN /\ s.ch["boot"].sync # "STARTED" /\ s.ch["boot"].pending = {}
               /\ s.ch["boot"].addr = s.ch["boot"].id
          ELSE s.ch["ops"].ap \in {"NOT_SET", "RESOLVED"}
      BY DEF Orderly, Handover, Quiet
    <2>3. s.ch["boot"].pending \subseteq {"bootstrap"}
      BY DEF Orderly, Single
    <2>4. QED BY <1>1, <1>2, <2>1, <2>2, <2>3, SocketIoErrorBoot
  <1>3. CASE c = "ops"
    <2>1. w1["boot"] = <<>> /\ w2["boot"] = <<>>
      BY <1>3, ChannelNames
    <2>2. Session(s.ch["boot"], "boot", <<>>) /\ Single(s.ch["boot"], <<>>)
      BY <2>1 DEF Orderly
    <2>3. ASSUME s.current \notin 1..NOps PROVE s.ch["ops"].sync # "STARTED"
      <3>1. s.ch["ops"].ap \in {"NOT_SET", "RESOLVED"}
        BY <2>3 DEF Orderly, Handover
      <3>2. w1["ops"] # <<>> /\ Offline(s.ch["ops"], "ops", w1["ops"])
        BY <1>3, <3>1 DEF Orderly, Session, Connected
      <3>3. QED BY <3>2 DEF Offline
    <2>4. s.current \in 1..NOps => Quiet(s.ch["boot"], <<>>)
      BY <2>1 DEF Orderly, Handover
    <2>5. QED BY <1>1, <1>3, <2>1, <2>2, <2>3, <2>4, SocketIoErrorOps
  <1>4. QED BY <1>2, <1>3 DEF Channels
-----------------------------------------------------------------------------
(* The connection is used. *)

(* t is s with another value for one channel. *)
Replaced(s, t, c) ==
  /\ \A o \in Channels : o # c => t.ch[o] = s.ch[o]
  /\ t.current = s.current /\ t.owed = s.owed

LEMMA ReplacedOrderly ==
  ASSUME NEW s, NEW t, NEW c \in Channels, NEW w1, NEW w2, Orderly(s, w1), Replaced(s, t, c),
         \A o \in Channels : o # c => w2[o] = w1[o],
         Session(t.ch[c], c, w2[c]),
         c = "boot" => /\ Single(t.ch[c], w2[c])
                       /\ s.current \in 1..NOps => Quiet(t.ch[c], w2[c]),
         c = "ops" => /\ Covered(t.ch[c], s.owed)
                      /\ s.current \notin 1..NOps => t.ch[c].ap \in {"NOT_SET", "RESOLVED"}
  PROVE  Orderly(t, w2)
  <1>1. CASE c = "boot"
    <2>1. t.ch["ops"] = s.ch["ops"] /\ w2["ops"] = w1["ops"]
      BY <1>1, ChannelNames DEF Replaced
    <2>2. QED BY <1>1, <2>1 DEF Orderly, Handover, Replaced
  <1>2. CASE c = "ops"
    <2>1. t.ch["boot"] = s.ch["boot"] /\ w2["boot"] = w1["boot"]
      BY <1>2, ChannelNames DEF Replaced
    <2>2. QED BY <1>2, <2>1 DEF Orderly, Handover, Replaced
  <1>3. QED BY <1>1, <1>2 DEF Channels

LEMMA PutReplaced ==
  ASSUME NEW s \in GoodSystems, NEW c \in Channels, NEW x
  PROVE  Replaced(s, Put(s, c, x), c) /\ Put(s, c, x).ch[c] = x /\ ~Put(s, c, x).err
  BY DEF Put, GoodSystems, Replaced

LEMMA PutErrReplaced ==
  ASSUME NEW s \in GoodSystems, NEW c \in Channels, NEW x, NEW b
  PROVE  /\ Replaced(s, [Put(s, c, x) EXCEPT !.err = b], c)
         /\ [Put(s, c, x) EXCEPT !.err = b].ch[c] = x
         /\ [Put(s, c, x) EXCEPT !.err = b].err = b
  BY DEF Put, GoodSystems, Replaced

LEMMA FailOrderly ==
  ASSUME NEW s \in GoodSystems, NEW w, Orderly(s, w), NEW b
  PROVE  /\ Orderly(Fail(s), w) /\ Fail(s).ch = s.ch /\ Fail(s).err
         /\ Orderly([s EXCEPT !.err = b], w)
  <1>1. /\ Fail(s).ch = s.ch /\ Fail(s).current = s.current /\ Fail(s).owed = s.owed /\ Fail(s).err
        /\ [s EXCEPT !.err = b].ch = s.ch /\ [s EXCEPT !.err = b].current = s.current
        /\ [s EXCEPT !.err = b].owed = s.owed
    BY DEF Fail, GoodSystems
  <1>2. QED BY <1>1 DEF Orderly, Handover

LEMMA StrikesOrderly ==
  ASSUME NEW s \in GoodSystems, NEW w, Orderly(s, w), NEW f, NEW e
  PROVE  Orderly(Strikes(s, f, e), w) /\ Strikes(s, f, e).ch = s.ch
  <1>1. /\ Strikes(s, f, e).ch = s.ch /\ Strikes(s, f, e).current = s.current
        /\ Strikes(s, f, e).owed = s.owed
    BY DEF Strikes, GoodSystems
  <1>2. QED BY <1>1 DEF Orderly, Handover

(* The same stage of the same connection. *)
LEMMA SameStage ==
  ASSUME NEW x, NEW y, NEW c, NEW w, NEW v, x.ap = "CONNECTED", Session(x, c, w),
         y.ap = x.ap, y.id = x.id, y.addr = x.addr, y.queries = x.queries, y.leaked = x.leaked,
         y.state = x.state, y.sock.st # "none", y.sock.peer = x.sock.peer,
         y.sock.session = x.sock.session,
         y.pending = x.pending, y.sync = x.sync, Way(y) = Way(x), In(y, v) = In(x, w),
         v = <<>> => y.inbuf = <<>>
  PROVE  /\ Session(y, c, v)
         /\ Single(x, w) => Single(y, v)
         /\ Quiet(x, w) => Quiet(y, v)
         /\ \A owing : Covered(x, owing) => Covered(y, owing)
  <1>1. Connected(x, c, w) /\ ~x.leaked
    BY DEF Session, Offline
  <1>2. Stage(y, c, In(y, v))
    BY <1>1 DEF Connected, Stage, Asking, Accepted, Refused, Opened
  <1>3. Connected(y, c, v)
    BY <1>1, <1>2 DEF Connected, FdOpen
  <1>4. QED BY <1>1, <1>3 DEF Session, Single, Quiet, Covered

LEMMA TransmitStage ==
  ASSUME NEW ch \in ChannelRecords, NEW c, ch.ap = "CONNECTED", Session(ch, c, <<>>)
  PROVE  LET y == Transmit(ch)
         IN  /\ y.out = <<>> /\ y.ap = "CONNECTED" /\ y.state = ch.state /\ y.pending = ch.pending
             /\ Session(y, c, <<>>)
             /\ Single(ch, <<>>) => Single(y, <<>>)
             /\ Quiet(ch, <<>>) => Quiet(y, <<>>)
             /\ \A owing : Covered(ch, owing) => Covered(y, owing)
  <1> DEFINE q == ch.sock.c2s \o ch.out
             y == Transmit(ch)
  <1>1. /\ ch.sock \in Sockets /\ ch.sock.s2c \in Seq(ServerMsgs)
        /\ ch.sock.c2s \in Seq(ClientMsgs) /\ ch.out \in Seq(ClientMsgs) /\ <<>> \in Seq(ServerMsgs)
    BY Fields, EmptySeqType
  <1>2. q \in Seq(ClientMsgs) /\ q \o <<>> = q /\ q = Way(ch)
    BY <1>1 DEF Way
  <1>3. y = [ch EXCEPT !.sock.c2s = q, !.out = <<>>]
    BY DEF Transmit
  <1> HIDE DEF q, y
  <1>4. /\ y.ap = ch.ap /\ y.id = ch.id /\ y.addr = ch.addr /\ y.queries = ch.queries
        /\ y.leaked = ch.leaked /\ y.state = ch.state /\ y.pending = ch.pending /\ y.sync = ch.sync
        /\ y.inbuf = ch.inbuf /\ y.out = <<>>
        /\ y.sock.st = ch.sock.st /\ y.sock.peer = ch.sock.peer
        /\ y.sock.session = ch.sock.session /\ y.sock.c2s = q /\ y.sock.s2c = ch.sock.s2c
    BY <1>1, <1>3 DEF ChannelRecords, Sockets
  <1>5. Way(y) = Way(ch) /\ In(y, <<>>) = In(ch, <<>>)
    BY <1>2, <1>4 DEF Way, In
  <1>6. ch.sock.st # "none" /\ ch.inbuf = <<>>
    BY DEF Session, Offline, Connected, FdOpen
  <1>7. QED BY <1>4, <1>5, <1>6, SameStage DEF y

LEMMA Room == ASSUME NEW ch, ch.out = <<>> PROVE HasRoom(ch)
  BY OutCapacityAssumption DEF OutCapacityAssumption, HasRoom

LEMMA CoveredAppend ==
  ASSUME NEW x \in ChannelRecords, NEW y, NEW m \in ClientMsgs, NEW owing, Covered(x, owing),
         y.sock.session = x.sock.session, Way(y) = Append(Way(x), m),
         \A v \in x.pending : v \in y.pending \/ v \in m.svcs
  PROVE  Covered(y, owing)
  <1>1. Way(x) \in Seq(ClientMsgs)
    BY Fields, EmptySeqType
  <1>2. /\ Len(Way(y)) = Len(Way(x)) + 1 /\ Len(Way(x)) \in Nat /\ Way(y)[Len(Way(x)) + 1] = m
        /\ \A i \in 1..Len(Way(x)) : Way(y)[i] = Way(x)[i]
    BY <1>1, AppendElements
  <1>3. Len(Way(x)) + 1 \in 1..Len(Way(y)) /\ 1..Len(Way(x)) \subseteq 1..Len(Way(y))
    BY <1>2
  <1>4. ASSUME y.sock.session, NEW v \in owing
        PROVE  v \in y.pending \/ \E i \in 1..Len(Way(y)) : v \in Way(y)[i].svcs
    <2>1. CASE v \in x.pending
      BY <1>2, <1>3, <2>1
    <2>2. CASE \E i \in 1..Len(Way(x)) : v \in Way(x)[i].svcs
      BY <1>2, <1>3, <2>2
    <2>3. QED BY <1>4, <2>1, <2>2 DEF Covered
  <1>5. QED BY <1>4 DEF Covered

(* Another message in the buffer of a channel. *)
Queued(x, y, m) ==
  /\ y.out = Append(x.out, m)
  /\ y.ap = x.ap /\ y.id = x.id /\ y.addr = x.addr /\ y.queries = x.queries /\ y.leaked = x.leaked
  /\ y.sock = x.sock

LEMMA QueueStage ==
  ASSUME NEW x \in ChannelRecords, NEW y \in ChannelRecords, NEW c, NEW w \in Seq(ServerMsgs),
         NEW m \in ClientMsgs, m.type # "CONNECT",
         Session(x, c, w), x.ap = "CONNECTED", Opened(x, In(x, w)),
         Queued(x, y, m), y.state \in {"AUTHORIZED", "DISCONNECTING"}, w = <<>> => y.inbuf = <<>>
  PROVE  /\ Session(y, c, w)
         /\ NoName(In(x, w)) => NoName(In(y, w))
         /\ m.type \notin Asks /\ NoAsk(Way(x)) => NoAsk(Way(y))
         /\ m.type \notin Asks /\ y.pending = x.pending /\ Single(x, w) => Single(y, w)
         /\ NoAsk(Way(x)) /\ NoName(In(x, w)) /\ y.pending = {} => Single(y, w)
         /\ (\A v \in x.pending : v \in y.pending \/ v \in m.svcs) =>
              \A owing : Covered(x, owing) => Covered(y, owing)
  <1>1. Way(x) \in Seq(ClientMsgs) /\ x.sock.c2s \in Seq(ClientMsgs) /\ x.out \in Seq(ClientMsgs)
    BY Fields
  <1>2. Way(y) = Append(Way(x), m) /\ In(y, w) = In(x, w)
    <2>1. x.sock.c2s \o Append(x.out, m) = Append(x.sock.c2s \o x.out, m)
      BY <1>1, ConcatAppend
    <2>2. QED BY <2>1 DEF Way, In, Queued
  <1>3. NoLogin(Way(y))
    BY <1>1, <1>2, NoAskAppend DEF Opened
  <1>4. Opened(y, In(y, w))
    BY <1>2, <1>3 DEF Opened, Queued
  <1>5. Connected(y, c, w) /\ ~y.leaked
    BY <1>4 DEF Session, Offline, Connected, Stage, FdOpen, Queued
  <1>6. /\ NoName(In(x, w)) => NoName(In(y, w))
        /\ m.type \notin Asks /\ NoAsk(Way(x)) => NoAsk(Way(y))
        /\ m.type \notin Asks /\ OneAsk(Way(x)) => OneAsk(Way(y))
        /\ NoAsk(Way(x)) => OneAsk(Way(y))
    BY <1>1, <1>2, NoAskAppend
  <1>7. m.type \notin Asks /\ y.pending = x.pending /\ Single(x, w) => Single(y, w)
    BY <1>2, <1>6 DEF Single
  <1>8. NoAsk(Way(x)) /\ NoName(In(x, w)) /\ y.pending = {} => Single(y, w)
    <2>1. NoName(In(x, w)) => OneName(In(y, w))
      BY <1>2 DEF NoName, OneName
    <2>2. QED BY <1>6, <2>1 DEF Single
  <1>9. ASSUME \A v \in x.pending : v \in y.pending \/ v \in m.svcs, NEW owing, Covered(x, owing)
        PROVE  Covered(y, owing)
    BY <1>2, <1>9, CoveredAppend DEF Queued
  <1>10. QED BY <1>5, <1>6, <1>7, <1>8, <1>9 DEF Session

LEMMA OpenedStage ==
  ASSUME NEW ch, NEW c, NEW w, Session(ch, c, w), ch.ap = "CONNECTED", ch.state # "AUTHORIZING"
  PROVE  Opened(ch, In(ch, w)) /\ ch.state # "UNDEFINED"
  BY DEF Session, Offline, Connected, Stage, Asking, Accepted, Refused, Opened

Calm == [c \in Channels |-> <<>>]

LEMMA CalmType == Calm \in Waits /\ Calm["boot"] = <<>> /\ Calm["ops"] = <<>> /\ \A c \in Channels : Calm[c] = <<>>
  BY ChannelNames, EmptySeqType DEF Calm, Waits

LEMMA CalmSocketIoError ==
  ASSUME NEW s \in GoodSystems, NEW c \in Channels, NEW e, Orderly(s, Calm),
         s.ch[c].ap \in {"CONNECTING", "CONNECTED"}
  PROVE  Orderly(SocketIoError(s, c, e), Calm) /\ Down(SocketIoError(s, c, e).ch[c])
  <1>1. Only(Calm[c], Endings)
    BY CalmType, OnlyEmpty
  <1>2. QED BY <1>1, CalmType, SocketIoErrorOrderly

LEMMA CalmSession ==
  ASSUME NEW s \in GoodSystems, NEW c \in Channels, Orderly(s, Calm)
  PROVE  /\ s.ch[c] \in ChannelRecords /\ s.ch[c] \in GoodChannels /\ Session(s.ch[c], c, <<>>)
         /\ c = "boot" => /\ Single(s.ch[c], <<>>)
                          /\ s.current \in 1..NOps => Quiet(s.ch[c], <<>>)
         /\ c = "ops" => /\ Covered(s.ch[c], s.owed)
                         /\ s.current \notin 1..NOps => s.ch[c].ap \in {"NOT_SET", "RESOLVED"}
  BY ChGood, CalmType DEF Orderly, Handover, Channels

LEMMA CalmReplaced ==
  ASSUME NEW s, NEW t, NEW c \in Channels, Orderly(s, Calm), Replaced(s, t, c),
         Session(t.ch[c], c, <<>>),
         c = "boot" => /\ Single(t.ch[c], <<>>)
                       /\ s.current \in 1..NOps => Quiet(t.ch[c], <<>>),
         c = "ops" => /\ Covered(t.ch[c], s.owed)
                      /\ s.current \notin 1..NOps => t.ch[c].ap \in {"NOT_SET", "RESOLVED"}
  PROVE  Orderly(t, Calm)
  BY CalmType, ReplacedOrderly

LEMMA WriteBufferOrderly ==
  ASSUME NEW s \in GoodSystems, NEW c \in Channels, NEW e, Orderly(s, Calm),
         s.ch[c].ap = "CONNECTED"
  PROVE  LET r == WriteBuffer(s, c, e)
         IN  /\ Orderly(r, Calm)
             /\ Down(r.ch[c]) \/ (r.ch[c].ap = "CONNECTED" /\ (r.err \/ r.ch[c].out = <<>>))
  <1> DEFINE ch == s.ch[c]
             r == WriteBuffer(s, c, e)
  <1>1. /\ ch \in ChannelRecords /\ Session(ch, c, <<>>)
        /\ c = "boot" => Single(ch, <<>>) /\ (s.current \in 1..NOps => Quiet(ch, <<>>))
        /\ c = "ops" => Covered(ch, s.owed) /\ s.current \in 1..NOps
    BY CalmSession
  <1>2. FdOpen(ch)
    BY <1>1 DEF Session, Offline, Connected
  <1>3. CASE ch.out = <<>>
    <2>1. r = Put(s, c, ch)
      BY <1>3 DEF WriteBuffer
    <2>2. Replaced(s, r, c) /\ r.ch[c] = ch
      BY <2>1, PutReplaced
    <2>3. QED BY <1>1, <1>3, <2>2, CalmReplaced
  <1>4. CASE ch.out # <<>> /\ <<"write", c>> \in e
    <2> DEFINE t == Strikes(s, <<"write", c>>, e)
    <2>1. t \in GoodSystems /\ Orderly(t, Calm) /\ t.ch = s.ch
      BY FaultType, StrikesGood, StrikesOrderly
    <2>2. r = SocketIoError(t, c, e)
      BY <1>2, <1>4 DEF WriteBuffer
    <2> HIDE DEF t, r
    <2>3. Orderly(r, Calm) /\ Down(r.ch[c])
      BY <2>1, <2>2, CalmSocketIoError
    <2>4. QED BY <2>3 DEF r
  <1>5. CASE ch.out # <<>> /\ <<"write", c>> \notin e /\ <<"busy", c>> \in e
    <2> DEFINE t == Strikes(s, <<"busy", c>>, e)
    <2>1. t \in GoodSystems /\ Orderly(t, Calm) /\ t.ch = s.ch
      BY FaultType, StrikesGood, StrikesOrderly
    <2>2. r = Fail(t)
      BY <1>2, <1>5 DEF WriteBuffer
    <2>3. QED BY <2>1, <2>2, FailOrderly
  <1>6. CASE ch.out # <<>> /\ <<"write", c>> \notin e /\ <<"busy", c>> \notin e
    <2>1. r = Put(s, c, Transmit(ch))
      BY <1>2, <1>6 DEF WriteBuffer
    <2>2. Replaced(s, r, c) /\ r.ch[c] = Transmit(ch)
      BY <2>1, PutReplaced
    <2>3. /\ Transmit(ch).out = <<>> /\ Transmit(ch).ap = "CONNECTED"
          /\ Session(Transmit(ch), c, <<>>)
          /\ c = "boot" => /\ Single(Transmit(ch), <<>>)
                           /\ s.current \in 1..NOps => Quiet(Transmit(ch), <<>>)
          /\ c = "ops" => Covered(Transmit(ch), s.owed)
      BY <1>1, TransmitStage
    <2>4. QED BY <1>1, <2>2, <2>3, CalmReplaced
  <1>7. QED BY <1>3, <1>4, <1>5, <1>6

(* A CONNECT is queued. *)
LEMMA AuthorizeLogin ==
  ASSUME NEW ch \in ChannelRecords, NEW c \in Channels, ch.state = "UNDEFINED", ch.out = <<>>
  PROVE  LET y == Authorize(ch, c)
         IN  /\ ~AuthorizeFails(ch)
             /\ y.state = "AUTHORIZING" /\ y.out = <<Login(c)>> /\ y.pending = {}
             /\ y.ap = ch.ap /\ y.id = ch.id /\ y.addr = ch.addr /\ y.queries = ch.queries
             /\ y.leaked = ch.leaked /\ y.sock = ch.sock /\ y.inbuf = ch.inbuf
  <1> DEFINE idle == DeletePending(ch, ch.pending)
             y == Authorize(ch, c)
  <1>1. HasRoom(ch)
    BY Room
  <1>2. idle = [ch EXCEPT !.pending = {}]
    BY DEF DeletePending
  <1>3. Queue(idle, Login(c)) = [idle EXCEPT !.out = <<Login(c)>>]
    <2>1. idle.out = <<>>
      BY <1>2 DEF ChannelRecords
    <2>2. Append(idle.out, Login(c)) = <<Login(c)>>
      BY <2>1
    <2>3. QED BY <2>2 DEF Queue
  <1>4. y = [Queue(idle, Login(c)) EXCEPT !.state = "AUTHORIZING", !.sync = "STARTED"]
    BY <1>1 DEF Authorize, Login
  <1> HIDE DEF y, idle
  <1>5. QED BY <1>1, <1>2, <1>3, <1>4 DEF ChannelRecords, AuthorizeFails, y

LEMMA LoginType == ASSUME NEW c \in Channels
                   PROVE  Login(c) \in ClientMsgs /\ Login(c).type = "CONNECT" /\ Login(c).svcs = Supported[c]
  <1>1. Supported[c] \in SUBSET Services
    BY DEF Supported, Channels, Services
  <1>2. QED BY <1>1, MsgType DEF Login, Msg

LEMMA LoginWay ==
  ASSUME NEW c \in Channels
  PROVE  OneAsk(<<Login(c)>>) /\ <<Login(c)>> \in Seq(ClientMsgs)
  <1>1. \A i \in 1..Len(<<Login(c)>>) : i = 1
    OBVIOUS
  <1>2. QED BY <1>1, LoginType DEF OneAsk

(* A sync, a ping and a disconnect, when there is room. *)
LEMMA QueueSyncFields ==
  ASSUME NEW ch \in ChannelRecords, NEW svcs, HasRoom(ch)
  PROVE  LET y == QueueSync(ch, svcs)
         IN  /\ Queued(ch, y, Msg("KAASYNC", svcs))
             /\ y.pending = ch.pending \ svcs /\ y.state = ch.state /\ y.sync = ch.sync /\ y.inbuf = ch.inbuf
  BY DEF QueueSync, Queue, DeletePending, ChannelRecords, Queued

LEMMA PingFields ==
  ASSUME NEW ch \in ChannelRecords, HasRoom(ch)
  PROVE  LET y == Ping(ch)
         IN  /\ Queued(ch, y, Msg("PING", {}))
             /\ y.pending = ch.pending /\ y.state = ch.state /\ y.sync = ch.sync /\ y.inbuf = ch.inbuf
  BY DEF Ping, Queue, ChannelRecords, Queued

(* The pending services of an authorized operations channel, or of the     *)
(* bootstrap channel, are sent.                                            *)
WritesPending(ch, c, svcs) ==
  \/ c = "boot" /\ svcs = {"bootstrap"} /\ ch.pending # {}
  \/ c = "ops" /\ svcs = ch.pending /\ ch.state = "AUTHORIZED"

LEMMA QueueSyncOrderly ==
  ASSUME NEW s \in GoodSystems, NEW c \in Channels, NEW svcs \in SUBSET Services, Orderly(s, Calm),
         s.ch[c].ap = "CONNECTED", s.ch[c].out = <<>>, WritesPending(s.ch[c], c, svcs)
  PROVE  LET t == Put(s, c, QueueSync(s.ch[c], svcs))
         IN  t \in GoodSystems /\ Orderly(t, Calm) /\ t.ch[c].ap = "CONNECTED"
  <1> DEFINE x == s.ch[c]
             y == QueueSync(x, svcs)
             m == Msg("KAASYNC", svcs)
             t == Put(s, c, y)
  <1>1. /\ x \in ChannelRecords /\ x \in GoodChannels /\ Session(x, c, <<>>)
        /\ c = "boot" => Single(x, <<>>) /\ (s.current \in 1..NOps => Quiet(x, <<>>))
        /\ c = "ops" => Covered(x, s.owed) /\ s.current \in 1..NOps
    BY CalmSession
  <1>2. HasRoom(x) /\ <<>> \in Seq(ServerMsgs)
    BY Room, EmptySeqType
  <1>3. y \in GoodChannels /\ y \in ChannelRecords
    BY <1>1, RequestsGood DEF GoodChannels
  <1>4. /\ Queued(x, y, m) /\ y.ap = x.ap /\ y.sock = x.sock
        /\ y.pending = x.pending \ svcs /\ y.state = x.state /\ y.inbuf = x.inbuf
    BY <1>1, <1>2, QueueSyncFields DEF Queued
  <1>5. m \in ClientMsgs /\ m.type = "KAASYNC" /\ m.svcs = svcs
    BY MsgType DEF Msg
  <1>6. x.state # "AUTHORIZING"
    BY <1>1 DEF WritesPending, Single, Channels
  <1>7. Opened(x, In(x, <<>>)) /\ x.inbuf = <<>>
    BY <1>1, <1>6, OpenedStage DEF Session, Offline, Connected
  <1>8. t \in GoodSystems /\ Replaced(s, t, c) /\ t.ch[c] = y
    BY <1>3, PutGood, PutReplaced
  <1> HIDE DEF y, m, t
  <1>9. y.state \in {"AUTHORIZED", "DISCONNECTING"} /\ y.inbuf = <<>>
    BY <1>4, <1>7 DEF Opened
  <1>10. /\ Session(y, c, <<>>)
         /\ NoAsk(Way(x)) /\ NoName(In(x, <<>>)) /\ y.pending = {} => Single(y, <<>>)
         /\ (\A v \in x.pending : v \in y.pending \/ v \in m.svcs) =>
              \A owing : Covered(x, owing) => Covered(y, owing)
    BY <1>1, <1>2, <1>3, <1>4, <1>5, <1>7, <1>9, QueueStage
  <1>11. ASSUME c = "boot" PROVE Single(y, <<>>) /\ s.current \notin 1..NOps
    <2>1. svcs = {"bootstrap"} /\ x.pending # {} /\ x.pending \subseteq {"bootstrap"}
      BY <1>1, <1>11 DEF WritesPending, Single
    <2>2. NoAsk(Way(x)) /\ NoName(In(x, <<>>))
      BY <1>1, <1>11, <2>1 DEF Single
    <2>3. y.pending = {}
      BY <1>4, <2>1
    <2>4. s.current \notin 1..NOps
      BY <1>1, <1>11, <2>1 DEF Quiet
    <2>5. QED BY <1>10, <2>2, <2>3, <2>4
  <1>12. ASSUME c = "ops" PROVE Covered(y, s.owed)
    <2>1. \A v \in x.pending : v \in m.svcs
      BY <1>5, <1>12 DEF WritesPending
    <2>2. QED BY <1>1, <1>10, <1>12, <2>1
  <1>13. Orderly(t, Calm)
    BY <1>1, <1>8, <1>10, <1>11, <1>12, CalmReplaced
  <1>14. QED BY <1>4, <1>8, <1>13 DEF t, y

LEMMA WritePendingOrderly ==
  ASSUME NEW s \in GoodSystems, NEW c \in Channels, NEW svcs \in SUBSET Services, NEW e,
         Orderly(s, Calm), s.ch[c].ap = "CONNECTED", s.ch[c].out = <<>>,
         WritesPending(s.ch[c], c, svcs)
  PROVE  Orderly(WritePending(s, c, svcs, e), Calm)
  <1> DEFINE t == Put(s, c, QueueSync(s.ch[c], svcs))
  <1>1. t \in GoodSystems /\ Orderly(t, Calm) /\ t.ch[c].ap = "CONNECTED"
    BY QueueSyncOrderly
  <1>2. WritePending(s, c, svcs, e) = WriteBuffer(t, c, e)
    BY Room DEF WritePending
  <1> HIDE DEF t
  <1>3. QED BY <1>1, <1>2, WriteBufferOrderly

(* The bootstrap channel has just lost its connection: the sync of a list  *)
(* that is still pending is dropped.                                       *)
LEMMA WritePendingDown ==
  ASSUME NEW s \in GoodSystems, NEW e, Orderly(s, Calm), Down(s.ch["boot"]), s.ch["boot"].pending # {}
  PROVE  Orderly(WritePending(s, "boot", {"bootstrap"}, e), Calm)
  <1> DEFINE x == s.ch["boot"]
             y == QueueSync(x, {"bootstrap"})
             t == Put(s, "boot", y)
             r == SocketIoError(t, "boot", e)
  <1>1. /\ x \in ChannelRecords /\ x \in GoodChannels /\ Single(x, <<>>)
        /\ s.current \notin 1..NOps
    BY ChannelNames, CalmSession DEF Quiet
  <1>2. HasRoom(x)
    BY Room DEF Down
  <1>3. y \in GoodChannels
    BY <1>1, ChannelNames, RequestsGood DEF Services
  <1>4. /\ y.out = Append(x.out, Msg("KAASYNC", {"bootstrap"})) /\ y.pending = x.pending \ {"bootstrap"}
        /\ y.queries = x.queries /\ y.leaked = x.leaked /\ y.sock = x.sock
    BY <1>1, <1>2, QueueSyncFields DEF Queued
  <1>5. y.out # <<>> /\ ~FdOpen(y)
    <2>1. x.out = <<>> /\ x.sock = NoSocket
      BY DEF Down
    <2>2. Append(<<>>, Msg("KAASYNC", {"bootstrap"})) # <<>>
      OBVIOUS
    <2>3. QED BY <1>4, <2>1, <2>2, EmptySocket DEF FdOpen
  <1>6. /\ t \in GoodSystems /\ t.ch["boot"] = y /\ t.ch["ops"] = s.ch["ops"]
        /\ t.current = s.current /\ t.owed = s.owed
    BY <1>3, ChannelNames, PutGood, PutParts
  <1>7. WritePending(s, "boot", {"bootstrap"}, e) = r
    BY <1>2, <1>5, <1>6 DEF WritePending, WriteBuffer
  <1>8. /\ y.pending \subseteq {"bootstrap"} /\ ~y.leaked /\ y.queries = <<>>
    BY <1>1, <1>4 DEF Single, Down
  <1>9. /\ Session(s.ch["ops"], "ops", Calm["ops"]) /\ Covered(s.ch["ops"], s.owed)
        /\ s.ch["ops"].ap \in {"NOT_SET", "RESOLVED"}
    BY <1>1 DEF Orderly, Handover
  <1>10. Only(Calm["boot"], Endings)
    BY CalmType, OnlyEmpty
  <1> HIDE DEF t, y
  <1>11. Orderly(r, Calm)
    BY <1>1, <1>6, <1>8, <1>9, <1>10, CalmType, SocketIoErrorBoot
  <1>12. QED BY <1>7, <1>11

(* Authorization of a channel without a connection, and of one that has it *)
(* already begun.                                                          *)
LEMMA AuthorizeAgain ==
  ASSUME NEW s \in GoodSystems, NEW c \in Channels, Orderly(s, Calm), s.ch[c].state = "AUTHORIZING"
  PROVE  Orderly(ChannelAuthorize(s, c), Calm)
  <1>1. Authorize(s.ch[c], c) = s.ch[c] /\ ~AuthorizeFails(s.ch[c])
    BY DEF Authorize, AuthorizeFails
  <1> DEFINE r == ChannelAuthorize(s, c)
  <1>2. r = [Put(s, c, s.ch[c]) EXCEPT !.err = AuthorizeFails(s.ch[c])]
    BY <1>1 DEF ChannelAuthorize
  <1>3. Replaced(s, r, c) /\ r.ch[c] = s.ch[c]
    BY <1>2, PutErrReplaced
  <1> HIDE DEF r
  <1>4. Orderly(r, Calm)
    BY <1>3, CalmSession, CalmReplaced
  <1>5. QED BY <1>4 DEF r

LEMMA AuthorizeDown ==
  ASSUME NEW s \in GoodSystems, Orderly(s, Calm), Down(s.ch["ops"])
  PROVE  Orderly(ChannelAuthorize(s, "ops"), Calm)
  <1> DEFINE x == s.ch["ops"]
             y == Authorize(x, "ops")
             r == ChannelAuthorize(s, "ops")
  <1>1. x \in ChannelRecords /\ (s.current \notin 1..NOps => x.ap \in {"NOT_SET", "RESOLVED"})
    BY ChannelNames, CalmSession
  <1>2. /\ y.state = "AUTHORIZING" /\ y.out = <<Login("ops")>>
        /\ y.ap = x.ap /\ y.id = x.id /\ y.addr = x.addr /\ y.queries = x.queries
        /\ y.leaked = x.leaked /\ y.sock = x.sock /\ y.inbuf = x.inbuf
    BY <1>1, ChannelNames, AuthorizeLogin DEF Down
  <1>3. r = [Put(s, "ops", y) EXCEPT !.err = AuthorizeFails(x)]
    BY DEF ChannelAuthorize
  <1>4. Replaced(s, r, "ops") /\ r.ch["ops"] = y
    <2> HIDE DEF y, r
    <2>1. QED BY <1>3, ChannelNames DEF Put, GoodSystems, Replaced
  <1> HIDE DEF y, r
  <1>5. Offline(y, "ops", <<>>)
    BY <1>2, EmptySocket, OnlyEmpty DEF Down, Offline, Unstarted
  <1>6. Session(y, "ops", <<>>) /\ Covered(y, s.owed)
    BY <1>2, <1>5, EmptySocket DEF Session, Covered, Down
  <1>7. Orderly(r, Calm)
    BY <1>1, <1>2, <1>4, <1>6, ChannelNames, CalmReplaced
  <1>8. QED BY <1>7 DEF r

(* A connection is established. *)
LEMMA AuthorizeConnected ==
  ASSUME NEW s \in GoodSystems, NEW c \in Channels, Orderly(s, Calm), s.ch[c].ap = "CONNECTING"
  PROVE  Orderly(ChannelAuthorize(Put(s, c, [s.ch[c] EXCEPT !.ap = "CONNECTED"]), c), Calm)
  <1> DEFINE x == s.ch[c]
             z == [x EXCEPT !.ap = "CONNECTED"]
             y == Authorize(z, c)
             t == Put(s, c, z)
             r == ChannelAuthorize(t, c)
  <1>1. /\ x \in ChannelRecords /\ Session(x, c, <<>>)
        /\ c = "boot" => /\ x.pending \subseteq {"bootstrap"}
                         /\ x.pending # {} => x.state # "AUTHORIZING"
                         /\ s.current \notin 1..NOps
        /\ c = "ops" => s.current \in 1..NOps
    BY CalmSession DEF Single, Quiet
  <1>2. Offline(x, c, <<>>) /\ ~x.leaked
    BY <1>1 DEF Session, Connected
  <1>3. /\ FdOpen(x) /\ x.addr = x.id /\ x.sock.peer = x.id /\ ~x.sock.session /\ x.sock.c2s = <<>>
        /\ Only(x.sock.s2c, {"GARBAGE"}) /\ x.queries = <<>> /\ Unstarted(x, c) /\ x.inbuf = <<>>
    BY <1>2 DEF Offline
  <1>4. /\ z \in ChannelRecords /\ z.ap = "CONNECTED" /\ z.id = x.id /\ z.addr = x.addr
        /\ z.queries = x.queries /\ z.leaked = x.leaked /\ z.sock = x.sock /\ z.inbuf = x.inbuf
        /\ z.state = x.state /\ z.out = x.out /\ z.pending = x.pending
    BY <1>1 DEF ChannelRecords, APStates
  <1> HIDE DEF z
  <1>5. /\ y.state = "AUTHORIZING" /\ y.out = <<Login(c)>>
        /\ y.ap = "CONNECTED" /\ y.id = x.id /\ y.addr = x.addr /\ y.queries = x.queries
        /\ y.leaked = x.leaked /\ y.sock = x.sock /\ y.inbuf = x.inbuf
        /\ c = "boot" => y.pending = {}
    <2>1. CASE x.state = "UNDEFINED"
      <3>1. z.state = "UNDEFINED" /\ z.out = <<>>
        BY <1>3, <1>4, <2>1 DEF Unstarted
      <3>2. QED BY <1>4, <3>1, AuthorizeLogin
    <2>2. CASE x.state # "UNDEFINED"
      <3>1. c = "ops" /\ x.state = "AUTHORIZING" /\ x.out = <<Login(c)>>
        BY <1>3, <2>2 DEF Unstarted
      <3>2. y = z
        BY <1>4, <3>1 DEF Authorize
      <3>3. QED BY <1>4, <3>1, <3>2
    <2>3. QED BY <2>1, <2>2
  <1>6. /\ t \in [ch : [Channels -> ChannelRecords], current : 0..(NOps + 1), boot : 1..NBoot,
                  owed : SUBSET OpsServices, err : BOOLEAN, used : SUBSET Faults]
        /\ Replaced(s, t, c) /\ t.ch[c] = z
    <2>1. Replaced(s, t, c) /\ t.ch[c] = z
      BY PutReplaced
    <2>2. s \in [ch : [Channels -> ChannelRecords], current : 0..(NOps + 1), boot : 1..NBoot,
                 owed : SUBSET OpsServices, err : BOOLEAN, used : SUBSET Faults]
      BY DEF GoodSystems, GoodChannels
    <2>3. QED BY <1>4, <2>1, <2>2 DEF Put
  <1>7. r = [Put(t, c, y) EXCEPT !.err = AuthorizeFails(z)]
    BY <1>6 DEF ChannelAuthorize
  <1> HIDE DEF y, t, r
  <1>8. Replaced(s, r, c) /\ r.ch[c] = y
    BY <1>6, <1>7 DEF Put, Replaced
  <1>9. Way(y) = <<Login(c)>> /\ In(y, <<>>) = x.sock.s2c
    <2>1. <<Login(c)>> \in Seq(ClientMsgs) /\ x.sock.s2c \in Seq(ServerMsgs)
      BY <1>1, LoginWay, Fields, EmptySeqType
    <2>2. <<>> \o <<Login(c)>> = <<Login(c)>> /\ <<>> \o x.sock.s2c = x.sock.s2c
      BY <2>1, ConcatEmpty
    <2>3. QED BY <1>3, <1>5, <2>2 DEF Way, In
  <1>10. Session(y, c, <<>>)
    <2>1. Asking(y, c, In(y, <<>>))
      BY <1>3, <1>5, <1>9 DEF Asking
    <2>2. Connected(y, c, <<>>)
      BY <1>3, <1>5, <2>1 DEF Connected, Stage, FdOpen
    <2>3. QED BY <1>2, <1>5, <2>2 DEF Session
  <1>11. ASSUME c = "boot" PROVE Single(y, <<>>)
    <2>1. NoName(In(y, <<>>)) /\ OneName(In(y, <<>>))
      BY <1>3, <1>9 DEF Only, NoName, OneName, Names
    <2>2. OneAsk(Way(y))
      BY <1>9, LoginWay
    <2>3. QED BY <1>5, <1>11, <2>1, <2>2 DEF Single
  <1>12. Covered(y, s.owed)
    BY <1>3, <1>5 DEF Covered
  <1>13. Orderly(r, Calm)
    BY <1>1, <1>8, <1>10, <1>11, <1>12, CalmReplaced
  <1>14. QED BY <1>13 DEF r, t, z

LEMMA AfterWriteOrderly ==
  ASSUME NEW s \in GoodSystems, NEW c \in Channels, NEW e, Orderly(s, Calm),
         Down(s.ch[c]) \/ (s.ch[c].ap = "CONNECTED" /\ s.ch[c].out = <<>>)
  PROVE  Orderly(AfterWrite(s, c, e), Calm)
  <1> DEFINE ch == s.ch[c]
             r  == AfterWrite(s, c, e)
  <1>1. ch \in ChannelRecords /\ Session(ch, c, <<>>) /\ ch.pending \in SUBSET Services
    BY CalmSession DEF ChannelRecords
  <1>2. CASE ch.state = "DISCONNECTING"
    <2>1. ch.ap = "CONNECTED" /\ r = SocketIoError(s, c, e)
      BY <1>2 DEF AfterWrite, Down
    <2> HIDE DEF r
    <2>2. Orderly(r, Calm)
      BY <2>1, CalmSocketIoError
    <2>3. QED BY <2>2 DEF r
  <1>3. CASE ch.state # "DISCONNECTING" /\ ch.pending = {}
    BY <1>3 DEF AfterWrite
  <1>4. CASE ch.state # "DISCONNECTING" /\ ch.pending # {} /\ c = "boot"
    <2>1. r = WritePending(s, "boot", {"bootstrap"}, e) /\ {"bootstrap"} \in SUBSET Services
      BY <1>4 DEF AfterWrite, Services
    <2>2. CASE Down(ch)
      BY <1>4, <2>1, <2>2, WritePendingDown
    <2>3. CASE ch.ap = "CONNECTED" /\ ch.out = <<>>
      BY <1>4, <2>1, <2>3, WritePendingOrderly DEF WritesPending
    <2>4. QED BY <2>2, <2>3
  <1>5. CASE ch.state = "AUTHORIZED" /\ ch.pending # {} /\ c = "ops"
    <2>1. r = WritePending(s, "ops", ch.pending, e)
      BY <1>5 DEF AfterWrite
    <2>2. ch.ap = "CONNECTED" /\ ch.out = <<>>
      BY <1>5 DEF Down
    <2>3. QED BY <1>1, <1>5, <2>1, <2>2, WritePendingOrderly DEF WritesPending
  <1>6. CASE ch.state \notin {"DISCONNECTING", "AUTHORIZED"} /\ ch.pending # {} /\ c = "ops"
    <2>1. r = ChannelAuthorize(s, "ops")
      BY <1>6 DEF AfterWrite
    <2>2. CASE Down(ch)
      BY <1>6, <2>1, <2>2, AuthorizeDown
    <2>3. CASE ch.ap = "CONNECTED"
      <3>1. ch.state = "AUTHORIZING"
        BY <1>1, <1>6, <2>3, OpenedStage DEF Opened
      <3>2. QED BY <1>6, <2>1, <3>1, AuthorizeAgain
    <2>4. QED BY <2>2, <2>3
  <1>7. QED BY <1>2, <1>3, <1>4, <1>5, <1>6 DEF Channels

LEMMA ProcessWriteOrderly ==
  ASSUME NEW s \in GoodSystems, NEW c \in Channels, NEW e, Orderly(s, Calm)
  PROVE  Orderly(ProcessWrite(s, c, e), Calm)
  <1> DEFINE ch == s.ch[c]
             r  == ProcessWrite(s, c, e)
             s1 == WriteBuffer(s, c, e)
  <1>1. CASE ch.ap = "CONNECTING" /\ ch.sock.st = "refused"
    <2>1. r = SocketIoError(s, c, e)
      BY <1>1 DEF ProcessWrite
    <2>2. Orderly(SocketIoError(s, c, e), Calm)
      BY <1>1, CalmSocketIoError
    <2>3. QED BY <2>1, <2>2
  <1>2. CASE ch.ap = "CONNECTING" /\ ch.sock.st \in {"up", "closed"}
    <2>1. r = ChannelAuthorize(Put(s, c, [ch EXCEPT !.ap = "CONNECTED"]), c)
      BY <1>2 DEF ProcessWrite
    <2>2. QED BY <1>2, <2>1, AuthorizeConnected
  <1>3. CASE ch.ap = "CONNECTING" /\ ch.sock.st \notin {"refused", "up", "closed"}
    BY <1>3 DEF ProcessWrite
  <1>4. CASE ch.ap = "CONNECTED"
    <2>1. /\ Orderly(s1, Calm)
          /\ Down(s1.ch[c]) \/ (s1.ch[c].ap = "CONNECTED" /\ (s1.err \/ s1.ch[c].out = <<>>))
      BY <1>4, WriteBufferOrderly
    <2>2. s1 \in GoodSystems
      BY WriteBufferGood
    <2>3. r = IF s1.err THEN s1 ELSE AfterWrite(s1, c, e)
      BY <1>4 DEF ProcessWrite
    <2> HIDE DEF s1, r
    <2>4. ~s1.err => Orderly(AfterWrite(s1, c, e), Calm)
      BY <2>1, <2>2, AfterWriteOrderly
    <2>5. Orderly(r, Calm)
      BY <2>1, <2>3, <2>4
    <2>6. QED BY <2>5 DEF r
  <1>5. CASE ch.ap \notin {"CONNECTING", "CONNECTED"}
    BY <1>5 DEF ProcessWrite
  <1>6. QED BY <1>1, <1>2, <1>3, <1>4, <1>5

LEMMA ProcessEmptyReadOrderly ==
  ASSUME NEW s \in GoodSystems, NEW c \in Channels, NEW e, Orderly(s, Calm)
  PROVE  Orderly(ProcessEmptyRead(s, c, e), Calm)
  <1>1. CASE s.ch[c].ap = "CONNECTED" /\ s.ch[c].sock.st = "closed"
    <2>1. Orderly(SocketIoError(s, c, e), Calm)
      BY <1>1, CalmSocketIoError
    <2>2. QED BY <1>1, <2>1 DEF ProcessEmptyRead
  <1>2. CASE ~(s.ch[c].ap = "CONNECTED" /\ s.ch[c].sock.st = "closed")
    BY <1>2, FailOrderly DEF ProcessEmptyRead
  <1>3. QED BY <1>1, <1>2
-----------------------------------------------------------------------------
(* A connection is dialled. *)

(* Channel c has no connection and may be given one. *)
Unconnected(s, c) ==
  /\ s.ch[c].sock = NoSocket /\ ~s.ch[c].leaked /\ s.ch[c].queries = <<>>
  /\ Unstarted(s.ch[c], c) /\ s.ch[c].inbuf = <<>>
  /\ IF c = "boot"
     THEN /\ s.ch["boot"].pending \subseteq {"bootstrap"} /\ s.current \notin 1..NOps
          /\ Session(s.ch["ops"], "ops", <<>>) /\ Covered(s.ch["ops"], s.owed)
          /\ s.ch["ops"].ap \in {"NOT_SET", "RESOLVED"}
     ELSE /\ s.current \in 1..NOps
          /\ Session(s.ch["boot"], "boot", <<>>) /\ Single(s.ch["boot"], <<>>)
          /\ Quiet(s.ch["boot"], <<>>)

LEMMA AccessPointFailedOrderly ==
  ASSUME NEW s \in GoodSystems, NEW c \in Channels, NEW e, Unconnected(s, c),
         s.ch[c].ap \in {"NOT_SET", "RESOLVED"}
  PROVE  Orderly(AccessPointFailed(s, c, e), Calm)
  <1> DEFINE r == AccessPointFailed(s, c, e)
  <1>1. Loose(s.ch[c]) /\ s.ch[c] \in ChannelRecords /\ Only(<<>>, Endings) /\ <<>> \in Seq(ServerMsgs)
    BY ChGood, OnlyEmpty, EmptySeqType DEF Unconnected, Loose
  <1>2. r \in GoodSystems
    BY AccessPointFailedGood
  <1>3. r.ch[c] \in ChannelRecords
    BY <1>2, ChGood
  <1>4. CASE c = "boot"
    <2>1. r = BootstrapFailed(s)
      BY <1>4 DEF AccessPointFailed
    <2> HIDE DEF r
    <2>2. /\ Moved(s.ch["boot"], r.ch["boot"]) /\ r.ch["ops"] = s.ch["ops"]
          /\ r.current = s.current /\ r.owed = s.owed
      BY <1>1, <1>4, <2>1, BootstrapFailedMoves
    <2>3. s.ch["boot"].state = "UNDEFINED"
      BY <1>4 DEF Unconnected, Unstarted
    <2>4. Session(r.ch["boot"], "boot", <<>>) /\ Single(r.ch["boot"], <<>>)
      BY <1>1, <1>3, <1>4, <2>2, <2>3, MovedOffline DEF Unconnected
    <2>5. Orderly(r, Calm)
      BY <1>4, <2>2, <2>4, CalmType DEF Unconnected, Orderly, Handover
    <2>6. QED BY <2>5 DEF r
  <1>5. CASE c = "ops"
    <2>1. r = OperationsFailed(s, e)
      BY <1>5 DEF AccessPointFailed
    <2> HIDE DEF r
    <2>2. NextOrNone(s, r)
      BY <1>1, <1>5, <2>1, OperationsFailedOrderly DEF Unconnected
    <2>3. CASE r.current \in 1..NOps
      <3>1. r.ch["boot"] = s.ch["boot"] /\ Moved(s.ch["ops"], r.ch["ops"]) /\ r.owed = s.owed
        BY <2>2, <2>3 DEF NextOrNone
      <3>2. Session(r.ch["ops"], "ops", <<>>) /\ Covered(r.ch["ops"], r.owed)
        BY <1>1, <1>3, <1>5, <3>1, MovedOffline DEF Unconnected
      <3>3. Orderly(r, Calm)
        BY <1>5, <2>3, <3>1, <3>2, CalmType DEF Unconnected, Orderly, Handover
      <3>4. QED BY <3>3 DEF r
    <2>4. CASE r.current \notin 1..NOps
      <3>1. /\ r.ch["ops"] = s.ch["ops"] /\ r.owed = s.owed
            /\ Session(r.ch["boot"], "boot", <<>>) /\ Single(r.ch["boot"], <<>>)
        BY <2>2, <2>4 DEF NextOrNone
      <3>2. Offline(s.ch["ops"], "ops", <<>>)
        BY <1>1, <1>5, EmptySocket, OnlyEmpty DEF Unconnected, Offline
      <3>3. Session(s.ch["ops"], "ops", <<>>) /\ Covered(s.ch["ops"], s.owed)
        BY <1>5, <3>2, EmptySocket DEF Session, Unconnected, Covered
      <3>4. Orderly(r, Calm)
        BY <1>5, <2>4, <3>1, <3>3, CalmType DEF Unconnected, Orderly, Handover
      <3>5. QED BY <3>4 DEF r
    <2>5. QED BY <2>3, <2>4
  <1>6. QED BY <1>4, <1>5 DEF Channels

(* A socket is opened for a channel that has none. *)
LEMMA ConnectFields ==
  ASSUME NEW x \in ChannelRecords, x.sock = NoSocket, ~x.leaked
  PROVE  LET y == ConnectAccessPoint(x, TRUE)
         IN  /\ y.ap = "CONNECTING" /\ ~y.leaked /\ y.id = x.id /\ y.addr = x.addr
             /\ y.queries = x.queries /\ y.state = x.state /\ y.out = x.out /\ y.inbuf = x.inbuf
             /\ y.pending = x.pending
             /\ y.sock.st = "syn" /\ y.sock.peer = x.addr /\ y.sock.c2s = <<>> /\ y.sock.s2c = <<>>
             /\ ~y.sock.session
  <1> DEFINE sock == [NoSocket EXCEPT !.st = "syn", !.peer = x.addr]
             y == ConnectAccessPoint(x, TRUE)
  <1>1. /\ sock.st = "syn" /\ sock.peer = x.addr /\ sock.c2s = <<>> /\ sock.s2c = <<>>
        /\ ~sock.session
    BY DEF NoSocket
  <1>2. y = [x EXCEPT !.leaked = x.leaked \/ FdOpen(x), !.sock = sock,
                      !.ap = "CONNECTING", !.sync = "STARTED"]
    BY DEF ConnectAccessPoint
  <1>3. ~FdOpen(x)
    BY EmptySocket DEF FdOpen
  <1> HIDE DEF y, sock
  <1>4. QED BY <1>1, <1>2, <1>3 DEF ChannelRecords, y

LEMMA ConnectParts ==
  ASSUME NEW s \in GoodSystems, NEW c \in Channels, NEW e, MayDial(s.ch[c])
  PROVE  LET r == Connect(s, c, e)
             ok == <<"open", c>> \notin e
         IN  /\ r \in GoodSystems /\ Replaced(s, r, c) /\ (r.err <=> ~ok)
             /\ r.ch[c] = ConnectAccessPoint(s.ch[c], ok)
  <1> DEFINE ok == <<"open", c>> \notin e
             y  == ConnectAccessPoint(s.ch[c], ok)
             s1 == Put(s, c, y)
             r  == Connect(s, c, e)
  <1>1. r \in GoodSystems
    BY SystemConnectGood
  <1>2. y \in GoodChannels
    BY ChGood, ConnectGood DEF MayDial
  <1>3. r = [Strikes(s1, <<"open", c>>, e) EXCEPT !.err = ~ok]
    BY DEF Connect
  <1> HIDE DEF y, ok, r
  <1>4. s1 \in GoodSystems /\ s1.ch[c] = y /\ Replaced(s, s1, c)
    BY <1>2, PutGood, PutReplaced
  <1> HIDE DEF s1
  <1>5. r.ch = s1.ch /\ r.current = s1.current /\ r.owed = s1.owed /\ r.err = ~ok
    BY <1>3, <1>4 DEF Strikes, GoodSystems
  <1>6. Replaced(s, r, c) /\ r.ch[c] = y
    BY <1>4, <1>5 DEF Replaced
  <1>7. QED BY <1>1, <1>5, <1>6 DEF r, ok, y

LEMMA DialOrderly ==
  ASSUME NEW s \in GoodSystems, NEW c \in Channels, NEW e, Unconnected(s, c), MayDial(s.ch[c])
  PROVE  Orderly(Dial(s, c, s.ch[c].id, e), Calm)
  <1> DEFINE b  == s.ch[c]
             x  == [b EXCEPT !.ap = "RESOLVED", !.addr = b.id]
             s1 == Put(s, c, x)
             ok == <<"open", c>> \notin e
             s2 == Connect(s1, c, e)
             r  == Dial(s, c, b.id, e)
  <1>1. b \in ChannelRecords /\ b \in GoodChannels /\ b.id \in Nat
    BY ChGood DEF ChannelRecords
  <1>2. /\ x.ap = "RESOLVED" /\ x.addr = x.id /\ x.sock = b.sock /\ x.leaked = b.leaked
        /\ x.queries = b.queries /\ x.state = b.state /\ x.out = b.out /\ x.inbuf = b.inbuf
        /\ x.pending = b.pending /\ x \in ChannelRecords
    BY <1>1 DEF ChannelRecords, APStates
  <1>3. x \in GoodChannels
    BY <1>1, <1>2, EmptySocket DEF GoodChannels, Good, Tight, Unconnected, FdOpen
  <1>4. r = IF s2.err THEN AccessPointFailed(s2, c, e) ELSE s2
    BY DEF Dial
  <1> HIDE DEF x, r
  <1>5. s1 \in GoodSystems /\ Replaced(s, s1, c) /\ s1.ch[c] = x
    BY <1>3, PutGood, PutReplaced
  <1> HIDE DEF s1
  <1>6. /\ s2 \in GoodSystems /\ Replaced(s1, s2, c) /\ (s2.err <=> ~ok)
        /\ s2.ch[c] = ConnectAccessPoint(x, ok)
    BY <1>2, <1>5, ConnectParts DEF MayDial
  <1> HIDE DEF s2
  <1>7. Replaced(s, s2, c)
    BY <1>5, <1>6 DEF Replaced
  <1>8. /\ x.sock = NoSocket /\ ~x.leaked /\ x.queries = <<>> /\ Unstarted(x, c) /\ x.inbuf = <<>>
        /\ c = "boot" => x.pending \subseteq {"bootstrap"}
    BY <1>2 DEF Unconnected, Unstarted
  <1>9. CASE ok
    <2> DEFINE y == s2.ch[c]
    <2>1. /\ y.ap = "CONNECTING" /\ ~y.leaked /\ y.id = x.id /\ y.addr = x.addr
          /\ y.queries = x.queries /\ y.state = x.state /\ y.out = x.out /\ y.inbuf = x.inbuf
          /\ y.pending = x.pending
          /\ y.sock.st = "syn" /\ y.sock.peer = x.addr /\ y.sock.c2s = <<>> /\ y.sock.s2c = <<>>
          /\ ~y.sock.session
      BY <1>2, <1>6, <1>8, <1>9, ConnectFields
    <2> HIDE DEF y
    <2>2. Offline(y, c, <<>>)
      BY <1>2, <1>8, <2>1, OnlyEmpty DEF Offline, Unstarted, FdOpen
    <2>3. Session(y, c, <<>>) /\ Covered(y, s.owed)
      BY <2>1, <2>2 DEF Session, Covered
    <2>4. ASSUME c = "boot" PROVE Single(y, <<>>)
      <3>1. y.out = <<>> /\ y.state = "UNDEFINED"
        BY <1>8, <2>1, <2>4 DEF Unstarted
      <3>2. Way(y) = <<>> /\ In(y, <<>>) = <<>>
        BY <2>1, <3>1 DEF Way, In
      <3>3. QED BY <1>8, <2>1, <2>4, <3>1, <3>2, EmptyQueues DEF Single
    <2>5. Orderly(s2, Calm)
      <3>1. CASE c = "boot"
        <4>1. s2.ch["ops"] = s.ch["ops"] /\ s2.current = s.current /\ s2.owed = s.owed
          BY <1>7, <3>1, ChannelNames DEF Replaced
        <4>2. QED BY <2>3, <2>4, <3>1, <4>1, CalmType DEF Orderly, Handover, Unconnected, y
      <3>2. CASE c = "ops"
        <4>1. s2.ch["boot"] = s.ch["boot"] /\ s2.current = s.current /\ s2.owed = s.owed
          BY <1>7, <3>2, ChannelNames DEF Replaced
        <4>2. QED BY <2>3, <3>2, <4>1, CalmType DEF Orderly, Handover, Unconnected, y
      <3>3. QED BY <3>1, <3>2 DEF Channels
    <2>6. QED BY <1>4, <1>6, <1>9, <2>5 DEF r
  <1>10. CASE ~ok
    <2>1. s2.ch[c] = x
      BY <1>6, <1>10 DEF ConnectAccessPoint
    <2>2. Unconnected(s2, c)
      <3>1. CASE c = "boot"
        <4>1. s2.ch["ops"] = s.ch["ops"] /\ s2.current = s.current /\ s2.owed = s.owed
          BY <1>7, <3>1, ChannelNames DEF Replaced
        <4>2. QED BY <1>8, <2>1, <3>1, <4>1 DEF Unconnected
      <3>2. CASE c = "ops"
        <4>1. s2.ch["boot"] = s.ch["boot"] /\ s2.current = s.current /\ s2.owed = s.owed
          BY <1>7, <3>2, ChannelNames DEF Replaced
        <4>2. QED BY <1>8, <2>1, <3>2, <4>1 DEF Unconnected
      <3>3. QED BY <3>1, <3>2 DEF Channels
    <2>3. Orderly(AccessPointFailed(s2, c, e), Calm)
      BY <1>2, <1>6, <2>1, <2>2, AccessPointFailedOrderly
    <2>4. QED BY <1>4, <1>6, <1>10, <2>3 DEF r
  <1>11. QED BY <1>9, <1>10

(* A new access point, or one whose name is being looked up, has no        *)
(* connection.                                                             *)
LEMMA SetUnconnected ==
  ASSUME NEW s \in GoodSystems, NEW c \in Channels, Orderly(s, Calm), s.ch[c].ap \in {"SET", "IN_PROGRESS"}
  PROVE  /\ Offline(s.ch[c], c, <<>>) /\ ~s.ch[c].leaked
         /\ s.ch[c].ap = "SET" => Unconnected(s, c)
  <1>1. Offline(s.ch[c], c, <<>>) /\ ~s.ch[c].leaked
    BY CalmSession DEF Session, Connected
  <1>2. ASSUME s.ch[c].ap = "SET" PROVE Unconnected(s, c)
    <2>1. /\ s.ch[c].sock = NoSocket /\ ~s.ch[c].leaked /\ s.ch[c].queries = <<>>
          /\ Unstarted(s.ch[c], c) /\ s.ch[c].inbuf = <<>>
      BY <1>1, <1>2 DEF Offline
    <2>2. CASE c = "boot"
      <3>1. s.ch["boot"].pending \subseteq {"bootstrap"}
        BY DEF Orderly, Single
      <3>2. s.current \notin 1..NOps
        BY <1>2, <2>2 DEF Orderly, Handover, Quiet
      <3>3. s.ch["ops"].ap \in {"NOT_SET", "RESOLVED"}
        BY <3>2 DEF Orderly, Handover
      <3>4. Session(s.ch["ops"], "ops", <<>>) /\ Covered(s.ch["ops"], s.owed)
        BY CalmType DEF Orderly
      <3>5. QED BY <2>1, <2>2, <3>1, <3>2, <3>3, <3>4 DEF Unconnected
    <2>3. CASE c = "ops"
      <3>1. s.current \in 1..NOps
        BY <1>2, <2>3 DEF Orderly, Handover
      <3>2. Quiet(s.ch["boot"], <<>>)
        BY <3>1, CalmType DEF Orderly, Handover
      <3>3. Session(s.ch["boot"], "boot", <<>>) /\ Single(s.ch["boot"], <<>>)
        BY CalmType DEF Orderly
      <3>4. QED BY <2>1, <2>3, <3>1, <3>2, <3>3 DEF Unconnected
    <2>4. QED BY <2>2, <2>3 DEF Channels
  <1>3. QED BY <1>1, <1>2

LEMMA ResolveOrderly ==
  ASSUME NEW s \in GoodSystems, NEW c \in Channels, NEW e, Orderly(s, Calm), s.ch[c].ap = "SET"
  PROVE  Orderly(Resolve(s, c, e), Calm)
  <1> DEFINE b == s.ch[c]
             r == Resolve(s, c, e)
  <1>1. /\ Unconnected(s, c) /\ b \in ChannelRecords /\ b \in GoodChannels /\ MayDial(b)
        /\ Offline(b, c, <<>>) /\ ~b.leaked
    BY SetUnconnected, CalmSession DEF MayDial
  <1>2. CASE AsyncDns
    <2> DEFINE x == [b EXCEPT !.ap = "IN_PROGRESS", !.queries = Append(b.queries, b.id)]
    <2>1. b.queries = <<>>
      BY <1>1 DEF Unconnected
    <2>2. Append(b.queries, b.id) = <<b.id>>
      BY <2>1
    <2>3. /\ x.ap = "IN_PROGRESS" /\ x.queries = <<x.id>> /\ x.sock = b.sock /\ x.leaked = b.leaked
          /\ x.state = b.state /\ x.out = b.out /\ x.inbuf = b.inbuf /\ x.pending = b.pending
      BY <1>1, <2>2 DEF ChannelRecords
    <2>4. r = Put(s, c, x)
      BY <1>2 DEF Resolve
    <2> HIDE DEF x, r
    <2>5. Replaced(s, r, c) /\ r.ch[c] = x
      BY <2>4, PutReplaced
    <2>6. Way(x) = Way(b) /\ In(x, <<>>) = In(b, <<>>)
      BY <2>3 DEF Way, In
    <2>7. Session(x, c, <<>>) /\ Covered(x, s.owed)
      <3>1. Offline(x, c, <<>>)
        BY <1>1, <2>3, EmptySocket, OnlyEmpty DEF Unconnected, Offline, Unstarted
      <3>2. QED BY <1>1, <2>3, <3>1, EmptySocket DEF Session, Covered, Unconnected
    <2>8. c = "boot" => Single(x, <<>>) /\ s.current \notin 1..NOps
      <3>1. c = "boot" => Single(b, <<>>) /\ s.current \notin 1..NOps
        BY <1>1, CalmSession DEF Unconnected
      <3>2. QED BY <2>3, <2>6, <3>1 DEF Single
    <2>9. c = "ops" => s.current \in 1..NOps
      BY <1>1, ChannelNames DEF Unconnected
    <2>10. Orderly(r, Calm)
      BY <2>5, <2>7, <2>8, <2>9, CalmReplaced
    <2>11. QED BY <2>10 DEF r
  <1>3. CASE ~AsyncDns /\ <<"dns", c>> \in e
    <2> DEFINE x == [b EXCEPT !.ap = "NOT_SET"]
               t == Strikes(Put(s, c, x), <<"dns", c>>, e)
    <2>1. /\ x \in ChannelRecords /\ x.ap = "NOT_SET" /\ x.queries = b.queries /\ x.sock = b.sock
          /\ x.leaked = b.leaked /\ x.state = b.state /\ x.out = b.out /\ x.inbuf = b.inbuf
          /\ x.pending = b.pending
      BY <1>1 DEF ChannelRecords, APStates
    <2>2. x \in GoodChannels
      BY <1>1, <2>1, EmptySocket DEF GoodChannels, Good, Tight, FdOpen, Unconnected
    <2>3. r = AccessPointFailed(t, c, e)
      BY <1>3 DEF Resolve
    <2> HIDE DEF x, r
    <2>4. Put(s, c, x) \in GoodSystems /\ Replaced(s, Put(s, c, x), c) /\ Put(s, c, x).ch[c] = x
      BY <2>2, PutGood, PutReplaced
    <2>5. t \in GoodSystems /\ Replaced(s, t, c) /\ t.ch[c] = x
      <3> DEFINE p == Put(s, c, x)
      <3>1. t \in GoodSystems
        BY <2>4, FaultType, StrikesGood
      <3> HIDE DEF p
      <3>2. Strikes(p, <<"dns", c>>, e).ch = p.ch /\ Strikes(p, <<"dns", c>>, e).current = p.current
            /\ Strikes(p, <<"dns", c>>, e).owed = p.owed
        BY <2>4 DEF Strikes, GoodSystems, p
      <3>3. QED BY <2>4, <3>1, <3>2 DEF Replaced, p
    <2> HIDE DEF t
    <2>6. Unconnected(t, c)
      <3>0. /\ x.sock = NoSocket /\ ~x.leaked /\ x.queries = <<>> /\ Unstarted(x, c) /\ x.inbuf = <<>>
            /\ c = "boot" => x.pending \subseteq {"bootstrap"}
        BY <1>1, <2>1 DEF Unconnected, Unstarted
      <3>1. CASE c = "boot"
        <4>1. t.ch["ops"] = s.ch["ops"] /\ t.current = s.current /\ t.owed = s.owed
          BY <2>5, <3>1, ChannelNames DEF Replaced
        <4>2. QED BY <1>1, <2>5, <3>0, <3>1, <4>1 DEF Unconnected
      <3>2. CASE c = "ops"
        <4>1. t.ch["boot"] = s.ch["boot"] /\ t.current = s.current /\ t.owed = s.owed
          BY <2>5, <3>2, ChannelNames DEF Replaced
        <4>2. QED BY <1>1, <2>5, <3>0, <3>2, <4>1 DEF Unconnected
      <3>3. QED BY <3>1, <3>2 DEF Channels
    <2>7. Orderly(AccessPointFailed(t, c, e), Calm)
      BY <2>1, <2>5, <2>6, AccessPointFailedOrderly
    <2>8. QED BY <2>3, <2>7 DEF r
  <1>4. CASE ~AsyncDns /\ <<"dns", c>> \notin e
    <2>1. r = Dial(s, c, b.id, e)
      BY <1>4 DEF Resolve
    <2>2. QED BY <1>1, <2>1, DialOrderly
  <1>5. QED BY <1>2, <1>3, <1>4

LEMMA CheckKeepaliveOrderly ==
  ASSUME NEW s \in GoodSystems, NEW c \in Channels, NEW e, Orderly(s, Calm)
  PROVE  Orderly(CheckKeepalive(s, c, e), Calm)
  <1> DEFINE x == s.ch[c]
             r == CheckKeepalive(s, c, e)
  <1>1. CASE x.ap = "SET"
    BY <1>1, ResolveOrderly DEF CheckKeepalive
  <1>2. CASE x.ap # "SET" /\ ~(x.state = "AUTHORIZED" /\ x.due /\ HasRoom(x))
    <2>1. r = Put(s, c, x) \/ r = [Put(s, c, x) EXCEPT !.err = ~HasRoom(x)]
      BY <1>2 DEF CheckKeepalive, Ping
    <2> HIDE DEF x, r
    <2>2. /\ Replaced(s, Put(s, c, x), c) /\ Put(s, c, x).ch[c] = x
          /\ Replaced(s, [Put(s, c, x) EXCEPT !.err = ~HasRoom(x)], c)
          /\ [Put(s, c, x) EXCEPT !.err = ~HasRoom(x)].ch[c] = x
      BY PutReplaced, PutErrReplaced
    <2>3. Replaced(s, r, c) /\ r.ch[c] = x
      BY <2>1, <2>2
    <2>4. Orderly(r, Calm)
      BY <2>3, CalmSession, CalmReplaced DEF x
    <2>5. QED BY <2>4 DEF r
  <1>3. CASE x.ap # "SET" /\ x.state = "AUTHORIZED" /\ x.due /\ HasRoom(x)
    <2> DEFINE y == Ping(x)
               m == Msg("PING", {})
    <2>1. /\ x \in ChannelRecords /\ x \in GoodChannels /\ Session(x, c, <<>>)
          /\ c = "boot" => Single(x, <<>>) /\ (s.current \in 1..NOps => Quiet(x, <<>>))
          /\ c = "ops" => Covered(x, s.owed) /\ (s.current \notin 1..NOps => x.ap \in {"NOT_SET", "RESOLVED"})
      BY CalmSession
    <2>2. Connected(x, c, <<>>) /\ x.ap = "CONNECTED"
      BY <1>3, <2>1 DEF Session, Offline, Connected, Unstarted
    <2>3. Opened(x, In(x, <<>>)) /\ x.inbuf = <<>> /\ <<>> \in Seq(ServerMsgs)
      BY <1>3, <2>1, <2>2, OpenedStage, EmptySeqType DEF Connected
    <2>4. /\ Queued(x, y, m)
          /\ y.pending = x.pending /\ y.state = x.state /\ y.sync = x.sync /\ y.inbuf = x.inbuf
      BY <1>3, <2>1, PingFields
    <2>5. m \in ClientMsgs /\ m.type = "PING"
      BY MsgType DEF Msg
    <2>6. y \in ChannelRecords
      BY <2>1, RequestsGood DEF GoodChannels
    <2>7. r = [Put(s, c, y) EXCEPT !.err = ~HasRoom(x)]
      BY <1>3 DEF CheckKeepalive
    <2> HIDE DEF y, m, r
    <2>8. Replaced(s, r, c) /\ r.ch[c] = y
      BY <2>7, PutErrReplaced
    <2>9. m.type \notin Asks
      BY <2>5 DEF Asks
    <2>10. y.state \in {"AUTHORIZED", "DISCONNECTING"} /\ y.inbuf = <<>>
      BY <1>3, <2>3, <2>4
    <2>11. /\ Session(y, c, <<>>)
           /\ NoName(In(x, <<>>)) => NoName(In(y, <<>>))
           /\ NoAsk(Way(x)) => NoAsk(Way(y))
           /\ Single(x, <<>>) => Single(y, <<>>)
           /\ \A owing : Covered(x, owing) => Covered(y, owing)
      BY <2>1, <2>2, <2>3, <2>4, <2>5, <2>6, <2>9, <2>10, QueueStage
    <2>12. Quiet(x, <<>>) => Quiet(y, <<>>)
      BY <2>4, <2>11 DEF Quiet, Queued
    <2>13. c = "boot" => Single(y, <<>>) /\ (s.current \in 1..NOps => Quiet(y, <<>>))
      BY <2>1, <2>11, <2>12
    <2>14. c = "ops" => Covered(y, s.owed) /\ s.current \in 1..NOps
      BY <2>1, <2>2, <2>11
    <2>15. Orderly(r, Calm)
      BY <2>8, <2>11, <2>13, <2>14, CalmReplaced
    <2>16. QED BY <2>15 DEF r
  <1>4. QED BY <1>1, <1>2, <1>3
-----------------------------------------------------------------------------
(* A message is parsed. *)

LEMMA InParts ==
  ASSUME NEW x \in ChannelRecords, NEW w \in Seq(ServerMsgs), w # <<>>
  PROVE  /\ In(x, w) \in Seq(ServerMsgs) /\ In(x, w) # <<>> /\ Head(In(x, w)) = Head(w)
         /\ Tail(w) \in Seq(ServerMsgs) /\ Head(w) \in ServerMsgs
         /\ In(x, Tail(w)) = Tail(In(x, w))
         /\ \A T : Only(In(x, w), T) => Only(w, T)
  <1>1. x.sock.s2c \in Seq(ServerMsgs)
    BY Fields
  <1>2. /\ w \o x.sock.s2c \in Seq(ServerMsgs) /\ w \o x.sock.s2c # <<>>
        /\ Tail(w) \in Seq(ServerMsgs) /\ Tail(w) \o x.sock.s2c = Tail(w \o x.sock.s2c)
        /\ (w \o x.sock.s2c)[1] = Head(w)
    BY <1>1, ConcatTail
  <1>3. Head(w \o x.sock.s2c) = (w \o x.sock.s2c)[1]
    BY <1>2, TailElements
  <1>4. Head(w) \in ServerMsgs
    OBVIOUS
  <1>5. \A T : Only(w \o x.sock.s2c, T) => Only(w, T)
    BY <1>1, OnlyParts
  <1>6. QED BY <1>2, <1>3, <1>4, <1>5 DEF In

(* What the next message can be, and what the connection is then. *)
LEMMA NextMessage ==
  ASSUME NEW x \in ChannelRecords, NEW c, NEW w \in Seq(ServerMsgs), w # <<>>, Session(x, c, w)
  PROVE  \/ Head(w) = "GARBAGE"
         \/ Head(w) = "REFUSED" /\ Only(Tail(w), Endings)
         \/ /\ Head(w) = "CONNACK" /\ x.ap = "CONNECTED"
            /\ Accepted(x, In(x, w)) /\ Only(Tail(In(x, w)), Contents)
         \/ /\ Head(w) \in {"KAASYNC", "EMPTY", "PINGRESP"} /\ x.ap = "CONNECTED"
            /\ Opened(x, In(x, w))
  <1> DEFINE q == In(x, w)
             m == Head(w)
  <1>1. /\ q \in Seq(ServerMsgs) /\ q # <<>> /\ Head(q) = m
        /\ Tail(w) \in Seq(ServerMsgs) /\ \A T : Only(q, T) => Only(w, T)
    BY InParts
  <1>2. \A T : Only(w, T) => Only(Tail(w), T) /\ m \in T
    BY OnlyTail
  <1> HIDE DEF q
  <1>3. CASE Only(w, Endings)
    BY <1>2, <1>3 DEF Endings
  <1>4. CASE Connected(x, c, w)
    <2>1. x.ap = "CONNECTED" /\ Stage(x, c, q)
      BY <1>4 DEF Connected, q
    <2>2. CASE Asking(x, c, q)
      <3>1. Only(w, {"GARBAGE"})
        BY <1>1, <2>2 DEF Asking
      <3>2. QED BY <1>2, <3>1
    <2>3. CASE Accepted(x, q)
      <3>1. PICK k \in 1..Len(q) : AcknowledgedAt(q, k)
        BY <2>3 DEF Accepted
      <3>2. /\ k = 1 => m = "CONNACK" /\ Only(Tail(q), Contents)
            /\ k # 1 => m = "GARBAGE"
        BY <1>1, <3>1, AcknowledgedTail
      <3>3. QED BY <2>1, <2>3, <3>2 DEF q
    <2>4. CASE Refused(x, q)
      <3>1. Only(w, Endings)
        BY <1>1, <2>4 DEF Refused
      <3>2. QED BY <1>3, <3>1
    <2>5. CASE Opened(x, q)
      <3>1. Only(w, Contents)
        BY <1>1, <2>5 DEF Opened
      <3>2. m \in Contents
        BY <1>2, <3>1
      <3>3. QED BY <2>1, <2>5, <3>2 DEF Contents, q
    <2>6. QED BY <2>1, <2>2, <2>3, <2>4, <2>5 DEF Stage
  <1>5. QED BY <1>3, <1>4 DEF Session, Offline

(* Another state and an emptied buffer, on the same connection. *)
Alike(x, z) ==
  /\ z.ap = x.ap /\ z.id = x.id /\ z.addr = x.addr /\ z.queries = x.queries /\ z.leaked = x.leaked
  /\ z.sock = x.sock /\ z.out = x.out

LEMMA ConsumeStage ==
  ASSUME NEW x \in ChannelRecords, NEW z, NEW c, NEW w \in Seq(ServerMsgs), w # <<>>,
         x.ap = "CONNECTED", Session(x, c, w), Alike(x, z),
         z.state \in {"AUTHORIZED", "DISCONNECTING"}, Tail(w) = <<>> => z.inbuf = <<>>,
         \/ Opened(x, In(x, w))
         \/ Accepted(x, In(x, w)) /\ Only(Tail(In(x, w)), Contents)
  PROVE  /\ Session(z, c, Tail(w)) /\ Opened(z, In(z, Tail(w)))
         /\ Way(z) = Way(x) /\ In(z, Tail(w)) = Tail(In(x, w))
  <1>1. Connected(x, c, w) /\ ~x.leaked
    BY DEF Session, Offline
  <1>2. /\ In(x, w) \in Seq(ServerMsgs) /\ In(x, w) # <<>> /\ In(x, Tail(w)) = Tail(In(x, w))
    BY InParts
  <1>3. Way(z) = Way(x) /\ In(z, Tail(w)) = Tail(In(x, w))
    BY <1>2 DEF Way, In, Alike
  <1>4. NoLogin(Way(x)) /\ Only(Tail(In(x, w)), Contents) /\ x.sock.session
    BY <1>2, OnlyTail, EmptyQueues DEF Opened, Accepted
  <1>5. Opened(z, In(z, Tail(w)))
    BY <1>3, <1>4 DEF Opened, Alike
  <1>6. Connected(z, c, Tail(w))
    BY <1>1, <1>5 DEF Connected, Stage, FdOpen, Alike
  <1>7. QED BY <1>1, <1>3, <1>5, <1>6 DEF Session, Alike

(* What the parse does at the end of the buffer. *)
Freed(s, c, b) == IF b /\ s.ch[c].ap = "CONNECTED" THEN [s EXCEPT !.ch[c].inbuf = <<>>] ELSE s

LEMMA FreedParts ==
  ASSUME NEW s \in GoodSystems, NEW c \in Channels, NEW b \in BOOLEAN, s.ch[c].ap = "CONNECTED"
  PROVE  LET t == Freed(s, c, b)
         IN  /\ Replaced(s, t, c) /\ Alike(s.ch[c], t.ch[c])
             /\ t.ch[c].state = s.ch[c].state /\ t.ch[c].pending = s.ch[c].pending
             /\ t.ch[c].sync = s.ch[c].sync /\ (b => t.ch[c].inbuf = <<>>)
  <1> DEFINE z == [s.ch[c] EXCEPT !.inbuf = <<>>]
             t == Freed(s, c, b)
  <1>1. s.ch[c] \in ChannelRecords
    BY ChGood
  <1>2. /\ Alike(s.ch[c], z) /\ z.state = s.ch[c].state /\ z.pending = s.ch[c].pending
        /\ z.sync = s.ch[c].sync /\ z.inbuf = <<>>
    BY <1>1 DEF ChannelRecords, Alike
  <1> HIDE DEF z
  <1>3. CASE b
    <2>1. t = [s EXCEPT !.ch[c] = z]
      BY <1>3 DEF Freed, z
    <2> HIDE DEF t
    <2>2. Replaced(s, t, c) /\ t.ch[c] = z
      BY <2>1 DEF GoodSystems, Replaced
    <2>3. QED BY <1>2, <2>2 DEF t
  <1>4. CASE ~b
    BY <1>4 DEF Freed, Replaced, Alike
  <1>5. QED BY <1>3, <1>4

(* v is what w leaves for the parser once its first message is parsed. *)
Left(w, c, v) ==
  /\ w[c] # <<>> /\ v[c] = IF Head(w[c]) = "GARBAGE" THEN <<>> ELSE Tail(w[c])
  /\ \A o \in Channels : o # c => w[o] = <<>> /\ v[o] = <<>>

LEMMA ConsumeOrderly ==
  ASSUME NEW s \in GoodSystems, NEW c \in Channels, NEW w \in Waits, NEW v \in Waits, NEW t,
         Orderly(s, w), Left(w, c, v), Head(w[c]) # "GARBAGE", s.ch[c].ap = "CONNECTED",
         Replaced(s, t, c), Alike(s.ch[c], t.ch[c]),
         t.ch[c].state \in {"AUTHORIZED", "DISCONNECTING"}, t.ch[c].pending = s.ch[c].pending,
         t.ch[c].sync = s.ch[c].sync, Tail(w[c]) = <<>> => t.ch[c].inbuf = <<>>,
         \/ Opened(s.ch[c], In(s.ch[c], w[c]))
         \/ Accepted(s.ch[c], In(s.ch[c], w[c])) /\ Only(Tail(In(s.ch[c], w[c])), Contents)
  PROVE  Orderly(t, v)
  <1> DEFINE x == s.ch[c]
             z == t.ch[c]
             q == In(x, w[c])
  <1>1. /\ x \in ChannelRecords /\ w[c] \in Seq(ServerMsgs) /\ w[c] # <<>> /\ v[c] = Tail(w[c])
        /\ \A o \in Channels : o # c => v[o] = w[o]
    BY ChGood DEF Left, Waits
  <1>2. Session(x, c, w[c])
    BY DEF Orderly, Channels
  <1>3. q \in Seq(ServerMsgs) /\ q # <<>>
    BY <1>1, InParts
  <1>4. /\ Session(z, c, v[c]) /\ Way(z) = Way(x) /\ In(z, v[c]) = Tail(q)
    BY <1>1, <1>2, ConsumeStage
  <1>5. /\ NoName(q) => NoName(Tail(q))
        /\ OneName(q) => OneName(Tail(q))
    BY <1>3, NoNameTail
  <1>6. /\ z.ap = "CONNECTED" /\ z.addr = x.addr /\ z.id = x.id /\ z.sock = x.sock
        /\ z.state # "AUTHORIZING" /\ z.pending = x.pending /\ z.sync = x.sync
    BY DEF Alike
  <1> HIDE DEF q, z
  <1>7. ASSUME c = "boot" PROVE Single(z, v[c]) /\ (s.current \in 1..NOps => Quiet(z, v[c]))
    <2>1. Single(x, w[c])
      BY <1>7 DEF Orderly
    <2>2. Single(z, v[c])
      BY <1>4, <1>5, <1>6, <2>1 DEF Single, q
    <2>3. ASSUME s.current \in 1..NOps PROVE Quiet(z, v[c])
      <3>1. Quiet(x, w[c])
        BY <1>7, <2>3 DEF Orderly, Handover
      <3>2. QED BY <1>4, <1>5, <1>6, <3>1 DEF Quiet, q
    <2>4. QED BY <2>2, <2>3
  <1>8. ASSUME c = "ops" PROVE Covered(z, s.owed) /\ s.current \in 1..NOps
    <2>1. Covered(x, s.owed)
      BY <1>8 DEF Orderly
    <2>2. s.current \in 1..NOps
      BY <1>8 DEF Orderly, Handover
    <2>3. QED BY <1>4, <1>6, <2>1, <2>2 DEF Covered
  <1>9. QED BY <1>1, <1>4, <1>7, <1>8, ReplacedOrderly DEF z

(* GARBAGE and REFUSED end the connection. *)
LEMMA ParseErrorOrderly ==
  ASSUME NEW s \in GoodSystems, NEW c \in Channels, NEW w \in Waits, NEW v \in Waits, NEW e, NEW b,
         Orderly(s, w), Left(w, c, v), Head(w[c]) \in {"GARBAGE", "REFUSED"},
         Head(w[c]) = "REFUSED" => Only(Tail(w[c]), Endings)
  PROVE  Orderly(Freed(SocketIoError(s, c, e), c, b), v)
  <1> DEFINE r == SocketIoError(s, c, e)
  <1>1. Only(v[c], Endings) /\ w[c] # <<>> /\ \A o \in Channels : o # c => w[o] = <<>> /\ v[o] = <<>>
    BY OnlyEmpty DEF Left
  <1>2. Orderly(r, v) /\ Down(r.ch[c])
    BY <1>1, SocketIoErrorOrderly
  <1> HIDE DEF r
  <1>3. Freed(r, c, b) = r
    BY <1>2 DEF Freed, Down
  <1>4. QED BY <1>2, <1>3 DEF r

(* The CONNACK authorizes the channel. *)
LEMMA ConnackOrderly ==
  ASSUME NEW s \in GoodSystems, NEW c \in Channels, NEW w \in Waits, NEW v \in Waits,
         NEW b \in BOOLEAN, b <=> Tail(w[c]) = <<>>,
         Orderly(s, w), Left(w, c, v), Head(w[c]) = "CONNACK", s.ch[c].ap = "CONNECTED",
         Accepted(s.ch[c], In(s.ch[c], w[c])) /\ Only(Tail(In(s.ch[c], w[c])), Contents)
  PROVE  Orderly(Freed(Put(s, c, [s.ch[c] EXCEPT !.state = "AUTHORIZED", !.due = FALSE]), c, b), v)
  <1> DEFINE x == s.ch[c]
             y == [x EXCEPT !.state = "AUTHORIZED", !.due = FALSE]
             p == Put(s, c, y)
             t == Freed(p, c, b)
  <1>1. x \in GoodChannels /\ x \in ChannelRecords
    BY ChGood
  <1>2. y \in GoodChannels
    BY <1>1, ChangeStateGood DEF ChannelStates, SyncStates
  <1>3. Alike(x, y) /\ y.state = "AUTHORIZED" /\ y.pending = x.pending /\ y.sync = x.sync
    BY <1>1 DEF ChannelRecords, ChannelStates, Alike
  <1> HIDE DEF y
  <1>4. p \in GoodSystems /\ Replaced(s, p, c) /\ p.ch[c] = y
    BY <1>2, PutGood, PutReplaced
  <1> HIDE DEF p
  <1>5. /\ Replaced(p, t, c) /\ Alike(y, t.ch[c]) /\ t.ch[c].state = y.state
        /\ t.ch[c].pending = y.pending /\ t.ch[c].sync = y.sync /\ (b => t.ch[c].inbuf = <<>>)
    BY <1>3, <1>4, FreedParts DEF Alike
  <1> HIDE DEF t
  <1>6. Replaced(s, t, c) /\ Alike(x, t.ch[c])
    BY <1>3, <1>4, <1>5 DEF Replaced, Alike
  <1>7. Orderly(t, v)
    BY <1>3, <1>5, <1>6, ConsumeOrderly
  <1>8. QED BY <1>7 DEF t, p, y

(* A message that changes nothing. *)
LEMMA IdleMessageOrderly ==
  ASSUME NEW s \in GoodSystems, NEW c \in Channels, NEW w \in Waits, NEW v \in Waits,
         NEW b \in BOOLEAN, b <=> Tail(w[c]) = <<>>,
         Orderly(s, w), Left(w, c, v), Head(w[c]) # "GARBAGE", s.ch[c].ap = "CONNECTED",
         Opened(s.ch[c], In(s.ch[c], w[c]))
  PROVE  Orderly(Freed(s, c, b), v)
  <1> DEFINE t == Freed(s, c, b)
  <1>1. /\ Replaced(s, t, c) /\ Alike(s.ch[c], t.ch[c])
        /\ t.ch[c].state = s.ch[c].state /\ t.ch[c].pending = s.ch[c].pending
        /\ t.ch[c].sync = s.ch[c].sync /\ (b => t.ch[c].inbuf = <<>>)
    BY FreedParts
  <1> HIDE DEF t
  <1>2. t.ch[c].state \in {"AUTHORIZED", "DISCONNECTING"}
    BY <1>1 DEF Opened
  <1>3. Orderly(t, v)
    BY <1>1, <1>2, ConsumeOrderly
  <1>4. QED BY <1>3 DEF t

(* The callbacks of an operations sync ask for more. *)
LEMMA AskAgainOrderly ==
  ASSUME NEW s \in GoodSystems, NEW w \in Waits, NEW v \in Waits, NEW e,
         NEW again \in SUBSET OpsServices, NEW b \in BOOLEAN, b <=> Tail(w["ops"]) = <<>>,
         Orderly(s, w), Left(w, "ops", v), Head(w["ops"]) # "GARBAGE", s.ch["ops"].ap = "CONNECTED",
         Opened(s.ch["ops"], In(s.ch["ops"], w["ops"]))
  PROVE  Orderly(Freed(OperationsSync(s, again, e), "ops", b), v)
  <1> DEFINE x  == s.ch["ops"]
             y  == UpdatePending(x, again)
             s1 == [s EXCEPT !.owed = s.owed \cup again]
             p  == Put(s1, "ops", y)
             t  == Freed(p, "ops", b)
             z  == t.ch["ops"]
  <1>1. x \in GoodChannels /\ x \in ChannelRecords /\ w["ops"] \in Seq(ServerMsgs)
    BY ChGood, ChannelNames DEF Waits
  <1>2. y \in GoodChannels
    BY <1>1, PendingGood DEF Services
  <1>3. /\ Alike(x, y) /\ y.state = x.state /\ y.pending = x.pending \cup again /\ y.sync = x.sync
        /\ y.ap = "CONNECTED"
    BY <1>1 DEF ChannelRecords, Alike, UpdatePending
  <1>4. /\ s1 \in GoodSystems /\ s1.ch = s.ch /\ s1.current = s.current
        /\ s1.owed = s.owed \cup again
    <2>1. s.owed \cup again \in SUBSET OpsServices
      BY DEF GoodSystems
    <2>2. QED BY <2>1 DEF GoodSystems
  <1>5. OperationsSync(s, again, e) = IF TrySync(s1, "ops", again, e).err
                                      THEN OperationsFailed(TrySync(s1, "ops", again, e), e)
                                      ELSE TrySync(s1, "ops", again, e)
    BY DEF OperationsSync
  <1> HIDE DEF y, s1
  <1>6. /\ p \in GoodSystems /\ p.ch["ops"] = y /\ p.ch["boot"] = s.ch["boot"] /\ ~p.err
        /\ p.current = s.current /\ p.owed = s.owed \cup again
    BY <1>2, <1>4, ChannelNames, PutGood, PutParts
  <1>7. TrySync(s1, "ops", again, e) = p
    <2>1. Put(s1, "ops", UpdatePending(s1.ch["ops"], again)) = p
      BY <1>4 DEF y
    <2>2. ~NeedsConnection(p.ch["ops"])
      BY <1>3, <1>6 DEF NeedsConnection
    <2> HIDE DEF p
    <2>3. QED BY <2>1, <2>2 DEF TrySync
  <1>8. OperationsSync(s, again, e) = p
    BY <1>5, <1>6, <1>7
  <1> HIDE DEF p
  <1>9. /\ Replaced(p, t, "ops") /\ Alike(y, z) /\ z.state = y.state
        /\ z.pending = y.pending /\ (b => z.inbuf = <<>>)
    BY <1>3, <1>6, ChannelNames, FreedParts
  <1> HIDE DEF t
  <1>10. t.ch["boot"] = s.ch["boot"] /\ t.current = s.current /\ t.owed = s.owed \cup again
    BY <1>6, <1>9, ChannelNames DEF Replaced
  <1>11. Alike(x, z)
    BY <1>3, <1>9 DEF Alike
  <1>12. w["ops"] # <<>> /\ v["ops"] = Tail(w["ops"]) /\ w["boot"] = <<>> /\ v["boot"] = <<>>
    BY ChannelNames DEF Left
  <1>13. Session(x, "ops", w["ops"]) /\ Covered(x, s.owed) /\ x.sock.session
    BY DEF Orderly, Opened
  <1> HIDE DEF z
  <1>14. Session(z, "ops", v["ops"]) /\ Way(z) = Way(x)
    <2>1. z.state \in {"AUTHORIZED", "DISCONNECTING"}
      BY <1>3, <1>9 DEF Opened
    <2>2. QED BY <1>1, <1>9, <1>11, <1>12, <1>13, <2>1, ConsumeStage
  <1>15. Covered(z, s.owed \cup again)
    <2>1. z.pending = x.pending \cup again
      BY <1>3, <1>9
    <2>2. QED BY <1>13, <1>14, <2>1 DEF Covered
  <1>16. Session(t.ch["boot"], "boot", v["boot"]) /\ Single(t.ch["boot"], v["boot"])
    BY <1>10, <1>12 DEF Orderly
  <1>17. Handover(t, v)
    <2>1. s.current \in 1..NOps
      BY DEF Orderly, Handover
    <2>2. Quiet(s.ch["boot"], w["boot"])
      BY <2>1 DEF Orderly, Handover
    <2>3. QED BY <1>10, <1>12, <2>1, <2>2 DEF Handover
  <1>18. Orderly(t, v)
    BY <1>10, <1>14, <1>15, <1>16, <1>17 DEF Orderly, z
  <1>19. QED BY <1>8, <1>18 DEF t

(* A quiet channel says that it will disconnect. *)
LEMMA DisconnectFields ==
  ASSUME NEW x \in ChannelRecords, HasRoom(x)
  PROVE  LET y == DisconnectInternal(x)
         IN  /\ Queued(x, y, Msg("DISCONNECT", {})) /\ y.state = "DISCONNECTING"
             /\ y.pending = x.pending /\ y.sync = x.sync /\ y.inbuf = x.inbuf
  BY DEF DisconnectInternal, Queue, ChannelRecords, Queued

LEMMA DisconnectQuiet ==
  ASSUME NEW x \in ChannelRecords, NEW z \in ChannelRecords, NEW c, NEW v \in Seq(ServerMsgs),
         x.ap = "CONNECTED", Session(x, c, v), Opened(x, In(x, v)), x.pending = {}, x.sync # "STARTED",
         NoAsk(Way(x)), NoName(In(x, v)),
         z = DisconnectInternal(x), v = <<>> => z.inbuf = <<>>
  PROVE  Session(z, c, v) /\ Single(z, v) /\ Quiet(z, v)
  <1>1. x.addr = x.id /\ x.state \in {"AUTHORIZED", "DISCONNECTING"}
    BY DEF Session, Offline, Connected, Opened
  <1>2. CASE HasRoom(x)
    <2> DEFINE m == Msg("DISCONNECT", {})
    <2>1. /\ Queued(x, z, m) /\ z.state = "DISCONNECTING"
          /\ z.pending = x.pending /\ z.sync = x.sync
      BY <1>2, DisconnectFields
    <2>2. m \in ClientMsgs /\ m.type = "DISCONNECT" /\ m.type \notin Asks
      BY MsgType DEF Msg, Asks
    <2> HIDE DEF m
    <2>3. /\ Session(z, c, v) /\ NoName(In(z, v)) /\ NoAsk(Way(z)) /\ Single(z, v)
      BY <2>1, <2>2, QueueStage
    <2>4. QED BY <1>1, <2>1, <2>3 DEF Quiet, Queued
  <1>3. CASE ~HasRoom(x)
    <2>1. z = x
      BY <1>3 DEF DisconnectInternal
    <2>2. Single(x, v)
      BY DEF Single, NoAsk, OneAsk, NoName, OneName
    <2>3. QED BY <1>1, <2>1, <2>2 DEF Quiet
  <1>4. QED BY <1>2, <1>3

LEMMA DisconnectEmptied ==
  ASSUME NEW y \in ChannelRecords
  PROVE  [DisconnectInternal(y) EXCEPT !.inbuf = <<>>] = DisconnectInternal([y EXCEPT !.inbuf = <<>>])
  <1> DEFINE x == [y EXCEPT !.inbuf = <<>>]
             q == Append(y.out, Msg("DISCONNECT", {}))
  <1>1. x.out = y.out
    BY DEF ChannelRecords
  <1>2. HasRoom(x) <=> HasRoom(y)
    BY <1>1 DEF HasRoom
  <1>3. CASE HasRoom(y)
    <2>1. DisconnectInternal(y) = [y EXCEPT !.out = q, !.state = "DISCONNECTING"]
      <3>1. Queue(y, Msg("DISCONNECT", {})) = [y EXCEPT !.out = q]
        BY DEF Queue
      <3> HIDE DEF q
      <3>2. QED BY <1>3, <3>1 DEF DisconnectInternal, ChannelRecords
    <2>2. DisconnectInternal(x) = [x EXCEPT !.out = q, !.state = "DISCONNECTING"]
      <3>1. Queue(x, Msg("DISCONNECT", {})) = [x EXCEPT !.out = q]
        BY <1>1 DEF Queue
      <3> HIDE DEF q, x
      <3>2. [[x EXCEPT !.out = q] EXCEPT !.state = "DISCONNECTING"]
              = [x EXCEPT !.out = q, !.state = "DISCONNECTING"]
        BY DEF ChannelRecords, x
      <3>3. QED BY <1>2, <1>3, <3>1, <3>2 DEF DisconnectInternal
    <2> HIDE DEF q
    <2>3. QED BY <2>1, <2>2 DEF ChannelRecords
  <1>4. CASE ~HasRoom(y)
    BY <1>2, <1>4 DEF DisconnectInternal
  <1>5. QED BY <1>3, <1>4

(* The list: the operations channel is given its first access point, or    *)
(* none; the bootstrap channel keeps quiet from here on.                   *)
LEMMA NewListMoves ==
  ASSUME NEW s \in GoodSystems, NEW empty \in BOOLEAN, Session(s.ch["ops"], "ops", <<>>),
         Covered(s.ch["ops"], s.owed), s.ch["ops"].ap \in {"NOT_SET", "RESOLVED"}
  PROVE  LET r == NewOperationsList(s, empty)
         IN  /\ r \in GoodSystems /\ r.ch["boot"] = s.ch["boot"] /\ r.owed = s.owed
             /\ Session(r.ch["ops"], "ops", <<>>) /\ Covered(r.ch["ops"], r.owed)
             /\ r.current \in 1..NOps \/ r.ch["ops"].ap \in {"NOT_SET", "RESOLVED"}
  <1> DEFINE r == NewOperationsList(s, empty)
             o == s.ch["ops"]
             y == SetAccessPoint(o, 1)
  <1>1. r \in GoodSystems /\ o \in ChannelRecords
    BY NewOperationsListGood, ChannelNames, ChGood
  <1>2. CASE empty
    <2>1. r = [s EXCEPT !.current = NoList]
      BY <1>2 DEF NewOperationsList
    <2>2. r.ch = s.ch /\ r.owed = s.owed
      BY <2>1 DEF GoodSystems
    <2>3. QED BY <1>1, <2>2
  <1>3. CASE ~empty
    <2>1. Offline(o, "ops", <<>>) /\ ~o.leaked
      BY DEF Session, Connected
    <2>2. Loose(o) /\ Unstarted(o, "ops") /\ o.inbuf = <<>>
      BY <2>1 DEF Offline, Loose
    <2>3. Moved(o, y)
      BY <1>1, <2>2, SetLoose
    <2>4. y \in ChannelRecords
      <3>1. o \in GoodChannels
        BY ChannelNames, ChGood
      <3>2. QED BY <3>1, SetAccessPointGood DEF GoodChannels
    <2>5. r = [Put(s, "ops", y) EXCEPT !.current = 1]
      BY <1>3 DEF NewOperationsList
    <2> HIDE DEF y, r
    <2>6. /\ r.ch["ops"] = y /\ r.ch["boot"] = s.ch["boot"] /\ r.current = 1 /\ r.owed = s.owed
      BY <2>5, ChannelNames DEF Put, GoodSystems, Channels
    <2>7. Session(y, "ops", <<>>) /\ Covered(y, s.owed)
      BY <1>1, <2>2, <2>3, <2>4, EmptySeqType, OnlyEmpty, MovedOffline
    <2>8. 1 \in 1..NOps
      BY ConstantTypes
    <2>9. QED BY <1>1, <2>6, <2>7, <2>8 DEF r
  <1>4. QED BY <1>2, <1>3

LEMMA ListOrderly ==
  ASSUME NEW s \in GoodSystems, NEW w \in Waits, NEW v \in Waits,
         NEW empty \in BOOLEAN, NEW b \in BOOLEAN, b <=> Tail(w["boot"]) = <<>>,
         Orderly(s, w), Left(w, "boot", v), Head(w["boot"]) \in Names, s.ch["boot"].ap = "CONNECTED",
         Opened(s.ch["boot"], In(s.ch["boot"], w["boot"]))
  PROVE  LET s1 == NewOperationsList(s, empty)
             p  == Put(s1, "boot", DisconnectInternal([s1.ch["boot"] EXCEPT !.sync = "FINISHED"]))
         IN  Orderly(Freed(p, "boot", b), v)
  <1> DEFINE a  == s.ch["boot"]
             s1 == NewOperationsList(s, empty)
             f  == [a EXCEPT !.sync = "FINISHED"]
             d  == DisconnectInternal(f)
             p  == Put(s1, "boot", d)
             t  == Freed(p, "boot", b)
             x  == IF b THEN [f EXCEPT !.inbuf = <<>>] ELSE f
             z  == IF b THEN [d EXCEPT !.inbuf = <<>>] ELSE d
             q  == In(a, w["boot"])
  <1>1. /\ a \in GoodChannels /\ a \in ChannelRecords
        /\ w["boot"] \in Seq(ServerMsgs) /\ v["boot"] \in Seq(ServerMsgs) /\ v["ops"] \in Seq(ServerMsgs)
        /\ w["boot"] # <<>> /\ v["boot"] = Tail(w["boot"]) /\ w["ops"] = <<>> /\ v["ops"] = <<>>
    BY ChGood, ChannelNames DEF Waits, Left, Names
  <1>2. /\ Session(a, "boot", w["boot"]) /\ Single(a, w["boot"])
        /\ Session(s.ch["ops"], "ops", <<>>) /\ Covered(s.ch["ops"], s.owed)
    BY <1>1 DEF Orderly
  <1>3. /\ q \in Seq(ServerMsgs) /\ q # <<>> /\ Head(q) \in Names
    BY <1>1, InParts
  <1>4. /\ NoName(Tail(q)) /\ ~NoName(q)
    BY <1>2, <1>3, NoNameTail DEF Single
  <1>5. NoAsk(Way(a)) /\ a.pending = {}
    BY <1>2, <1>4 DEF Single
  <1>6. s.ch["ops"].ap \in {"NOT_SET", "RESOLVED"}
    BY <1>4 DEF Orderly, Handover, Quiet
  <1>7. /\ s1 \in GoodSystems /\ s1.ch["boot"] = a /\ s1.owed = s.owed
        /\ Session(s1.ch["ops"], "ops", <<>>) /\ Covered(s1.ch["ops"], s1.owed)
        /\ s1.current \in 1..NOps \/ s1.ch["ops"].ap \in {"NOT_SET", "RESOLVED"}
    BY <1>2, <1>6, NewListMoves
  <1> HIDE DEF s1
  <1>8. /\ f \in GoodChannels /\ Alike(a, f) /\ f.state = a.state /\ f.pending = a.pending
        /\ f.sync = "FINISHED" /\ f \in ChannelRecords
    <2>1. f \in GoodChannels
      BY <1>1, ChangeStateGood DEF ChannelStates, SyncStates
    <2>2. QED BY <1>1, <2>1 DEF ChannelRecords, Alike, GoodChannels
  <1> HIDE DEF f
  <1>9. /\ x \in ChannelRecords /\ Alike(a, x) /\ x.state = a.state /\ x.pending = {}
        /\ x.sync = "FINISHED" /\ (b => x.inbuf = <<>>)
    BY <1>5, <1>8, EmptySeqType DEF ChannelRecords, Alike
  <1>10. d \in GoodChannels /\ d.ap = "CONNECTED"
    <2>1. d \in GoodChannels
      BY <1>8, ChannelNames, RequestsGood DEF Services
    <2>2. d.ap = f.ap
      BY <1>8, DisconnectFields DEF DisconnectInternal, Queued
    <2>3. QED BY <1>8, <2>1, <2>2 DEF Alike
  <1>11. z = DisconnectInternal(x)
    BY <1>8, DisconnectEmptied
  <1> HIDE DEF d
  <1>12. z \in ChannelRecords /\ (b => z.inbuf = <<>>)
    BY <1>10, EmptySeqType DEF GoodChannels, ChannelRecords
  <1>13. p \in GoodSystems /\ Replaced(s1, p, "boot") /\ p.ch["boot"] = d
    BY <1>7, <1>10, ChannelNames, PutGood, PutReplaced
  <1> HIDE DEF p
  <1>14. Replaced(s1, t, "boot") /\ t.ch["boot"] = z
    <2>1. CASE b
      <3>1. t = [p EXCEPT !.ch["boot"] = z]
        BY <1>10, <1>13, <2>1 DEF Freed
      <3> HIDE DEF t, z
      <3>2. QED BY <1>13, <3>1, ChannelNames DEF GoodSystems, Replaced
    <2>2. CASE ~b
      BY <1>13, <2>2 DEF Freed
    <2>3. QED BY <2>1, <2>2
  <1> HIDE DEF t, x, z
  <1>15. Session(x, "boot", v["boot"]) /\ Opened(x, In(x, v["boot"])) /\ Way(x) = Way(a) /\ In(x, v["boot"]) = Tail(q)
    <2>1. x.state \in {"AUTHORIZED", "DISCONNECTING"}
      BY <1>9 DEF Opened
    <2>2. QED BY <1>1, <1>2, <1>9, <2>1, ConsumeStage
  <1>16. Session(z, "boot", v["boot"]) /\ Single(z, v["boot"]) /\ Quiet(z, v["boot"])
    <2>1. x.ap = "CONNECTED" /\ x.sync # "STARTED"
      BY <1>9 DEF Alike
    <2>2. NoAsk(Way(x)) /\ NoName(In(x, v["boot"]))
      BY <1>4, <1>5, <1>15
    <2>3. QED BY <1>1, <1>9, <1>11, <1>12, <1>15, <2>1, <2>2, DisconnectQuiet
  <1>17. t.ch["ops"] = s1.ch["ops"] /\ t.current = s1.current /\ t.owed = s1.owed
    BY <1>14, ChannelNames DEF Replaced
  <1>18. Orderly(t, v)
    BY <1>1, <1>7, <1>14, <1>16, <1>17 DEF Orderly, Handover
  <1>19. QED BY <1>7, <1>18 DEF t, p, d, f, s1

LEMMA ProcessMessageOrderly ==
  ASSUME NEW s \in GoodSystems, NEW c \in Channels, NEW w \in Waits, NEW v \in Waits, NEW e,
         NEW again \in SUBSET OpsServices, NEW b \in BOOLEAN,
         Orderly(s, w), Left(w, c, v), Head(w[c]) # "GARBAGE" => (b <=> Tail(w[c]) = <<>>)
  PROVE  Orderly(Freed(ProcessMessage(s, c, Head(w[c]), again, e), c, b), v)
  <1> DEFINE x == s.ch[c]
             m == Head(w[c])
             q == In(x, w[c])
             r == ProcessMessage(s, c, m, again, e)
  <1>1. x \in ChannelRecords /\ w[c] \in Seq(ServerMsgs) /\ w[c] # <<>> /\ Session(x, c, w[c])
    BY ChGood DEF Waits, Left, Orderly, Channels
  <1>2. \/ m = "GARBAGE"
        \/ m = "REFUSED" /\ Only(Tail(w[c]), Endings)
        \/ /\ m = "CONNACK" /\ x.ap = "CONNECTED" /\ Accepted(x, q) /\ Only(Tail(q), Contents)
        \/ m \in {"KAASYNC", "EMPTY", "PINGRESP"} /\ x.ap = "CONNECTED" /\ Opened(x, q)
    BY <1>1, NextMessage
  <1>3. CASE m = "GARBAGE" \/ (m = "REFUSED" /\ Only(Tail(w[c]), Endings))
    <2>1. r = SocketIoError(s, c, e)
      BY <1>3 DEF ProcessMessage
    <2>2. QED BY <1>3, <2>1, ParseErrorOrderly
  <1>4. CASE m = "CONNACK" /\ x.ap = "CONNECTED" /\ Accepted(x, q) /\ Only(Tail(q), Contents)
    <2>1. r = Put(s, c, [x EXCEPT !.state = "AUTHORIZED", !.due = FALSE])
      BY <1>4 DEF ProcessMessage, Accepted
    <2> HIDE DEF r
    <2>2. b <=> Tail(w[c]) = <<>>
      BY <1>4
    <2>3. QED BY <1>4, <2>1, <2>2, ConnackOrderly DEF r
  <1>5. CASE m \in {"KAASYNC", "EMPTY", "PINGRESP"} /\ x.ap = "CONNECTED" /\ Opened(x, q)
    <2>0. (b <=> Tail(w[c]) = <<>>) /\ m # "GARBAGE"
      BY <1>5
    <2>1. CASE m = "PINGRESP" \/ (c = "ops" /\ again = {})
      <3>1. r = s
        BY <1>5, <2>1 DEF ProcessMessage
      <3>2. QED BY <1>5, <2>0, <3>1, IdleMessageOrderly
    <2>2. CASE m # "PINGRESP" /\ c = "ops" /\ again # {}
      <3>1. r = OperationsSync(s, again, e)
        BY <1>5, <2>2 DEF ProcessMessage
      <3>2. QED BY <1>5, <2>0, <2>2, <3>1, AskAgainOrderly
    <2>3. CASE m # "PINGRESP" /\ c = "boot"
      <3> DEFINE s1 == NewOperationsList(s, m = "EMPTY")
      <3>1. r = Put(s1, "boot", DisconnectInternal([s1.ch["boot"] EXCEPT !.sync = "FINISHED"]))
        BY <1>5, <2>3 DEF ProcessMessage
      <3>2. m \in Names
        BY <1>5, <2>3 DEF Names
      <3> HIDE DEF r
      <3>3. QED BY <1>5, <2>0, <2>3, <3>1, <3>2, ListOrderly DEF r
    <2>4. QED BY <2>1, <2>2, <2>3 DEF Channels
  <1>6. QED BY <1>2, <1>3, <1>4, <1>5

(* What has arrived is read into the buffer. *)
LEMMA ReceiveOrderly ==
  ASSUME NEW s \in GoodSystems, NEW c \in Channels, NEW n \in 1..Len(s.ch[c].sock.s2c), NEW v,
         Orderly(s, Calm), s.ch[c].ap = "CONNECTED",
         v = [o \in Channels |-> IF o = c THEN Receive(s.ch[c], n).inbuf ELSE <<>>]
  PROVE  Orderly(Put(s, c, Receive(s.ch[c], n)), v)
  <1> DEFINE x == s.ch[c]
             got == x.inbuf \o SubSeq(x.sock.s2c, 1, n)
             rest == SubSeq(x.sock.s2c, n + 1, Len(x.sock.s2c))
             y == Receive(x, n)
             t == Put(s, c, y)
  <1>1. /\ x \in ChannelRecords /\ x.sock \in Sockets /\ x.sock.s2c \in Seq(ServerMsgs) /\ Session(x, c, <<>>)
        /\ c = "boot" => Single(x, <<>>) /\ (s.current \in 1..NOps => Quiet(x, <<>>))
        /\ c = "ops" => Covered(x, s.owed) /\ s.current \in 1..NOps
    BY CalmSession DEF ChannelRecords, Sockets
  <1>2. x.inbuf = <<>> /\ x.sock.st # "none"
    BY <1>1 DEF Session, Offline, Connected, FdOpen
  <1>3. /\ SubSeq(x.sock.s2c, 1, n) \in Seq(ServerMsgs) /\ rest \in Seq(ServerMsgs)
        /\ SubSeq(x.sock.s2c, 1, n) \o rest = x.sock.s2c
    BY <1>1, SplitConcat
  <1>4. got = SubSeq(x.sock.s2c, 1, n)
    BY <1>2, <1>3, ConcatEmpty
  <1>5. got \o rest = x.sock.s2c /\ got \in Seq(ServerMsgs) /\ <<>> \o x.sock.s2c = x.sock.s2c
    BY <1>1, <1>3, <1>4, ConcatEmpty
  <1>6. y = [x EXCEPT !.inbuf = got, !.sock.s2c = rest]
    BY DEF Receive
  <1> HIDE DEF got, rest, y
  <1>7. /\ y.ap = x.ap /\ y.id = x.id /\ y.addr = x.addr /\ y.queries = x.queries
        /\ y.leaked = x.leaked /\ y.state = x.state /\ y.pending = x.pending /\ y.sync = x.sync
        /\ y.inbuf = got /\ y.out = x.out
        /\ y.sock.st = x.sock.st /\ y.sock.peer = x.sock.peer
        /\ y.sock.session = x.sock.session /\ y.sock.c2s = x.sock.c2s /\ y.sock.s2c = rest
    BY <1>1, <1>6 DEF ChannelRecords, Sockets
  <1>8. Way(y) = Way(x) /\ In(y, got) = In(x, <<>>)
    BY <1>5, <1>7 DEF Way, In
  <1>9. /\ Session(y, c, got)
        /\ Single(x, <<>>) => Single(y, got)
        /\ Quiet(x, <<>>) => Quiet(y, got)
        /\ \A owing : Covered(x, owing) => Covered(y, owing)
    BY <1>1, <1>2, <1>7, <1>8, SameStage
  <1>10. Replaced(s, t, c) /\ t.ch[c] = y
    BY PutReplaced
  <1>11. v[c] = got /\ \A o \in Channels : o # c => v[o] = Calm[o]
    BY <1>7, CalmType DEF y
  <1> HIDE DEF t
  <1>12. Orderly(t, v)
    BY <1>1, <1>9, <1>10, <1>11, ReplacedOrderly
  <1>13. QED BY <1>12 DEF t, y
-----------------------------------------------------------------------------
(* The state. *)

(* What the parser has left of each channel's buffer. *)
Wait == [c \in Channels |-> IF parse.c = c THEN parse.msgs ELSE <<>>]

BotInv == IInv /\ Orderly(System, Wait)

LEMMA SystemParts ==
  /\ System.ch = chan /\ System.current = current /\ System.owed = owed
  /\ System'.ch = chan' /\ System'.current = current' /\ System'.owed = owed'
  BY DEF System

LEMMA WaitType ==
  ASSUME IInv
  PROVE  /\ Wait \in Waits /\ Wait[parse.c] = parse.msgs
         /\ \A o \in Channels : o # parse.c => Wait[o] = <<>>
         /\ parse.msgs = <<>> => Wait = Calm
  <1>1. parse.c \in Channels /\ parse.msgs \in Seq(ServerMsgs)
    BY DEF IInv, LoopOK
  <1>2. QED BY <1>1, EmptySeqType DEF Wait, Waits, Calm

LEMMA SameOrderly ==
  ASSUME NEW s, NEW t, NEW w, Orderly(s, w), t.ch = s.ch, t.current = s.current, t.owed = s.owed
  PROVE  Orderly(t, w)
  BY DEF Orderly, Handover

LEMMA CommitOrderly ==
  ASSUME NEW s, NEW e, Commit(s, e), NEW v, Orderly(s, v), Wait' = v
  PROVE  Orderly(System, Wait)'
  <1>1. System'.ch = s.ch /\ System'.current = s.current /\ System'.owed = s.owed
    BY SystemParts DEF Commit
  <1>2. Orderly(System', Wait')
    BY <1>1, SameOrderly
  <1>3. QED BY <1>2


LEMMA IdleWait ==
  /\ parse' = Idle => Wait' = Calm
  /\ parse' = parse => Wait' = Wait
  BY DEF Idle, Wait, Calm

LEMMA CalmState ==
  ASSUME BotInv, parse.msgs = <<>>
  PROVE  System \in GoodSystems /\ Orderly(System, Calm) /\ Wait = Calm
  BY SystemGood, WaitType DEF BotInv, IInv

LEMMA SelectBot == ASSUME BotInv, Select PROVE BotInv'
  <1>1. Wait' = Wait /\ chan' = chan /\ current' = current /\ owed' = owed
    BY IdleWait DEF Select
  <1>2. Orderly(System', Wait')
    BY <1>1, SystemParts, SameOrderly DEF BotInv
  <1>3. QED BY <1>2, SelectOK DEF BotInv

LEMMA NoInputBot == ASSUME BotInv, NoInput PROVE BotInv'
  <1>1. Wait' = Wait /\ chan' = chan /\ current' = current /\ owed' = owed
    BY IdleWait DEF NoInput
  <1>2. Orderly(System', Wait')
    BY <1>1, SystemParts, SameOrderly DEF BotInv
  <1>3. QED BY <1>2, NoInputOK DEF BotInv

LEMMA KeepaliveBot == ASSUME BotInv, Keepalive PROVE BotInv'
  <1> DEFINE c == Head(todo).c
  <1>1. c \in Channels /\ parse.msgs = <<>> /\ parse' = parse
    BY HeadType DEF BotInv, IInv, Keepalive, Turn
  <1>2. PICK e \in FaultChoices(c) : Commit(CheckKeepalive(System, c, e), e)
    BY DEF Keepalive
  <1>3. System \in GoodSystems /\ Orderly(System, Calm) /\ Wait' = Calm
    BY <1>1, CalmState, IdleWait
  <1> HIDE DEF c
  <1>4. Orderly(CheckKeepalive(System, c, e), Calm)
    BY <1>1, <1>3, CheckKeepaliveOrderly
  <1>5. Orderly(System, Wait)'
    BY <1>2, <1>3, <1>4, CommitOrderly
  <1>6. QED BY <1>5, KeepaliveOK DEF BotInv

LEMMA WriteEventBot == ASSUME BotInv, WriteEvent PROVE BotInv'
  <1> DEFINE c == Head(todo).c
             s1(e) == CheckKeepalive(System, c, e)
             s2(e) == IF s1(e).err THEN s1(e) ELSE ProcessWrite(s1(e), c, e)
  <1>1. c \in Channels /\ parse.msgs = <<>> /\ parse' = parse
    BY HeadType DEF BotInv, IInv, WriteEvent, Turn
  <1>2. PICK e \in FaultChoices(c) : Commit(s2(e), e)
    BY DEF WriteEvent
  <1>3. System \in GoodSystems /\ Orderly(System, Calm) /\ Wait' = Calm
    BY <1>1, CalmState, IdleWait
  <1> HIDE DEF c
  <1>4. s1(e) \in GoodSystems /\ Orderly(s1(e), Calm)
    BY <1>1, <1>3, CheckKeepaliveOrderly, CheckKeepaliveGood
  <1> HIDE DEF s1
  <1>5. Orderly(ProcessWrite(s1(e), c, e), Calm)
    BY <1>1, <1>4, ProcessWriteOrderly
  <1>6. Orderly(s2(e), Calm)
    BY <1>4, <1>5
  <1> HIDE DEF s2
  <1>7. Orderly(System, Wait)'
    BY <1>2, <1>3, <1>6, CommitOrderly
  <1>8. QED BY <1>7, WriteEventOK DEF BotInv

LEMMA ReadEventBot == ASSUME BotInv, ReadEvent PROVE BotInv'
  <1> DEFINE c == Head(todo).c
             s1(e) == CheckKeepalive(System, c, e)
             arrived(e) == s1(e).ch[c].sock.s2c
             hit(e) == ~s1(e).err /\ s1(e).ch[c].ap = "CONNECTED" /\ arrived(e) # <<>>
             s2(e) == IF s1(e).err THEN s1(e) ELSE ProcessEmptyRead(s1(e), c, e)
             ch(e, n) == Receive(s1(e).ch[c], n)
  <1>1. c \in Channels /\ parse.msgs = <<>>
    BY HeadType DEF BotInv, IInv, ReadEvent, Turn
  <1>2. PICK e \in FaultChoices(c) :
          IF hit(e)
          THEN \E n \in 1..Len(arrived(e)) : /\ Commit(Put(s1(e), c, ch(e, n)), e)
                                             /\ parse' = [c |-> c, msgs |-> ch(e, n).inbuf]
          ELSE Commit(s2(e), e) /\ parse' = Idle
    BY DEF ReadEvent
  <1>3. System \in GoodSystems /\ Orderly(System, Calm)
    BY <1>1, CalmState
  <1> HIDE DEF c
  <1>4. s1(e) \in GoodSystems /\ Orderly(s1(e), Calm)
    BY <1>1, <1>3, CheckKeepaliveOrderly, CheckKeepaliveGood
  <1> HIDE DEF s1
  <1>5. CASE hit(e)
    <2>1. PICK n \in 1..Len(arrived(e)) : /\ Commit(Put(s1(e), c, ch(e, n)), e)
                                          /\ parse' = [c |-> c, msgs |-> ch(e, n).inbuf]
      BY <1>2, <1>5
    <2> DEFINE v == [o \in Channels |-> IF o = c THEN ch(e, n).inbuf ELSE <<>>]
               s3 == Put(s1(e), c, ch(e, n))
    <2>2. Orderly(s3, v)
      BY <1>1, <1>4, <1>5, ReceiveOrderly
    <2>3. Wait' = v
      <3> HIDE DEF ch
      <3>1. QED BY <2>1 DEF Wait
    <2> HIDE DEF s3, v
    <2>4. Orderly(System, Wait)'
      BY <2>1, <2>2, <2>3, CommitOrderly DEF s3
    <2>5. QED BY <2>4, ReadEventOK DEF BotInv
  <1>6. CASE ~hit(e)
    <2>1. Orderly(ProcessEmptyRead(s1(e), c, e), Calm)
      BY <1>1, <1>4, ProcessEmptyReadOrderly
    <2>2. Orderly(s2(e), Calm)
      BY <1>4, <2>1
    <2>3. Commit(s2(e), e) /\ Wait' = Calm
      BY <1>2, <1>6, IdleWait
    <2> HIDE DEF s2
    <2>4. Orderly(System, Wait)'
      BY <2>2, <2>3, CommitOrderly
    <2>5. QED BY <2>4, ReadEventOK DEF BotInv
  <1>7. QED BY <1>5, <1>6

LEMMA LastMessage ==
  ASSUME NEW q \in Seq(ServerMsgs), q # <<>>
  PROVE  Tail(q) \in Seq(ServerMsgs) /\ (Len(q) = 1 <=> Tail(q) = <<>>)
  <1>1. ASSUME NEW p \in Seq(ServerMsgs) PROVE p = <<>> <=> Len(p) = 0
    OBVIOUS
  <1>2. Tail(q) \in Seq(ServerMsgs) /\ Len(q) \in Nat /\ Len(Tail(q)) = Len(q) - 1
    BY TailElements
  <1>3. Tail(q) = <<>> <=> Len(Tail(q)) = 0
    BY <1>1, <1>2
  <1>4. QED BY <1>2, <1>3

LEMMA ParseMessageBot == ASSUME BotInv, ParseMessage PROVE BotInv'
  <1> DEFINE c == parse.c
             msgs == parse.msgs
             m == Head(msgs)
             last == m = "GARBAGE" \/ Len(msgs) = 1
             b == last /\ m # "GARBAGE"
             s1(e, again) == ProcessMessage(System, c, m, again, e)
             v == [o \in Channels |-> IF o = c /\ ~last THEN Tail(msgs) ELSE <<>>]
  <1>1. c \in Channels /\ msgs \in Seq(ServerMsgs) /\ msgs # <<>>
    BY DEF BotInv, IInv, LoopOK, ParseMessage
  <1>2. Tail(msgs) \in Seq(ServerMsgs) /\ (Len(msgs) = 1 <=> Tail(msgs) = <<>>)
    BY <1>1, LastMessage
  <1>3. PICK e \in FaultChoices(c),
             again \in {{}} \cup {{x} : x \in IF syncs < MaxSyncs THEN CallbackServices ELSE {}} :
          /\ Commit(Freed(s1(e, again), c, b), e)
          /\ parse' = IF last THEN Idle ELSE [parse EXCEPT !.msgs = Tail(@)]
    BY DEF ParseMessage, Freed
  <1>4. again \in SUBSET OpsServices
    BY ConstantTypes
  <1>5. System \in GoodSystems /\ Orderly(System, Wait) /\ Wait \in Waits /\ Wait[c] = msgs
        /\ \A o \in Channels : o # c => Wait[o] = <<>>
    BY SystemGood, WaitType DEF BotInv, IInv
  <1>6. v \in Waits /\ v[c] = IF last THEN <<>> ELSE Tail(msgs)
    BY <1>1, <1>2, EmptySeqType DEF Waits
  <1>7. Left(Wait, c, v)
    <2>1. v[c] = IF m = "GARBAGE" THEN <<>> ELSE Tail(msgs)
      BY <1>2, <1>6
    <2>2. \A o \in Channels : o # c => v[o] = <<>>
      OBVIOUS
    <2> HIDE DEF v
    <2>3. QED BY <1>1, <1>5, <2>1, <2>2 DEF Left
  <1>8. Wait' = v
    BY <1>1, <1>3 DEF Wait, Idle, BotInv, IInv, LoopOK
  <1>9. b \in BOOLEAN /\ (m # "GARBAGE" => (b <=> Tail(msgs) = <<>>))
    BY <1>2
  <1> HIDE DEF v, b
  <1>10. Orderly(Freed(s1(e, again), c, b), v)
    <2> HIDE DEF c, msgs
    <2>1. QED BY <1>1, <1>4, <1>5, <1>6, <1>7, <1>9, ProcessMessageOrderly
  <1>11. Orderly(System, Wait)'
    BY <1>3, <1>8, <1>10, CommitOrderly
  <1>12. QED BY <1>11, ParseMessageOK DEF BotInv

(* A step that changes one channel and no more than it delivers. *)
LEMMA ChannelStep ==
  ASSUME BotInv, NEW c \in Channels, NEW y, chan' = [chan EXCEPT ![c] = y],
         current' = current, parse' = parse, Session(y, c, Wait[c]),
         c = "boot" => /\ owed' = owed /\ Single(y, Wait[c])
                       /\ current \in 1..NOps => Quiet(y, Wait[c]),
         c = "ops" => /\ Covered(y, owed')
                      /\ current \notin 1..NOps => y.ap \in {"NOT_SET", "RESOLVED"}
  PROVE  Orderly(System, Wait)'
  <1>1. /\ System'.ch = chan' /\ System'.current = current /\ System'.owed = owed'
        /\ System.ch = chan /\ System.current = current /\ System.owed = owed
        /\ Wait' = Wait
    BY SystemParts, IdleWait
  <1>2. chan'[c] = y /\ \A o \in Channels : o # c => chan'[o] = chan[o]
    BY DEF BotInv, IInv, CoreOK
  <1>3. Orderly(System, Wait)
    BY DEF BotInv
  <1>4. CASE c = "boot"
    <2>1. chan'["ops"] = chan["ops"] /\ chan'["boot"] = y
      BY <1>2, <1>4, ChannelNames
    <2>2. Orderly(System', Wait)
      BY <1>1, <1>3, <1>4, <2>1 DEF Orderly, Handover
    <2>3. QED BY <1>1, <2>2
  <1>5. CASE c = "ops"
    <2>1. chan'["boot"] = chan["boot"] /\ chan'["ops"] = y
      BY <1>2, <1>5, ChannelNames
    <2>2. Orderly(System', Wait)
      BY <1>1, <1>3, <1>5, <2>1 DEF Orderly, Handover
    <2>3. QED BY <1>1, <2>2
  <1>6. QED BY <1>4, <1>5 DEF Channels

LEMMA ChannelState ==
  ASSUME BotInv, NEW c \in Channels
  PROVE  /\ chan[c] \in ChannelRecords /\ chan[c] \in GoodChannels /\ Wait[c] \in Seq(ServerMsgs)
         /\ Session(chan[c], c, Wait[c])
         /\ c = "boot" => /\ Single(chan[c], Wait[c])
                          /\ current \in 1..NOps => Quiet(chan[c], Wait[c])
         /\ c = "ops" => /\ Covered(chan[c], owed)
                         /\ current \notin 1..NOps => chan[c].ap \in {"NOT_SET", "RESOLVED"}
  <1>1. chan[c] \in ChannelRecords /\ chan[c] \in GoodChannels
    BY DEF BotInv, IInv, CoreOK, GoodChannels
  <1>2. Wait[c] \in Seq(ServerMsgs)
    BY WaitType DEF BotInv, Waits
  <1>3. QED BY <1>1, <1>2, SystemParts DEF BotInv, Orderly, Handover, Channels

LEMMA HostnameResolvedBot ==
  ASSUME BotInv, NEW c \in Channels, HostnameResolved(c) PROVE BotInv'
  <1> DEFINE x == chan[c]
             asked(i) == [chan[c] EXCEPT !.queries = RemoveAt(@, i)]
             s0(i) == Put(System, c, asked(i))
             s1(i, e) == Dial(s0(i), c, chan[c].queries[i], e)
  <1>1. PICK i \in 1..Len(chan[c].queries), e \in FaultChoices(c) : Commit(s1(i, e), e)
    BY DEF HostnameResolved
  <1>2. parse.msgs = <<>> /\ parse' = parse
    BY DEF HostnameResolved, LoopIdle
  <1>3. System \in GoodSystems /\ Orderly(System, Calm) /\ Wait' = Calm
    BY <1>2, CalmState, IdleWait
  <1>4. /\ x \in ChannelRecords /\ Session(x, c, <<>>) /\ x.queries # <<>> /\ AsyncDns
        /\ System.ch = chan /\ System.current = current /\ System.owed = owed
    <2>1. x \in ChannelRecords /\ x.queries \in Seq(Nat)
      BY ChannelState DEF ChannelRecords
    <2>2. x.queries # <<>>
      BY <2>1
    <2>3. AsyncDns
      BY Answered DEF BotInv, IInv
    <2>4. QED BY <1>3, <2>1, <2>2, <2>3, CalmSession, SystemParts
  <1>5. Offline(x, c, <<>>) /\ ~x.leaked /\ x.ap = "IN_PROGRESS" /\ x.queries = <<x.id>>
    BY <1>4 DEF Session, Connected, Offline
  <1>6. i = 1 /\ x.queries[i] = x.id
    BY <1>5
  <1>7. RemoveAt(x.queries, i) = <<>>
    BY <1>5, <1>6 DEF RemoveAt
  <1>8. /\ asked(i) \in ChannelRecords /\ asked(i).queries = <<>> /\ asked(i).ap = "IN_PROGRESS"
        /\ asked(i).sock = x.sock /\ asked(i).leaked = x.leaked /\ asked(i).state = x.state
        /\ asked(i).out = x.out /\ asked(i).inbuf = x.inbuf /\ asked(i).pending = x.pending
        /\ asked(i).id = x.id
    BY <1>4, <1>5, <1>7, <<>> \in Seq(Nat) DEF ChannelRecords
  <1>9. asked(i) \in GoodChannels
    BY <1>4, <1>8 DEF GoodChannels, Good
  <1> HIDE DEF asked
  <1>10. s0(i) \in GoodSystems /\ Replaced(System, s0(i), c) /\ s0(i).ch[c] = asked(i)
    BY <1>3, <1>9, PutGood, PutReplaced
  <1> HIDE DEF s0
  <1>11. Unconnected(s0(i), c)
    <2>1. /\ asked(i).sock = NoSocket /\ ~asked(i).leaked /\ asked(i).queries = <<>>
          /\ Unstarted(asked(i), c) /\ asked(i).inbuf = <<>>
      BY <1>5, <1>8 DEF Offline, Unstarted
    <2>2. CASE c = "boot"
      <3>1. /\ s0(i).ch["ops"] = System.ch["ops"] /\ s0(i).current = System.current
            /\ s0(i).owed = System.owed
        BY <1>10, <2>2, ChannelNames DEF Replaced
      <3>2. Single(System.ch["boot"], <<>>) /\ Session(System.ch["ops"], "ops", <<>>)
            /\ Covered(System.ch["ops"], System.owed)
        BY <1>3, CalmType DEF Orderly
      <3>3. System.current \notin 1..NOps
        BY <1>3, <1>4, <1>5, <2>2 DEF Orderly, Handover, Quiet
      <3>4. System.ch["ops"].ap \in {"NOT_SET", "RESOLVED"}
        BY <1>3, <3>3 DEF Orderly, Handover
      <3>5. asked(i).pending \subseteq {"bootstrap"}
        BY <1>4, <1>8, <2>2, <3>2 DEF Single
      <3>6. QED BY <1>10, <2>1, <2>2, <3>1, <3>2, <3>3, <3>4, <3>5 DEF Unconnected
    <2>3. CASE c = "ops"
      <3>1. s0(i).ch["boot"] = System.ch["boot"] /\ s0(i).current = System.current
        BY <1>10, <2>3, ChannelNames DEF Replaced
      <3>2. System.current \in 1..NOps
        BY <1>3, <1>4, <1>5, <2>3 DEF Orderly, Handover
      <3>3. /\ Session(System.ch["boot"], "boot", <<>>) /\ Single(System.ch["boot"], <<>>)
            /\ Quiet(System.ch["boot"], <<>>)
        BY <1>3, <3>2, CalmType DEF Orderly, Handover
      <3>4. QED BY <1>10, <2>1, <2>3, <3>1, <3>2, <3>3 DEF Unconnected
    <2>4. QED BY <2>2, <2>3 DEF Channels
  <1>12. Orderly(s1(i, e), Calm)
    <2>1. s1(i, e) = Dial(s0(i), c, s0(i).ch[c].id, e)
      BY <1>6, <1>8, <1>10
    <2> HIDE DEF s1
    <2>2. MayDial(s0(i).ch[c])
      BY <1>4 DEF MayDial
    <2>3. QED BY <1>10, <1>11, <2>1, <2>2, DialOrderly
  <1> HIDE DEF s1
  <1>13. Orderly(System, Wait)'
    BY <1>1, <1>3, <1>12, CommitOrderly
  <1>14. QED BY <1>13, HostnameResolvedOK DEF BotInv

LEMMA HostnameResolveFailedBot ==
  ASSUME BotInv, NEW c \in Channels, HostnameResolveFailed(c) PROVE BotInv'
  <1> DEFINE x == chan[c]
             y(i) == [chan[c] EXCEPT !.queries = RemoveAt(@, i), !.ap = "NOT_SET"]
  <1>1. PICK i \in 1..Len(x.queries) : chan' = [chan EXCEPT ![c] = y(i)]
    BY DEF HostnameResolveFailed
  <1>2. parse.msgs = <<>> /\ parse' = parse /\ current' = current /\ owed' = owed
    BY DEF HostnameResolveFailed, LoopIdle
  <1>3. Wait[c] = <<>>
    BY <1>2, CalmState, CalmType
  <1>4. /\ x \in ChannelRecords /\ Session(x, c, <<>>)
        /\ c = "boot" => Single(x, <<>>) /\ (current \in 1..NOps => Quiet(x, <<>>))
        /\ c = "ops" => Covered(x, owed)
    BY <1>3, ChannelState
  <1>5. x.queries # <<>>
    BY <1>4 DEF ChannelRecords
  <1>6. Offline(x, c, <<>>) /\ ~x.leaked /\ x.ap = "IN_PROGRESS" /\ x.queries = <<x.id>>
    BY <1>4, <1>5 DEF Session, Connected, Offline
  <1>7. RemoveAt(x.queries, i) = <<>>
    BY <1>6 DEF RemoveAt
  <1>8. /\ y(i).queries = <<>> /\ y(i).ap = "NOT_SET" /\ y(i).sock = x.sock /\ y(i).leaked = x.leaked
        /\ y(i).state = x.state /\ y(i).out = x.out /\ y(i).inbuf = x.inbuf /\ y(i).pending = x.pending
    BY <1>4, <1>7 DEF ChannelRecords
  <1> HIDE DEF y
  <1>9. Way(y(i)) = Way(x) /\ In(y(i), <<>>) = In(x, <<>>)
    BY <1>8 DEF Way, In
  <1>10. Offline(y(i), c, <<>>)
    BY <1>6, <1>8, EmptySocket, OnlyEmpty DEF Offline, Unstarted
  <1>11. Session(y(i), c, <<>>)
    BY <1>6, <1>8, <1>10 DEF Session
  <1>12. c = "boot" => Single(y(i), <<>>) /\ current \notin 1..NOps
    BY <1>4, <1>6, <1>8, <1>9 DEF Single, Quiet
  <1>13. c = "ops" => Covered(y(i), owed)
    BY <1>4, <1>8, <1>9 DEF Covered
  <1>14. Orderly(System, Wait)'
    BY <1>1, <1>2, <1>3, <1>8, <1>11, <1>12, <1>13, ChannelStep
  <1>15. QED BY <1>14, HostnameResolveFailedOK DEF BotInv

(* Another value for what no connection depends on. *)
LEMMA PingDueBot ==
  ASSUME BotInv, NEW c \in Channels, PingDue(c) PROVE BotInv'
  <1> DEFINE x == chan[c]
             y == [x EXCEPT !.due = TRUE]
  <1>1. /\ chan' = [chan EXCEPT ![c] = y] /\ current' = current /\ owed' = owed /\ parse' = parse
    BY DEF PingDue
  <1>2. /\ x \in ChannelRecords /\ Session(x, c, Wait[c])
        /\ c = "boot" => Single(x, Wait[c]) /\ (current \in 1..NOps => Quiet(x, Wait[c]))
        /\ c = "ops" => Covered(x, owed) /\ (current \notin 1..NOps => x.ap \in {"NOT_SET", "RESOLVED"})
    BY ChannelState
  <1>3. /\ y.ap = x.ap /\ y.id = x.id /\ y.addr = x.addr /\ y.queries = x.queries /\ y.sock = x.sock
        /\ y.leaked = x.leaked /\ y.state = x.state /\ y.sync = x.sync /\ y.out = x.out
        /\ y.inbuf = x.inbuf /\ y.pending = x.pending
    BY <1>2 DEF ChannelRecords
  <1> HIDE DEF y
  <1>4. Way(y) = Way(x) /\ In(y, Wait[c]) = In(x, Wait[c])
    BY <1>3 DEF Way, In
  <1>5. Session(y, c, Wait[c])
    BY <1>2, <1>3, SameSession
  <1>6. c = "boot" => Single(y, Wait[c]) /\ (current \in 1..NOps => Quiet(y, Wait[c]))
    BY <1>2, <1>3, <1>4 DEF Single, Quiet
  <1>7. c = "ops" => Covered(y, owed) /\ (current \notin 1..NOps => y.ap \in {"NOT_SET", "RESOLVED"})
    BY <1>2, <1>3, <1>4 DEF Covered
  <1>8. Orderly(System, Wait)'
    BY <1>1, <1>5, <1>6, <1>7, ChannelStep
  <1>9. QED BY <1>8, PingDueOK DEF BotInv
-----------------------------------------------------------------------------
(* Kernel and servers. *)

(* Only the connection has changed. *)
Continued(x, y) ==
  /\ y.ap = x.ap /\ y.id = x.id /\ y.addr = x.addr /\ y.queries = x.queries /\ y.leaked = x.leaked
  /\ y.state = x.state /\ y.sync = x.sync /\ y.pending = x.pending /\ y.out = x.out
  /\ y.inbuf = x.inbuf /\ y.sock.st # "none" /\ y.sock.peer = x.sock.peer

LEMMA SockContinued ==
  ASSUME NEW x \in ChannelRecords, NEW sock, sock.st # "none", sock.peer = x.sock.peer
  PROVE  LET y == [x EXCEPT !.sock = sock]
         IN  Continued(x, y) /\ y.sock = sock
  BY DEF ChannelRecords, Continued

LEMMA OpenSession ==
  ASSUME NEW x, NEW c, NEW w, Session(x, c, w), x.sock.st # "none"
  PROVE  /\ ~x.leaked
         /\ \/ Connected(x, c, w) /\ x.ap = "CONNECTED"
            \/ /\ Offline(x, c, w) /\ x.ap = "CONNECTING" /\ ~x.sock.session /\ x.sock.c2s = <<>>
  BY EmptySocket DEF Session, Offline, Connected

(* The kernel completes, refuses or loses a connection. *)
LEMMA RestateStage ==
  ASSUME NEW x, NEW y, NEW c, NEW w, Session(x, c, w), x.sock.st # "none", Continued(x, y),
         y.sock.session = x.sock.session, y.sock.c2s = x.sock.c2s, y.sock.s2c = x.sock.s2c
  PROVE  /\ Session(y, c, w)
         /\ Single(x, w) => Single(y, w)
         /\ Quiet(x, w) => Quiet(y, w)
         /\ \A owing : Covered(x, owing) => Covered(y, owing)
  <1>1. Way(y) = Way(x) /\ In(y, w) = In(x, w) /\ FdOpen(y)
    BY DEF Way, In, Continued, FdOpen
  <1>2. Offline(x, c, w) /\ x.ap = "CONNECTING" => Offline(y, c, w)
    BY <1>1 DEF Offline, Unstarted, Continued
  <1>3. Connected(x, c, w) => Connected(y, c, w)
    BY <1>1 DEF Connected, Stage, Asking, Accepted, Refused, Opened, Continued
  <1>4. Session(y, c, w)
    BY <1>2, <1>3, OpenSession DEF Session, Continued
  <1>5. QED BY <1>1, <1>4 DEF Single, Quiet, Covered, Continued

(* Another message from the server: garbage, or one of a session. *)
LEMMA InAppend ==
  ASSUME NEW x \in ChannelRecords, NEW y, NEW w \in Seq(ServerMsgs), NEW m \in ServerMsgs,
         y.sock.s2c = Append(x.sock.s2c, m)
  PROVE  In(y, w) = Append(In(x, w), m) /\ In(x, w) \in Seq(ServerMsgs) /\ x.sock.s2c \in Seq(ServerMsgs)
  <1>1. x.sock.s2c \in Seq(ServerMsgs) /\ In(x, w) \in Seq(ServerMsgs)
    BY Fields
  <1>2. w \o Append(x.sock.s2c, m) = Append(w \o x.sock.s2c, m)
    BY <1>1
  <1>3. QED BY <1>1, <1>2 DEF In

LEMMA AppendStage ==
  ASSUME NEW x \in ChannelRecords, NEW y, NEW c, NEW w \in Seq(ServerMsgs), NEW m \in ServerMsgs,
         Session(x, c, w), x.sock.st # "none", Continued(x, y),
         y.sock.session = x.sock.session, y.sock.c2s = x.sock.c2s,
         y.sock.s2c = Append(x.sock.s2c, m), m = "GARBAGE" \/ (m = "KAASYNC" /\ x.sock.session)
  PROVE  /\ Session(y, c, w)
         /\ m = "GARBAGE" /\ Single(x, w) => Single(y, w)
         /\ m = "GARBAGE" /\ Quiet(x, w) => Quiet(y, w)
         /\ \A owing : Covered(x, owing) => Covered(y, owing)
  <1> DEFINE q == In(x, w)
  <1>1. In(y, w) = Append(q, m) /\ q \in Seq(ServerMsgs) /\ x.sock.s2c \in Seq(ServerMsgs)
    BY InAppend
  <1>2. Way(y) = Way(x) /\ FdOpen(y)
    BY DEF Way, Continued, FdOpen
  <1>3. m \in Contents
    BY DEF Contents
  <1>4. ASSUME NEW p \in Seq(ServerMsgs), NEW T, m \in T, Only(p, T) PROVE Only(Append(p, m), T)
    BY <1>4, OnlyAppend
  <1> HIDE DEF q
  <1>5. ASSUME Offline(x, c, w), x.ap = "CONNECTING", ~x.sock.session PROVE Session(y, c, w)
    <2>1. Only(y.sock.s2c, {"GARBAGE"})
      BY <1>1, <1>4, <1>5 DEF Offline
    <2>2. Offline(y, c, w)
      BY <1>2, <1>5, <2>1 DEF Offline, Unstarted, Continued
    <2>3. QED BY <2>2, OpenSession DEF Session, Continued
  <1>6. ASSUME Connected(x, c, w) PROVE Session(y, c, w)
    <2>1. ASSUME Asking(x, c, q) PROVE Stage(y, c, In(y, w))
      <3>1. Only(Append(q, m), {"GARBAGE"})
        BY <1>1, <1>4, <2>1 DEF Asking
      <3>2. Asking(y, c, In(y, w))
        BY <1>1, <1>2, <2>1, <3>1 DEF Asking, Continued
      <3>3. QED BY <3>2 DEF Stage
    <2>2. ASSUME Accepted(x, q) PROVE Stage(y, c, In(y, w))
      <3>1. PICK k \in 1..Len(q) : AcknowledgedAt(q, k)
        BY <2>2 DEF Accepted
      <3>2. k \in 1..Len(Append(q, m)) /\ AcknowledgedAt(Append(q, m), k)
        BY <1>1, <1>3, <3>1, AcknowledgedAppend
      <3>3. Accepted(y, In(y, w))
        BY <1>1, <1>2, <2>2, <3>2 DEF Accepted, Continued
      <3>4. QED BY <3>3 DEF Stage
    <2>3. ASSUME Refused(x, q) PROVE Stage(y, c, In(y, w))
      <3>1. Only(Append(q, m), Endings)
        BY <1>1, <1>4, <2>3 DEF Refused, Endings
      <3>2. Refused(y, In(y, w))
        BY <1>1, <1>2, <2>3, <3>1 DEF Refused, Continued
      <3>3. QED BY <3>2 DEF Stage
    <2>4. ASSUME Opened(x, q) PROVE Stage(y, c, In(y, w))
      <3>1. Only(Append(q, m), Contents)
        BY <1>1, <1>3, <1>4, <2>4 DEF Opened
      <3>2. Opened(y, In(y, w))
        BY <1>1, <1>2, <2>4, <3>1 DEF Opened, Continued
      <3>3. QED BY <3>2 DEF Stage
    <2>5. Stage(y, c, In(y, w))
      BY <1>6, <2>1, <2>2, <2>3, <2>4 DEF Connected, Stage, q
    <2>6. Connected(y, c, w) /\ ~y.leaked
      BY <1>2, <1>6, <2>5, OpenSession DEF Connected, Continued
    <2>7. QED BY <2>6 DEF Session
  <1>7. Session(y, c, w)
    BY <1>5, <1>6, OpenSession
  <1>8. ASSUME m = "GARBAGE"
        PROVE  (NoName(q) => NoName(In(y, w))) /\ (OneName(q) => OneName(In(y, w)))
    BY <1>1, <1>8, NoNameAppend DEF Names
  <1>9. m = "GARBAGE" /\ Single(x, w) => Single(y, w)
    BY <1>2, <1>8 DEF Single, Continued, q
  <1>10. m = "GARBAGE" /\ Quiet(x, w) => Quiet(y, w)
    BY <1>2, <1>8 DEF Quiet, Continued, q
  <1>11. \A owing : Covered(x, owing) => Covered(y, owing)
    BY <1>2 DEF Covered, Continued
  <1>12. QED BY <1>7, <1>9, <1>10, <1>11

(* A server takes a message off the way. *)
LEMMA ServedWay ==
  ASSUME NEW x \in ChannelRecords, NEW y, x.sock.c2s # <<>>, y.out = x.out,
         y.sock.c2s = Tail(x.sock.c2s)
  PROVE  /\ Way(x) \in Seq(ClientMsgs) /\ Way(x) # <<>> /\ Head(Way(x)) = Head(x.sock.c2s)
         /\ Way(y) = Tail(Way(x)) /\ Head(x.sock.c2s) \in ClientMsgs
  <1>1. x.sock.c2s \in Seq(ClientMsgs) /\ x.out \in Seq(ClientMsgs)
    BY Fields, EmptySeqType
  <1> DEFINE p == x.sock.c2s
             o == x.out
  <1>a. p \in Seq(ClientMsgs) /\ o \in Seq(ClientMsgs) /\ p # <<>>
    BY <1>1
  <1> HIDE DEF p, o
  <1>b. /\ p \o o \in Seq(ClientMsgs) /\ p \o o # <<>>
        /\ Tail(p) \o o = Tail(p \o o) /\ (p \o o)[1] = Head(p)
    BY <1>a, ConcatTail
  <1>2. /\ Way(x) \in Seq(ClientMsgs) /\ Way(x) # <<>>
        /\ Tail(x.sock.c2s) \o x.out = Tail(Way(x)) /\ Way(x)[1] = Head(x.sock.c2s)
    BY <1>b DEF Way, p, o
  <1>3. Head(Way(x)) = Way(x)[1]
    BY <1>2, TailElements
  <1>4. Head(x.sock.c2s) \in ClientMsgs
    BY <1>1
  <1>5. QED BY <1>2, <1>3, <1>4 DEF Way

LEMMA SingletonTail ==
  ASSUME NEW m \in ClientMsgs
  PROVE  Tail(<<m>>) = <<>>
  OBVIOUS

LEMMA LoginServed ==
  ASSUME NEW x \in ChannelRecords, NEW c \in Channels, NEW w \in Seq(ServerMsgs), NEW y,
         Session(x, c, w), x.sock.st # "none", x.sock.c2s # <<>>,
         Head(x.sock.c2s).type = "CONNECT", y.out = x.out, y.sock.c2s = Tail(x.sock.c2s)
  PROVE  /\ Connected(x, c, w) /\ ~x.leaked /\ Asking(x, c, In(x, w))
         /\ Way(y) = <<>> /\ Head(x.sock.c2s) = Login(c)
  <1>1. /\ Way(x) # <<>> /\ Head(Way(x)) = Head(x.sock.c2s) /\ Way(y) = Tail(Way(x))
        /\ Way(x) \in Seq(ClientMsgs)
    BY ServedWay
  <1>2. Connected(x, c, w) /\ ~x.leaked
    BY OpenSession
  <1>3. ~Opened(x, In(x, w))
    BY <1>1, NoAskTail DEF Opened
  <1>4. Asking(x, c, In(x, w))
    BY <1>1, <1>2, <1>3 DEF Connected, Stage, Accepted, Refused
  <1>5. Way(x) = <<Login(c)>> /\ Login(c) \in ClientMsgs
    BY <1>4, LoginType DEF Asking
  <1>6. Tail(Way(x)) = <<>> /\ Head(Way(x)) = Login(c)
    BY <1>5, SingletonTail
  <1>7. QED BY <1>1, <1>2, <1>4, <1>6

(* The two messages that answer an accepted CONNECT. *)
LEMMA AppendTwo ==
  ASSUME NEW p \in Seq(ServerMsgs), NEW q \in Seq(ServerMsgs), NEW m \in ServerMsgs,
         NEW n \in ServerMsgs
  PROVE  p \o (q \o <<m, n>>) = Append(Append(p \o q, m), n)
  <1>1. p \o q \in Seq(ServerMsgs) /\ <<m, n>> \in Seq(ServerMsgs)
    OBVIOUS
  <1>2. p \o (q \o <<m, n>>) = (p \o q) \o <<m, n>>
    BY <1>1, ConcatConcat
  <1> DEFINE r == p \o q
  <1>3. r \in Seq(ServerMsgs)
    BY <1>1
  <1> HIDE DEF r
  <1>4. r \o <<m, n>> = Append(Append(r, m), n)
    <2>1. Append(r, m) \in Seq(ServerMsgs)
      BY <1>3
    <2>2. QED BY <1>3
  <1>5. QED BY <1>2, <1>4 DEF r

(* The CONNECT is accepted. *)
LEMMA AcceptedStage ==
  ASSUME NEW x \in ChannelRecords, NEW y, NEW c \in Channels, NEW w \in Seq(ServerMsgs),
         Session(x, c, w), x.sock.st # "none", x.sock.c2s # <<>>,
         Head(x.sock.c2s).type = "CONNECT", Continued(x, y), y.sock.c2s = Tail(x.sock.c2s),
         NEW r \in Names, y.sock.session, y.sock.s2c = x.sock.s2c \o <<"CONNACK", r>>
  PROVE  /\ Session(y, c, w) /\ Way(y) = <<>> /\ x.state = "AUTHORIZING"
         /\ Single(x, w) => Single(y, w)
  <1> DEFINE q  == In(x, w)
             q1 == Append(q, "CONNACK")
             q2 == Append(q1, r)
  <1>0. r \in ServerMsgs /\ "CONNACK" \in ServerMsgs /\ r \in Contents /\ "CONNACK" \notin Names
    BY DEF Names, ServerMsgs, Contents
  <1>1. /\ Connected(x, c, w) /\ ~x.leaked /\ Asking(x, c, q) /\ Way(y) = <<>>
    BY LoginServed DEF Continued
  <1>2. x.sock.s2c \in Seq(ServerMsgs) /\ q \in Seq(ServerMsgs)
    BY Fields
  <1>3. q1 \in Seq(ServerMsgs) /\ q2 \in Seq(ServerMsgs)
    BY <1>0, <1>2
  <1>4. In(y, w) = q2
    <2> DEFINE p == x.sock.s2c
    <2>1. p \in Seq(ServerMsgs)
      BY <1>2
    <2>2. In(y, w) = w \o (p \o <<"CONNACK", r>>) /\ q = w \o p
      BY DEF In
    <2> HIDE DEF p
    <2>3. w \o (p \o <<"CONNACK", r>>) = Append(Append(w \o p, "CONNACK"), r)
      BY <1>0, <2>1, AppendTwo
    <2> HIDE DEF q
    <2>4. QED BY <2>2, <2>3
  <1>5. Only(q, {"GARBAGE"}) /\ x.state = "AUTHORIZING"
    BY <1>1 DEF Asking
  <1> HIDE DEF q
  <1>6. Len(q) + 1 \in 1..Len(q1) /\ AcknowledgedAt(q1, Len(q) + 1)
    BY <1>2, <1>5, AcknowledgedLast
  <1> HIDE DEF q1
  <1>7. Len(q) + 1 \in 1..Len(q2) /\ AcknowledgedAt(q2, Len(q) + 1)
    BY <1>0, <1>3, <1>6, AcknowledgedAppend
  <1>8. Accepted(y, In(y, w))
    BY <1>1, <1>4, <1>5, <1>7 DEF Accepted, Continued
  <1>9. Session(y, c, w)
    BY <1>1, <1>8 DEF Session, Connected, Stage, FdOpen, Continued
  <1>10. OneName(q2)
    <2>1. NoName(q)
      BY <1>5 DEF Only, NoName, Names
    <2>2. NoName(q1)
      BY <1>0, <1>2, <2>1, NoNameAppend DEF q1
    <2>3. QED BY <1>0, <1>3, <2>2, NoNameAppend
  <1>11. Single(x, w) => Single(y, w)
    BY <1>1, <1>4, <1>5, <1>10, EmptyQueues DEF Single, Continued
  <1>12. QED BY <1>1, <1>5, <1>9, <1>11

(* The CONNECT is refused. *)
LEMMA RefusedStage ==
  ASSUME NEW x \in ChannelRecords, NEW y, NEW c \in Channels, NEW w \in Seq(ServerMsgs),
         Session(x, c, w), x.sock.st # "none", x.sock.c2s # <<>>,
         Head(x.sock.c2s).type = "CONNECT", Continued(x, y), y.sock.c2s = Tail(x.sock.c2s),
         ~y.sock.session, y.sock.s2c = Append(x.sock.s2c, "REFUSED")
  PROVE  /\ Session(y, c, w) /\ x.state = "AUTHORIZING"
         /\ Single(x, w) => Single(y, w)
  <1> DEFINE q == In(x, w)
  <1>0. "REFUSED" \in ServerMsgs /\ "REFUSED" \in Endings /\ {"GARBAGE"} \subseteq Endings
    BY DEF ServerMsgs, Endings
  <1>1. /\ Connected(x, c, w) /\ ~x.leaked /\ Asking(x, c, q) /\ Way(y) = <<>>
    BY LoginServed DEF Continued
  <1>2. In(y, w) = Append(q, "REFUSED") /\ q \in Seq(ServerMsgs)
    BY <1>0, InAppend
  <1>3. Only(q, {"GARBAGE"}) /\ x.state = "AUTHORIZING"
    BY <1>1 DEF Asking
  <1> HIDE DEF q
  <1>4. Only(In(y, w), Endings)
    <2>1. Only(q, Endings)
      BY <1>0, <1>3, OnlyMore
    <2>2. QED BY <1>0, <1>2, <2>1, OnlyAppend
  <1>5. Refused(y, In(y, w))
    BY <1>1, <1>3, <1>4 DEF Refused, Continued
  <1>6. Session(y, c, w)
    BY <1>1, <1>5 DEF Session, Connected, Stage, FdOpen, Continued
  <1>7. NoName(In(y, w)) /\ OneName(In(y, w))
    BY <1>4, OnlyEndings
  <1>8. Single(x, w) => Single(y, w)
    BY <1>1, <1>3, <1>7, EmptyQueues DEF Single, Continued
  <1>9. QED BY <1>3, <1>6, <1>8

(* A message that is no CONNECT is served on an open session only. *)
LEMMA OpenedServed ==
  ASSUME NEW x \in ChannelRecords, NEW c \in Channels, NEW w \in Seq(ServerMsgs), NEW y,
         Session(x, c, w), x.sock.st # "none", x.sock.c2s # <<>>,
         Head(x.sock.c2s).type # "CONNECT", y.out = x.out, y.sock.c2s = Tail(x.sock.c2s)
  PROVE  /\ Connected(x, c, w) /\ ~x.leaked /\ Opened(x, In(x, w)) /\ NoLogin(Way(y))
         /\ OneAsk(Way(x)) => OneAsk(Way(y))
         /\ NoAsk(Way(x)) => NoAsk(Way(y)) /\ Head(x.sock.c2s).type \notin Asks
         /\ OneAsk(Way(x)) /\ Head(x.sock.c2s).type \in Asks => NoAsk(Way(y))
  <1>1. /\ Way(x) # <<>> /\ Head(Way(x)) = Head(x.sock.c2s) /\ Way(y) = Tail(Way(x))
        /\ Way(x) \in Seq(ClientMsgs)
    BY ServedWay
  <1>2. Connected(x, c, w) /\ ~x.leaked
    BY OpenSession
  <1>3. ~Asking(x, c, In(x, w))
    <2>1. Way(x) = <<Login(c)>> => Head(Way(x)) = Login(c)
      BY SingletonTail
    <2>2. Login(c).type = "CONNECT"
      BY DEF Login, Msg
    <2>3. QED BY <1>1, <2>1, <2>2 DEF Asking
  <1>4. Opened(x, In(x, w))
    BY <1>1, <1>2, <1>3 DEF Connected, Stage, Accepted, Refused
  <1>5. NoLogin(Way(x))
    BY <1>4 DEF Opened
  <1>6. QED BY <1>1, <1>2, <1>4, <1>5, NoAskTail

(* The client says good-bye. *)
LEMMA FarewellStage ==
  ASSUME NEW x \in ChannelRecords, NEW y, NEW c \in Channels, NEW w \in Seq(ServerMsgs),
         Session(x, c, w), x.sock.st # "none", x.sock.c2s # <<>>,
         Head(x.sock.c2s).type # "CONNECT", Continued(x, y), y.sock.c2s = Tail(x.sock.c2s),
         y.sock.session = x.sock.session, y.sock.s2c = x.sock.s2c
  PROVE  /\ Session(y, c, w)
         /\ Single(x, w) => Single(y, w)
         /\ Quiet(x, w) => Quiet(y, w)
  <1>1. /\ Connected(x, c, w) /\ ~x.leaked /\ Opened(x, In(x, w)) /\ NoLogin(Way(y))
        /\ OneAsk(Way(x)) => OneAsk(Way(y))
        /\ NoAsk(Way(x)) => NoAsk(Way(y))
    BY OpenedServed DEF Continued
  <1>2. In(y, w) = In(x, w)
    BY DEF In
  <1>3. Opened(y, In(y, w))
    BY <1>1, <1>2 DEF Opened, Continued
  <1>4. Session(y, c, w)
    BY <1>1, <1>3 DEF Session, Connected, Stage, FdOpen, Continued
  <1>5. QED BY <1>1, <1>2, <1>4 DEF Single, Quiet, Continued

(* The server answers a sync with a sync, a ping with a pong. *)
LEMMA AnsweredStage ==
  ASSUME NEW x \in ChannelRecords, NEW y, NEW c \in Channels, NEW w \in Seq(ServerMsgs),
         Session(x, c, w), x.sock.st # "none", x.sock.c2s # <<>>,
         Head(x.sock.c2s).type # "CONNECT", Continued(x, y), y.sock.c2s = Tail(x.sock.c2s),
         y.sock.session, NEW r \in ServerMsgs, y.sock.s2c = Append(x.sock.s2c, r),
         r = "PINGRESP" \/ (r = "KAASYNC" /\ Head(x.sock.c2s).type = "KAASYNC")
  PROVE  /\ Session(y, c, w)
         /\ Single(x, w) => Single(y, w)
         /\ Quiet(x, w) => Quiet(y, w)
  <1> DEFINE q == In(x, w)
  <1>1. /\ Connected(x, c, w) /\ ~x.leaked /\ Opened(x, q) /\ NoLogin(Way(y))
        /\ OneAsk(Way(x)) => OneAsk(Way(y))
        /\ NoAsk(Way(x)) => NoAsk(Way(y)) /\ Head(x.sock.c2s).type \notin Asks
        /\ OneAsk(Way(x)) /\ Head(x.sock.c2s).type \in Asks => NoAsk(Way(y))
    BY OpenedServed DEF Continued
  <1>2. In(y, w) = Append(q, r) /\ q \in Seq(ServerMsgs)
    BY InAppend
  <1>3. r \in Contents /\ (r \in Names => Head(x.sock.c2s).type \in Asks)
    BY DEF Contents, Names, Asks
  <1> HIDE DEF q
  <1>4. Only(In(y, w), Contents)
    BY <1>1, <1>2, <1>3, OnlyAppend DEF Opened
  <1>5. Opened(y, In(y, w))
    BY <1>1, <1>4 DEF Opened, Continued
  <1>6. Session(y, c, w)
    BY <1>1, <1>5 DEF Session, Connected, Stage, FdOpen, Continued
  <1>7. /\ NoName(q) /\ r \notin Names => NoName(In(y, w))
        /\ OneName(q) /\ r \notin Names => OneName(In(y, w))
        /\ NoName(q) => OneName(In(y, w))
    BY <1>2, NoNameAppend
  <1>8. Single(x, w) => Single(y, w)
    <2>1. CASE r \in Names
      BY <1>1, <1>3, <1>7, <2>1 DEF Single, Continued, q
    <2>2. CASE r \notin Names
      BY <1>1, <1>7, <2>2 DEF Single, Continued, q
    <2>3. QED BY <2>1, <2>2
  <1>9. Quiet(x, w) => Quiet(y, w)
    BY <1>1, <1>3, <1>7 DEF Quiet, Continued, q
  <1>10. QED BY <1>6, <1>8, <1>9

(* What a server has not received yet is on its way in a later message. *)
LEMMA CoveredServed ==
  ASSUME NEW x \in ChannelRecords, NEW y, NEW owing, x.sock.c2s # <<>>, y.out = x.out,
         y.sock.c2s = Tail(x.sock.c2s), y.pending = x.pending,
         \/ Covered(x, owing) /\ x.sock.session
         \/ owing \subseteq Head(x.sock.c2s).svcs
  PROVE  Covered(y, owing \ Delivered(x))
  <1>1. /\ Way(x) # <<>> /\ Head(Way(x)) = Head(x.sock.c2s) /\ Way(y) = Tail(Way(x))
        /\ Way(x) \in Seq(ClientMsgs)
    BY ServedWay
  <1>2. Way(y) = Tail(x.sock.c2s) \o x.out
    BY DEF Way
  <1>3. ASSUME NEW s \in owing, s \notin Delivered(x), s \in Head(x.sock.c2s).svcs
        PROVE  s \in y.pending \/ \E i \in 1..Len(Way(y)) : s \in Way(y)[i].svcs
    BY <1>2, <1>3 DEF Delivered
  <1>4. ASSUME NEW s \in owing, s \notin Head(x.sock.c2s).svcs, Covered(x, owing), x.sock.session
        PROVE  s \in y.pending \/ \E i \in 1..Len(Way(y)) : s \in Way(y)[i].svcs
    <2>1. CASE s \in x.pending
      BY <2>1
    <2>2. CASE s \notin x.pending
      <3>1. PICK i \in 1..Len(Way(x)) : s \in Way(x)[i].svcs
        BY <1>4, <2>2 DEF Covered
      <3> DEFINE p == Way(x)
      <3>2. /\ Len(Tail(p)) = Len(p) - 1 /\ Len(p) \in Nat \ {0} /\ Head(p) = p[1]
            /\ \A j \in 1..Len(Tail(p)) : Tail(p)[j] = p[j + 1]
        BY <1>1, TailElements
      <3>3. s \notin p[1].svcs /\ i \in 1..Len(p) /\ s \in p[i].svcs /\ Way(y) = Tail(p)
        BY <1>1, <1>4, <3>1, <3>2
      <3> HIDE DEF p
      <3>4. i - 1 \in 1..Len(Tail(p)) /\ (i - 1) + 1 = i
        BY <3>2, <3>3
      <3>5. s \in Tail(p)[i - 1].svcs
        BY <3>2, <3>3, <3>4
      <3>6. QED BY <3>3, <3>4, <3>5
    <2>3. QED BY <2>1, <2>2
  <1>5. QED BY <1>3, <1>4 DEF Covered

LEMMA PeerBot ==
  ASSUME BotInv, NEW c \in Channels, NEW sock, chan[c].sock.st # "none", Peer(c, sock),
         sock.st # "none", sock.peer = chan[c].sock.peer, current' = current, parse' = parse,
         NEW y, y = [chan[c] EXCEPT !.sock = sock], Session(y, c, Wait[c]),
         c = "boot" => /\ owed' = owed
                       /\ Single(chan[c], Wait[c]) => Single(y, Wait[c])
                       /\ Quiet(chan[c], Wait[c]) => Quiet(y, Wait[c]),
         c = "ops" => Covered(y, owed')
  PROVE  Orderly(System, Wait)'
  <1>1. chan' = [chan EXCEPT ![c] = y]
    BY DEF Peer
  <1>2. /\ chan[c] \in ChannelRecords
        /\ c = "boot" => /\ Single(chan[c], Wait[c])
                         /\ current \in 1..NOps => Quiet(chan[c], Wait[c])
        /\ c = "ops" => (current \notin 1..NOps => chan[c].ap \in {"NOT_SET", "RESOLVED"})
    BY ChannelState
  <1>3. y.ap = chan[c].ap
    BY <1>2, SockContinued DEF Continued
  <1>4. QED BY <1>1, <1>2, <1>3, ChannelStep

LEMMA AcceptBot == ASSUME BotInv, NEW c \in Channels, Accept(c) PROVE BotInv'
  <1> DEFINE x == chan[c]
             sock == [x.sock EXCEPT !.st = "up"]
             y == [x EXCEPT !.sock = sock]
  <1>1. x \in ChannelRecords /\ Session(x, c, Wait[c]) /\ (c = "ops" => Covered(x, owed))
    BY ChannelState
  <1>2. x.sock.st # "none" /\ Peer(c, sock) /\ current' = current /\ parse' = parse /\ owed' = owed
    BY DEF Accept
  <1>3. /\ sock.st # "none" /\ sock.peer = x.sock.peer /\ sock.session = x.sock.session
        /\ sock.c2s = x.sock.c2s /\ sock.s2c = x.sock.s2c
    BY <1>1 DEF ChannelRecords, Sockets
  <1> HIDE DEF sock
  <1>4. Continued(x, y) /\ y.sock = sock
    BY <1>1, <1>3, SockContinued
  <1> HIDE DEF y
  <1>5. /\ Session(y, c, Wait[c])
        /\ Single(x, Wait[c]) => Single(y, Wait[c])
        /\ Quiet(x, Wait[c]) => Quiet(y, Wait[c])
        /\ \A owing : Covered(x, owing) => Covered(y, owing)
    BY <1>1, <1>2, <1>3, <1>4, RestateStage
  <1>6. Orderly(System, Wait)'
    BY <1>1, <1>2, <1>3, <1>5, PeerBot DEF y
  <1>7. QED BY <1>6, AcceptOK DEF BotInv

LEMMA PushBot == ASSUME BotInv, Push PROVE BotInv'
  <1> DEFINE c == "ops"
             x == chan[c]
             sock == [x.sock EXCEPT !.s2c = Append(@, "KAASYNC")]
             y == [x EXCEPT !.sock = sock]
  <1>0. c \in Channels /\ c # "boot" /\ "KAASYNC" \in ServerMsgs
    BY DEF Channels, ServerMsgs
  <1>1. /\ x \in ChannelRecords /\ Session(x, c, Wait[c]) /\ Covered(x, owed)
        /\ Wait[c] \in Seq(ServerMsgs)
    BY <1>0, ChannelState
  <1>2. /\ x.sock.st # "none" /\ x.sock.session /\ Peer(c, sock)
        /\ current' = current /\ parse' = parse /\ owed' = owed
    BY DEF Push
  <1>3. /\ sock.st # "none" /\ sock.peer = x.sock.peer /\ sock.session = x.sock.session
        /\ sock.c2s = x.sock.c2s /\ sock.s2c = Append(x.sock.s2c, "KAASYNC")
    BY <1>1, <1>2 DEF ChannelRecords, Sockets
  <1> HIDE DEF sock, c
  <1>4. Continued(x, y) /\ y.sock = sock
    BY <1>1, <1>3, SockContinued
  <1> HIDE DEF y
  <1>5. /\ Session(y, c, Wait[c])
        /\ \A owing : Covered(x, owing) => Covered(y, owing)
    BY <1>0, <1>1, <1>2, <1>3, <1>4, AppendStage
  <1>6. Orderly(System, Wait)'
    BY <1>0, <1>1, <1>2, <1>3, <1>5, PeerBot DEF y
  <1>7. QED BY <1>6, PushOK DEF BotInv

(* What a server may say or do out of turn, short of closing with a message. *)
LEMMA PeerFaultBot ==
  ASSUME BotInv, "disconnect" \notin FaultKinds, NEW c \in Channels, PeerFault(c)
  PROVE  BotInv'
  <1> DEFINE x == chan[c]
             said == Append(x.sock.s2c, "GARBAGE")
  <1>0. "GARBAGE" \in ServerMsgs
    BY DEF ServerMsgs
  <1>1. /\ x \in ChannelRecords /\ Session(x, c, Wait[c]) /\ (c = "ops" => Covered(x, owed))
        /\ Wait[c] \in Seq(ServerMsgs)
    BY ChannelState
  <1>2. PICK sock \in {[x.sock EXCEPT !.st = "refused"], [x.sock EXCEPT !.st = "closed"],
                       [x.sock EXCEPT !.s2c = said]} :
          Peer(c, sock) /\ x.sock.st \in {"syn", "up"}
    BY DEF PeerFault
  <1>3. current' = current /\ parse' = parse /\ owed' = owed
    BY DEF PeerFault
  <1> HIDE DEF said
  <1>4. /\ sock.st # "none" /\ sock.peer = x.sock.peer /\ sock.session = x.sock.session
        /\ sock.c2s = x.sock.c2s /\ (sock.s2c = x.sock.s2c \/ sock.s2c = said)
    BY <1>1, <1>2 DEF ChannelRecords, Sockets
  <1> DEFINE y == [x EXCEPT !.sock = sock]
  <1>5. Continued(x, y) /\ y.sock = sock
    BY <1>1, <1>4, SockContinued
  <1> HIDE DEF y
  <1>6. /\ Session(y, c, Wait[c])
        /\ Single(x, Wait[c]) => Single(y, Wait[c])
        /\ Quiet(x, Wait[c]) => Quiet(y, Wait[c])
        /\ \A owing : Covered(x, owing) => Covered(y, owing)
    <2>1. CASE sock.s2c = x.sock.s2c
      BY <1>1, <1>2, <1>4, <1>5, <2>1, RestateStage
    <2>2. CASE sock.s2c = said
      BY <1>0, <1>1, <1>2, <1>4, <1>5, <2>2, AppendStage DEF said
    <2>3. QED BY <1>4, <2>1, <2>2
  <1>7. Orderly(System, Wait)'
    BY <1>1, <1>2, <1>3, <1>4, <1>6, PeerBot DEF y
  <1>8. QED BY <1>7, PeerFaultOK DEF BotInv

LEMMA AnswerFields ==
  ASSUME NEW sock \in Sockets, sock.st = "up", NEW m, NEW reply
  PROVE  LET a == Answer(sock, m, reply)
         IN  /\ a.st # "none" /\ a.peer = sock.peer /\ a.c2s = Tail(sock.c2s)
             /\ m.type = "DISCONNECT" => a.session = sock.session /\ a.s2c = sock.s2c
             /\ m.type # "DISCONNECT" =>
                  /\ a.session = (reply # <<>> /\ reply # <<"REFUSED">>)
                  /\ a.s2c = sock.s2c \o reply
  <1> DEFINE rest == [sock EXCEPT !.c2s = Tail(@)]
             b == reply # <<>> /\ reply # <<"REFUSED">>
             t == Tail(sock.c2s)
  <1>1. /\ rest.st = "up" /\ rest.peer = sock.peer /\ rest.c2s = t
        /\ rest.session = sock.session /\ rest.s2c = sock.s2c
        /\ DOMAIN rest = {"st", "peer", "session", "c2s", "s2c"}
    BY DEF Sockets
  <1>2. Answer(sock, m, reply) = IF m.type = "DISCONNECT" THEN [rest EXCEPT !.st = "closed"]
                                 ELSE [rest EXCEPT !.session = b, !.s2c = rest.s2c \o reply]
    BY DEF Answer
  <1> HIDE DEF rest, b
  <1>3. CASE m.type = "DISCONNECT"
    BY <1>1, <1>2, <1>3
  <1>4. CASE m.type # "DISCONNECT"
    BY <1>1, <1>2, <1>4 DEF b
  <1>5. QED BY <1>3, <1>4

LEMMA AppendOne ==
  ASSUME NEW q \in Seq(ServerMsgs), NEW m \in ServerMsgs
  PROVE  q \o <<m>> = Append(q, m)
  OBVIOUS

LEMMA Replies ==
  /\ <<"CONNACK", "KAASYNC">> # <<>> /\ <<"CONNACK", "KAASYNC">> # <<"REFUSED">>
  /\ <<"CONNACK", "EMPTY">> # <<>> /\ <<"CONNACK", "EMPTY">> # <<"REFUSED">>
  /\ <<"KAASYNC">> # <<>> /\ <<"KAASYNC">> # <<"REFUSED">>
  /\ <<"PINGRESP">> # <<>> /\ <<"PINGRESP">> # <<"REFUSED">>
  OBVIOUS

LEMMA ServeBot == ASSUME BotInv, NEW c \in Channels, Serve(c) PROVE BotInv'
  <1> DEFINE x == chan[c]
             m == Head(x.sock.c2s)
             reply == CASE m.type = "CONNECT" -> <<"CONNACK", "KAASYNC">>
                        [] x.sock.session /\ m.type = "KAASYNC" -> <<"KAASYNC">>
                        [] x.sock.session /\ m.type = "PING" -> <<"PINGRESP">>
                        [] OTHER -> <<>>
             sock == Answer(x.sock, m, reply)
             y == [x EXCEPT !.sock = sock]
  <1>0. /\ "KAASYNC" \in ServerMsgs /\ "PINGRESP" \in ServerMsgs /\ "CONNACK" \in ServerMsgs
        /\ "KAASYNC" \in Names
    BY DEF ServerMsgs, Names
  <1>1. /\ x \in ChannelRecords /\ Session(x, c, Wait[c]) /\ (c = "ops" => Covered(x, owed))
        /\ Wait[c] \in Seq(ServerMsgs)
    BY ChannelState
  <1>2. /\ x.sock.st = "up" /\ x.sock.c2s # <<>> /\ Peer(c, sock)
        /\ current' = current /\ parse' = parse
        /\ owed' = IF c = "ops" /\ (x.sock.session \/ m.type = "CONNECT")
                   THEN owed \ Delivered(x) ELSE owed
    BY DEF Serve
  <1>3. x.sock \in Sockets /\ x.sock.s2c \in Seq(ServerMsgs)
    BY <1>1, Fields
  <1>4. m.type \in {"CONNECT", "KAASYNC", "PING", "DISCONNECT"}
    <2>1. m \in ClientMsgs
      BY <1>1, <1>2, Fields
    <2>2. QED BY <2>1 DEF ClientMsgs
  <1>5. /\ m.type = "CONNECT" => reply = <<"CONNACK", "KAASYNC">>
        /\ x.sock.session /\ m.type = "KAASYNC" => reply = <<"KAASYNC">>
        /\ x.sock.session /\ m.type = "PING" => reply = <<"PINGRESP">>
    OBVIOUS
  <1> HIDE DEF reply
  <1>6. /\ sock.st # "none" /\ sock.peer = x.sock.peer /\ sock.c2s = Tail(x.sock.c2s)
        /\ m.type = "DISCONNECT" => sock.session = x.sock.session /\ sock.s2c = x.sock.s2c
        /\ m.type # "DISCONNECT" => /\ sock.session = (reply # <<>> /\ reply # <<"REFUSED">>)
                                    /\ sock.s2c = x.sock.s2c \o reply
    <2> DEFINE t == x.sock
    <2>1. t \in Sockets /\ t.st = "up"
      BY <1>2, <1>3
    <2> HIDE DEF t, m
    <2>2. LET a == Answer(t, m, reply)
          IN  /\ a.st # "none" /\ a.peer = t.peer /\ a.c2s = Tail(t.c2s)
              /\ m.type = "DISCONNECT" => a.session = t.session /\ a.s2c = t.s2c
              /\ m.type # "DISCONNECT" =>
                   /\ a.session = (reply # <<>> /\ reply # <<"REFUSED">>)
                   /\ a.s2c = t.s2c \o reply
      BY <2>1, AnswerFields
    <2>3. QED BY <2>2 DEF t
  <1> HIDE DEF sock
  <1>7. Continued(x, y) /\ y.sock = sock
    BY <1>1, <1>6, SockContinued
  <1>8. y.out = x.out /\ y.pending = x.pending
    BY <1>7 DEF Continued
  <1> HIDE DEF y
  <1>9. CASE m.type = "CONNECT"
    <2>1. sock.session /\ sock.s2c = x.sock.s2c \o <<"CONNACK", "KAASYNC">>
      BY <1>5, <1>6, <1>9, Replies
    <2>2. /\ Session(y, c, Wait[c]) /\ x.state = "AUTHORIZING"
          /\ Single(x, Wait[c]) => Single(y, Wait[c])
      BY <1>0, <1>1, <1>2, <1>6, <1>7, <1>9, <2>1, AcceptedStage
    <2>3. ~Quiet(x, Wait[c])
      BY <2>2 DEF Quiet
    <2>4. c = "ops" => Covered(y, owed')
      <3>1. m = Login(c)
        BY <1>1, <1>2, <1>6, <1>7, <1>8, <1>9, LoginServed
      <3>2. c = "ops" => owed \subseteq m.svcs
        BY <3>1 DEF Login, Msg, Supported, BotInv, IInv, CoreOK
      <3>3. c = "ops" => Covered(y, owed \ Delivered(x))
        BY <1>1, <1>2, <1>6, <1>7, <1>8, <3>2, CoveredServed
      <3>4. QED BY <1>2, <1>9, <3>3
    <2>5. Orderly(System, Wait)'
      BY <1>1, <1>2, <1>6, <2>2, <2>3, <2>4, PeerBot, ChannelNames DEF y
    <2>6. QED BY <2>5, ServeOK DEF BotInv
  <1>10. CASE m.type # "CONNECT"
    <2>1. x.sock.session
      BY <1>1, <1>2, <1>6, <1>7, <1>8, <1>10, OpenedServed DEF Opened
    <2>2. /\ Session(y, c, Wait[c])
          /\ Single(x, Wait[c]) => Single(y, Wait[c])
          /\ Quiet(x, Wait[c]) => Quiet(y, Wait[c])
      <3>1. CASE m.type = "DISCONNECT"
        BY <1>1, <1>2, <1>6, <1>7, <1>10, <3>1, FarewellStage
      <3>2. CASE m.type = "KAASYNC"
        <4>1. sock.session /\ sock.s2c = Append(x.sock.s2c, "KAASYNC")
          BY <1>0, <1>3, <1>5, <1>6, <2>1, <3>2, Replies, AppendOne
        <4>2. QED BY <1>0, <1>1, <1>2, <1>6, <1>7, <3>2, <4>1, AnsweredStage
      <3>3. CASE m.type = "PING"
        <4>1. sock.session /\ sock.s2c = Append(x.sock.s2c, "PINGRESP")
          BY <1>0, <1>3, <1>5, <1>6, <2>1, <3>3, Replies, AppendOne
        <4>2. QED BY <1>0, <1>1, <1>2, <1>6, <1>7, <3>3, <4>1, AnsweredStage
      <3>4. QED BY <1>4, <1>10, <3>1, <3>2, <3>3
    <2>3. c = "ops" => Covered(y, owed')
      <3>1. c = "ops" => Covered(y, owed \ Delivered(x))
        BY <1>1, <1>2, <1>6, <1>7, <1>8, <2>1, CoveredServed
      <3>2. QED BY <1>2, <2>1, <3>1
    <2>4. c = "boot" => owed' = owed
      BY <1>2
    <2>5. Orderly(System, Wait)'
      BY <1>1, <1>2, <1>6, <2>2, <2>3, <2>4, PeerBot DEF y
    <2>6. QED BY <2>5, ServeOK DEF BotInv
  <1>11. QED BY <1>9, <1>10

LEMMA ServeBadlyBot == ASSUME BotInv, NEW c \in Channels, ServeBadly(c) PROVE BotInv'
  <1> DEFINE x == chan[c]
             m == Head(x.sock.c2s)
             sock(reply) == Answer(x.sock, m, reply)
             y(reply) == [x EXCEPT !.sock = sock(reply)]
  <1>0. "REFUSED" \in ServerMsgs /\ "EMPTY" \in Names
    BY DEF ServerMsgs, Names
  <1>1. /\ x \in ChannelRecords /\ Session(x, c, Wait[c]) /\ (c = "ops" => Covered(x, owed))
        /\ Wait[c] \in Seq(ServerMsgs)
    BY ChannelState
  <1>2. /\ x.sock.st = "up" /\ x.sock.c2s # <<>> /\ m.type = "CONNECT"
        /\ current' = current /\ parse' = parse /\ owed' = owed
    BY DEF ServeBadly
  <1>3. PICK reply \in {<<"REFUSED">>, <<"CONNACK", "EMPTY">>} :
          Peer(c, sock(reply)) /\ (reply = <<"REFUSED">> \/ c = "boot")
    BY DEF ServeBadly
  <1>4. x.sock \in Sockets /\ x.sock.s2c \in Seq(ServerMsgs)
    BY <1>1, Fields
  <1>5. /\ sock(reply).st # "none" /\ sock(reply).peer = x.sock.peer
        /\ sock(reply).c2s = Tail(x.sock.c2s)
        /\ sock(reply).session = (reply # <<>> /\ reply # <<"REFUSED">>)
        /\ sock(reply).s2c = x.sock.s2c \o reply
    <2> DEFINE t == x.sock
    <2>1. t \in Sockets /\ t.st = "up" /\ m.type # "DISCONNECT"
      BY <1>2, <1>4
    <2> HIDE DEF t, m
    <2>2. LET a == Answer(t, m, reply)
          IN  /\ a.st # "none" /\ a.peer = t.peer /\ a.c2s = Tail(t.c2s)
              /\ m.type # "DISCONNECT" =>
                   /\ a.session = (reply # <<>> /\ reply # <<"REFUSED">>)
                   /\ a.s2c = t.s2c \o reply
      BY <2>1, AnswerFields
    <2>3. QED BY <2>1, <2>2 DEF t
  <1> HIDE DEF sock
  <1>6. Continued(x, y(reply)) /\ y(reply).sock = sock(reply)
    BY <1>1, <1>5, SockContinued
  <1> HIDE DEF y
  <1>7. /\ Session(y(reply), c, Wait[c]) /\ x.state = "AUTHORIZING"
        /\ Single(x, Wait[c]) => Single(y(reply), Wait[c])
        /\ c = "ops" => ~y(reply).sock.session
    <2>1. CASE reply = <<"REFUSED">>
      <3>1. ~sock(reply).session /\ sock(reply).s2c = Append(x.sock.s2c, "REFUSED")
        BY <1>0, <1>4, <1>5, <2>1, AppendOne
      <3>2. QED BY <1>1, <1>2, <1>5, <1>6, <3>1, RefusedStage
    <2>2. CASE reply = <<"CONNACK", "EMPTY">>
      <3>1. sock(reply).session /\ sock(reply).s2c = x.sock.s2c \o <<"CONNACK", "EMPTY">>
        BY <1>5, <2>2, Replies
      <3>2. c # "ops"
        BY <1>3, <2>2, Replies
      <3>3. QED BY <1>0, <1>1, <1>2, <1>5, <1>6, <3>1, <3>2, AcceptedStage
    <2>3. QED BY <2>1, <2>2
  <1>8. ~Quiet(x, Wait[c])
    BY <1>7 DEF Quiet
  <1>9. c = "ops" => Covered(y(reply), owed')
    BY <1>7 DEF Covered
  <1>10. Orderly(System, Wait)'
    BY <1>1, <1>2, <1>3, <1>5, <1>7, <1>8, <1>9, PeerBot DEF y
  <1>11. QED BY <1>10, ServeBadlyOK DEF BotInv
-----------------------------------------------------------------------------
(* The theorems about the bot: no application code syncs on its own, logs   *)
(* are not delivered (kaabot/src/kaa_demo.c does neither), and a server closes a *)
(* connection without a Kaa DISCONNECT.                                    *)

LEMMA BotInit == Init => BotInv
  <1> SUFFICES ASSUME Init PROVE BotInv
    OBVIOUS
  <1> DEFINE b == UpdatePending(SetAccessPoint(NewChannel, 1), {"bootstrap"})
             o == UpdatePending(NewChannel, StartServices)
  <1>1. Wait = Calm
    BY DEF Init, Wait, Calm, Idle
  <1>2. IInv /\ chan["boot"] = b /\ chan["ops"] = o /\ b \in ChannelRecords /\ o \in ChannelRecords
    <2>1. IInv
      BY InitOK
    <2>2. chan["boot"] = b /\ chan["ops"] = o
      BY DEF Init
    <2>3. QED BY <2>1, <2>2, ChannelNames DEF IInv, CoreOK, GoodChannels
  <1>3. Down(b) /\ b.pending \subseteq {"bootstrap"}
    BY DEF UpdatePending, SetAccessPoint, NewChannel, Down
  <1>4. Down(o) /\ o.ap = "NOT_SET"
    BY DEF UpdatePending, NewChannel, Down
  <1> HIDE DEF b, o
  <1>5. Session(b, "boot", <<>>) /\ Single(b, <<>>)
    BY <1>2, <1>3, OnlyEmpty, EmptySeqType, DownOrderly
  <1>6. Session(o, "ops", <<>>) /\ Covered(o, owed)
    BY <1>2, <1>4, OnlyEmpty, EmptySeqType, DownOrderly
  <1>7. /\ System.ch["boot"] = b /\ System.ch["ops"] = o /\ System.current \notin 1..NOps
        /\ System.owed = owed /\ Calm["boot"] = <<>> /\ Calm["ops"] = <<>>
    <2>1. System.current = 0
      BY SystemParts DEF Init, NoList
    <2>2. QED BY <1>2, <2>1, SystemParts, CalmType, ConstantTypes
  <1>8. Orderly(System, Wait)
    BY <1>1, <1>4, <1>5, <1>6, <1>7 DEF Orderly, Handover
  <1>9. QED BY <1>2, <1>8 DEF BotInv

LEMMA BotStep ==
  ASSUME InputServices = {}, MaxLogTimeouts = 0, "disconnect" \notin FaultKinds, BotInv, [Next]_vars
  PROVE  BotInv'
  <1>1. ~InputSync
    BY DEF InputSync
  <1>2. ~LogDeliveryTimeout
    <2>1. logTimeouts \in Nat
      BY DEF BotInv, IInv, LoopOK
    <2>2. QED BY <2>1 DEF LogDeliveryTimeout
  <1>3. CASE EventLoop
    BY <1>1, <1>2, <1>3, SelectBot, KeepaliveBot, ReadEventBot, ParseMessageBot, WriteEventBot,
       NoInputBot DEF EventLoop
  <1>4. CASE Environment
    BY <1>4, PushBot, HostnameResolvedBot, HostnameResolveFailedBot, PingDueBot, AcceptBot, ServeBot,
       ServeBadlyBot, PeerFaultBot DEF Environment
  <1>5. CASE UNCHANGED vars
    <2>1. IInv'
      BY <1>5, StepOK DEF BotInv
    <2>2. Wait' = Wait /\ chan' = chan /\ current' = current /\ owed' = owed
      BY <1>5, IdleWait DEF vars
    <2>3. Orderly(System', Wait')
      BY <2>2, SystemParts, SameOrderly DEF BotInv
    <2>4. QED BY <2>1, <2>3 DEF BotInv
  <1>6. QED BY <1>3, <1>4, <1>5 DEF Next

LEMMA BotInvariance ==
  ASSUME InputServices = {}, MaxLogTimeouts = 0, "disconnect" \notin FaultKinds
  PROVE  Spec => []BotInv
  <1>1. BotInv /\ [Next]_vars => BotInv'
    BY BotStep
  <1>2. QED BY <1>1, BotInit, PTL DEF Spec

(* Descriptors and dialled access points. *)
LEMMA BotDescriptors ==
  ASSUME BotInv, NEW c \in Channels
  PROVE  /\ FdOpen(chan[c]) <=> chan[c].ap \in {"CONNECTING", "CONNECTED"}
         /\ ~chan[c].leaked
         /\ FdOpen(chan[c]) => chan[c].sock.peer = chan[c].id
  <1>1. Session(chan[c], c, Wait[c])
    BY ChannelState
  <1>2. QED BY <1>1, EmptySocket DEF Session, Offline, Connected, FdOpen

LEMMA BotAuthorized ==
  ASSUME BotInv, NEW c \in Channels, chan[c].state = "AUTHORIZED"
  PROVE  chan[c].ap = "CONNECTED" /\ chan[c].sock.session
  <1>1. Session(chan[c], c, Wait[c])
    BY ChannelState
  <1>2. QED BY <1>1 DEF Session, Offline, Unstarted, Connected, Stage, Asking, Accepted, Refused, Opened

LEMMA BotConnectFirst ==
  ASSUME BotInv, NEW c \in Channels, chan[c].sock.c2s # <<>>, ~chan[c].sock.session
  PROVE  Head(chan[c].sock.c2s).type = "CONNECT"
  <1> DEFINE x == chan[c]
             p == x.sock.c2s
             o == x.out
  <1>1. Session(x, c, Wait[c]) /\ p \in Seq(ClientMsgs) /\ o \in Seq(ClientMsgs) /\ p # <<>>
    BY ChannelState, Fields
  <1>2. Way(x) = p \o o
    BY DEF Way
  <1>3. Connected(x, c, Wait[c]) /\ ~x.sock.session
    BY <1>1 DEF Session, Offline
  <1> HIDE DEF p, o, x
  <1>4. p \o o # <<>> /\ (p \o o)[1] = Head(p)
    BY <1>1, ConcatTail
  <1>5. Way(x) = <<Login(c)>>
    BY <1>2, <1>3, <1>4 DEF Connected, Stage, Asking, Accepted, Refused, Opened
  <1>6. Head(p) = Login(c)
    BY <1>2, <1>4, <1>5
  <1>7. QED BY <1>6 DEF Login, Msg, p, x

(* Whatever the resolver, the network and the servers do, the channels know *)
(* which descriptor they hold and close it before they take another         *)
(* (kaa_tcp_channel_connect_access_point, release_access_point).            *)
THEOREM BotTracksDescriptors ==
  ASSUME InputServices = {}, MaxLogTimeouts = 0, "disconnect" \notin FaultKinds
  PROVE  Spec => []NoDescriptorLeak
  <1>1. BotInv => NoDescriptorLeak
    BY BotDescriptors DEF NoDescriptorLeak
  <1>2. QED BY <1>1, BotInvariance, PTL

(* A resolved address is never used for another access point than the one   *)
(* it was asked for, though the resolver answers late and the bootstrap     *)
(* manager replaces access points meanwhile (set_access_point_hostname_     *)
(* resolved_callback).                                                      *)
THEOREM BotDialsChosenAccessPoint ==
  ASSUME InputServices = {}, MaxLogTimeouts = 0, "disconnect" \notin FaultKinds
  PROVE  Spec => []DialsChosenAccessPoint
  <1>1. BotInv => DialsChosenAccessPoint
    BY BotDescriptors DEF DialsChosenAccessPoint
  <1>2. QED BY <1>1, BotInvariance, PTL

(* A channel is authorized only on the connection whose CONNACK it parsed: *)
(* no loss of a connection, new list or late buffer leaves the state        *)
(* behind.                                                                  *)
THEOREM BotAuthorizedOnThisConnection ==
  ASSUME InputServices = {}, MaxLogTimeouts = 0, "disconnect" \notin FaultKinds
  PROVE  Spec => []AuthorizedOnThisConnection
  <1>1. BotInv => AuthorizedOnThisConnection
    BY BotAuthorized DEF AuthorizedOnThisConnection
  <1>2. QED BY <1>1, BotInvariance, PTL

(* Nothing queued for an earlier connection reaches a server before the     *)
(* CONNECT of the present one.                                              *)
THEOREM BotConnectComesFirst ==
  ASSUME InputServices = {}, MaxLogTimeouts = 0, "disconnect" \notin FaultKinds
  PROVE  Spec => []ConnectComesFirst
  <1>1. BotInv => ConnectComesFirst
    BY BotConnectFirst DEF ConnectComesFirst
  <1>2. QED BY <1>1, BotInvariance, PTL

(* An authorized operations channel still has, or is sending, every service *)
(* that was asked for and that no server has received since.                *)
THEOREM BotForgetsNoRequest ==
  ASSUME InputServices = {}, MaxLogTimeouts = 0, "disconnect" \notin FaultKinds
  PROVE  Spec => []NoForgottenRequest
  <1>1. ASSUME BotInv, chan["ops"].state = "AUTHORIZED"
        PROVE  \A x \in owed : \/ x \in chan["ops"].pending
                               \/ \E i \in 1..Len(Way(chan["ops"])) : x \in Way(chan["ops"])[i].svcs
    <2>1. chan["ops"].sock.session /\ Covered(chan["ops"], owed)
      BY <1>1, BotAuthorized, ChannelState, ChannelNames
    <2>2. QED BY <2>1 DEF Covered
  <1>2. BotInv => NoForgottenRequest
    BY <1>1 DEF NoForgottenRequest, Way
  <1>3. QED BY <1>2, BotInvariance, PTL
-----------------------------------------------------------------------------
(* Which steps establish a connection: none but the first FD_WRITE on it.   *)

Keeps(s, t) == \A o \in Channels : t.ch[o].ap = "CONNECTED" => s.ch[o].ap = "CONNECTED"

LEMMA KeepsTrans ==
  ASSUME NEW s, NEW t, NEW u, Keeps(s, t), Keeps(t, u)
  PROVE  Keeps(s, u)
  BY DEF Keeps

LEMMA KeepsCh ==
  ASSUME NEW s, NEW t, t.ch = s.ch
  PROVE  Keeps(s, t)
  BY DEF Keeps

LEMMA SystemFields ==
  ASSUME NEW s \in GoodSystems
  PROVE  /\ Fail(s).ch = s.ch /\ (\A b : [s EXCEPT !.err = b].ch = s.ch)
         /\ (\A n : [s EXCEPT !.boot = n].ch = s.ch /\ [s EXCEPT !.current = n].ch = s.ch)
         /\ (\A f, e : Strikes(s, f, e).ch = s.ch)
  BY DEF GoodSystems, Fail, Strikes

LEMMA PutKeeps ==
  ASSUME NEW s \in GoodSystems, NEW c \in Channels, NEW x,
         x.ap = "CONNECTED" => s.ch[c].ap = "CONNECTED"
  PROVE  Keeps(s, Put(s, c, x))
  <1>1. /\ Put(s, c, x).ch[c] = x
        /\ \A o \in Channels : o # c => Put(s, c, x).ch[o] = s.ch[o]
    BY DEF GoodSystems, Put
  <1>2. QED BY <1>1 DEF Keeps

LEMMA ChannelKeeps ==
  ASSUME NEW ch \in ChannelRecords
  PROVE  /\ \A id : SetAccessPoint(ch, id).ap = "SET"
         /\ \A ok : ConnectAccessPoint(ch, ok).ap \in {"CONNECTING", ch.ap}
         /\ CloseSocket(ch).ap = "RESOLVED" /\ ResetChannel(ch).ap = ch.ap
         /\ \A svcs : UpdatePending(ch, svcs).ap = ch.ap /\ QueueSync(ch, svcs).ap = ch.ap
         /\ \A c : Authorize(ch, c).ap = ch.ap
         /\ Ping(ch).ap = ch.ap /\ DisconnectInternal(ch).ap = ch.ap /\ Transmit(ch).ap = ch.ap
         /\ \A n : Receive(ch, n).ap = ch.ap
  <1>1. \A id : SetAccessPoint(ch, id).ap = "SET"
    BY DEF ChannelRecords, SetAccessPoint, ReleaseAccessPoint
  <1>2. \A ok : ConnectAccessPoint(ch, ok).ap \in {"CONNECTING", ch.ap}
    BY DEF ChannelRecords, ConnectAccessPoint
  <1>3. CloseSocket(ch).ap = "RESOLVED" /\ ResetChannel(ch).ap = ch.ap
    BY DEF ChannelRecords, CloseSocket, ResetChannel
  <1>4. \A svcs : UpdatePending(ch, svcs).ap = ch.ap /\ QueueSync(ch, svcs).ap = ch.ap
    BY DEF ChannelRecords, UpdatePending, QueueSync, DeletePending, Queue
  <1>5. \A c : Authorize(ch, c).ap = ch.ap
    BY DEF ChannelRecords, Authorize, DeletePending, Queue
  <1>6. Ping(ch).ap = ch.ap /\ DisconnectInternal(ch).ap = ch.ap /\ Transmit(ch).ap = ch.ap
    BY DEF ChannelRecords, Ping, DisconnectInternal, Transmit, Queue
  <1>7. \A n : Receive(ch, n).ap = ch.ap
    BY DEF ChannelRecords, Receive
  <1>8. QED BY <1>1, <1>2, <1>3, <1>4, <1>5, <1>6, <1>7

LEMMA ConnectKeeps ==
  ASSUME NEW s \in GoodSystems, NEW c \in Channels, NEW e, MayDial(s.ch[c])
  PROVE  Keeps(s, Connect(s, c, e))
  <1> DEFINE ok == <<"open", c>> \notin e
             x  == ConnectAccessPoint(s.ch[c], ok)
             s1 == Put(s, c, x)
             s2 == Strikes(s1, <<"open", c>>, e)
  <1>1. x \in GoodChannels /\ (x.ap = "CONNECTED" => s.ch[c].ap = "CONNECTED")
    BY ChGood, ConnectGood, ChannelKeeps DEF MayDial
  <1> HIDE DEF x
  <1>2. s1 \in GoodSystems /\ Keeps(s, s1)
    BY <1>1, PutGood, PutKeeps
  <1> HIDE DEF s1
  <1>3. s2 \in GoodSystems /\ s2.ch = s1.ch
    BY <1>2, FaultType, StrikesGood
  <1>4. Connect(s, c, e) = [s2 EXCEPT !.err = ~ok]
    BY DEF Connect, s1, x
  <1> HIDE DEF s2
  <1>5. Connect(s, c, e).ch = s1.ch
    BY <1>3, <1>4, SystemFields
  <1>6. QED BY <1>2, <1>5, KeepsCh, KeepsTrans

LEMMA BootstrapFailedKeeps ==
  ASSUME NEW s \in GoodSystems
  PROVE  Keeps(s, BootstrapFailed(s))
  <1> DEFINE next == IF s.boot < NBoot THEN s.boot + 1 ELSE 1
             x    == SetAccessPoint(s.ch["boot"], next)
             s1   == Put(s, "boot", x)
  <1>1. x \in GoodChannels /\ x.ap = "SET"
    <2>1. next \in Nat
      BY ConstantTypes DEF GoodSystems
    <2>2. QED BY <2>1, ChannelNames, ChGood, SetAccessPointGood, ChannelKeeps
  <1>2. BootstrapFailed(s) = [s1 EXCEPT !.boot = next]
    BY DEF BootstrapFailed
  <1> HIDE DEF x, next
  <1>3. s1 \in GoodSystems /\ Keeps(s, s1)
    BY <1>1, ChannelNames, PutGood, PutKeeps
  <1> HIDE DEF s1
  <1>4. BootstrapFailed(s).ch = s1.ch
    BY <1>2, <1>3, SystemFields
  <1>5. QED BY <1>3, <1>4, KeepsCh, KeepsTrans

LEMMA TrySyncKeeps ==
  ASSUME NEW s \in GoodSystems, NEW c \in Channels, NEW svcs \in SUBSET Services, NEW e
  PROVE  Keeps(s, TrySync(s, c, svcs, e))
  <1> DEFINE x == UpdatePending(s.ch[c], svcs)
             s1 == Put(s, c, x)
  <1>1. x \in GoodChannels /\ x.ap = s.ch[c].ap
    BY ChGood, PendingGood, ChannelKeeps
  <1> HIDE DEF x
  <1>2. s1 \in GoodSystems /\ Keeps(s, s1)
    BY <1>1, PutGood, PutKeeps
  <1> HIDE DEF s1
  <1>3. ASSUME NeedsConnection(s1.ch[c]) PROVE Keeps(s1, Connect(s1, c, e))
    BY <1>2, <1>3, ConnectKeeps DEF MayDial, NeedsConnection
  <1>4. TrySync(s, c, svcs, e) = IF NeedsConnection(s1.ch[c]) THEN Connect(s1, c, e) ELSE s1
    BY DEF TrySync, s1, x
  <1>5. QED BY <1>2, <1>3, <1>4, KeepsTrans

LEMMA BootstrapSyncKeeps ==
  ASSUME NEW s \in GoodSystems, NEW e
  PROVE  Keeps(s, BootstrapSync(s, e))
  <1>1. {"bootstrap"} \in SUBSET Services
    BY DEF Services
  <1>2. /\ TrySync(s, "boot", {"bootstrap"}, e) \in GoodSystems
        /\ Keeps(s, TrySync(s, "boot", {"bootstrap"}, e))
    BY <1>1, ChannelNames, TrySyncGood, TrySyncKeeps
  <1>3. QED BY <1>2, BootstrapFailedKeeps, KeepsTrans DEF BootstrapSync

LEMMA OperationsFailedKeeps ==
  ASSUME NEW s \in GoodSystems, NEW e
  PROVE  Keeps(s, OperationsFailed(s, e))
  <1>1. CASE s.current = NoList
    BY <1>1, SystemFields, KeepsCh DEF OperationsFailed
  <1>2. CASE s.current # NoList /\ s.current < NOps
    <2> DEFINE x  == SetAccessPoint(s.ch["ops"], s.current + 1)
               s1 == Put(s, "ops", x)
    <2>1. x \in GoodChannels /\ x.ap = "SET"
      <3>1. s.current + 1 \in Nat
        BY <1>2, ConstantTypes DEF GoodSystems
      <3>2. QED BY <3>1, ChannelNames, ChGood, SetAccessPointGood, ChannelKeeps
    <2>2. OperationsFailed(s, e) = [s1 EXCEPT !.current = s1.current + 1]
      BY <1>2 DEF OperationsFailed
    <2> HIDE DEF x
    <2>3. s1 \in GoodSystems /\ Keeps(s, s1)
      BY <2>1, ChannelNames, PutGood, PutKeeps
    <2> HIDE DEF s1
    <2>4. OperationsFailed(s, e).ch = s1.ch
      BY <2>2, <2>3, SystemFields
    <2>5. QED BY <2>3, <2>4, KeepsCh, KeepsTrans
  <1>3. CASE s.current # NoList /\ ~(s.current < NOps)
    <2> DEFINE s1 == [s EXCEPT !.current = NOps + 1]
               s2 == BootstrapSync(s1, e)
    <2>1. s1 \in GoodSystems /\ Keeps(s, s1)
      <3>1. s1 \in GoodSystems
        BY CurrentGood, ConstantTypes
      <3>2. s1.ch = s.ch
        BY SystemFields
      <3> HIDE DEF s1
      <3>3. QED BY <3>1, <3>2, KeepsCh
    <2>2. OperationsFailed(s, e) = Fail(s2)
      BY <1>3 DEF OperationsFailed
    <2> HIDE DEF s1
    <2>3. s2 \in GoodSystems /\ Keeps(s1, s2)
      BY <2>1, BootstrapSyncGood, BootstrapSyncKeeps
    <2> HIDE DEF s2
    <2>4. Keeps(s2, Fail(s2))
      BY <2>3, SystemFields, KeepsCh
    <2>5. QED BY <2>1, <2>2, <2>3, <2>4, KeepsTrans
  <1>4. QED BY <1>1, <1>2, <1>3

LEMMA AccessPointFailedKeeps ==
  ASSUME NEW s \in GoodSystems, NEW c \in Channels, NEW e
  PROVE  Keeps(s, AccessPointFailed(s, c, e))
  BY BootstrapFailedKeeps, OperationsFailedKeeps DEF AccessPointFailed

LEMMA OperationsSyncKeeps ==
  ASSUME NEW s \in GoodSystems, NEW svcs \in SUBSET OpsServices, NEW e
  PROVE  Keeps(s, OperationsSync(s, svcs, e))
  <1> DEFINE s1 == [s EXCEPT !.owed = @ \cup svcs]
  <1>1. s1 \in GoodSystems /\ s1.ch = s.ch
    <2>1. s.owed \cup svcs \in SUBSET OpsServices
      BY DEF GoodSystems
    <2>2. QED BY <2>1 DEF GoodSystems
  <1> HIDE DEF s1
  <1>2. TrySync(s1, "ops", svcs, e) \in GoodSystems /\ Keeps(s1, TrySync(s1, "ops", svcs, e))
    BY <1>1, ChannelNames, TrySyncGood, TrySyncKeeps DEF Services
  <1>3. Keeps(s, TrySync(s1, "ops", svcs, e))
    BY <1>1, <1>2, KeepsCh, KeepsTrans
  <1>4. QED BY <1>2, <1>3, OperationsFailedKeeps, KeepsTrans DEF OperationsSync, s1

LEMMA SocketIoErrorKeeps ==
  ASSUME NEW s \in GoodSystems, NEW c \in Channels, NEW e
  PROVE  Keeps(s, SocketIoError(s, c, e))
  <1> DEFINE x  == CloseSocket(s.ch[c])
             s1 == Put(s, c, x)
             s2 == IF s.ch[c].sync = "STARTED" THEN AccessPointFailed(s1, c, e) ELSE s1
  <1>1. x \in GoodChannels /\ x.ap = "RESOLVED"
    BY ChGood, CloseGood, ChannelKeeps
  <1>2. SocketIoError(s, c, e) = [s2 EXCEPT !.ch[c] = ResetChannel(s2.ch[c])]
    BY DEF SocketIoError
  <1> HIDE DEF x
  <1>3. s1 \in GoodSystems /\ Keeps(s, s1)
    BY <1>1, PutGood, PutKeeps
  <1> HIDE DEF s1
  <1>4. s2 \in GoodSystems /\ Keeps(s, s2)
    BY <1>3, AccessPointFailedGood, AccessPointFailedKeeps, KeepsTrans
  <1> HIDE DEF s2
  <1>5. ResetChannel(s2.ch[c]).ap = s2.ch[c].ap
    BY <1>4, ChGood, ChannelKeeps
  <1>6. \A o \in Channels : SocketIoError(s, c, e).ch[o].ap = s2.ch[o].ap
    BY <1>2, <1>4, <1>5 DEF GoodSystems
  <1>7. QED BY <1>4, <1>6 DEF Keeps

LEMMA WriteBufferKeeps ==
  ASSUME NEW s \in GoodSystems, NEW c \in Channels, NEW e
  PROVE  Keeps(s, WriteBuffer(s, c, e))
  <1> DEFINE s1(k) == Strikes(s, <<k, c>>, e)
  <1>1. Keeps(s, Put(s, c, s.ch[c])) /\ Keeps(s, Put(s, c, Transmit(s.ch[c])))
    BY ChGood, ChannelKeeps, PutKeeps
  <1>2. Keeps(s, SocketIoError(s, c, e))
    BY SocketIoErrorKeeps
  <1>3. ASSUME NEW k \in {"write", "busy"}
        PROVE  s1(k) \in GoodSystems /\ Keeps(s, s1(k))
    BY FaultType, StrikesGood, KeepsCh
  <1>4. Keeps(s, SocketIoError(s1("write"), c, e)) /\ Keeps(s, Fail(s1("busy")))
    <2> HIDE DEF s1
    <2>1. s1("busy") \in GoodSystems /\ Keeps(s, s1("busy")) /\ Fail(s1("busy")).ch = s1("busy").ch
      BY <1>3, SystemFields
    <2>2. s1("write") \in GoodSystems /\ Keeps(s, s1("write"))
      BY <1>3
    <2>3. Keeps(s1("write"), SocketIoError(s1("write"), c, e)) /\ Keeps(s1("busy"), Fail(s1("busy")))
      BY <2>1, <2>2, SocketIoErrorKeeps, KeepsCh
    <2>4. QED BY <2>1, <2>2, <2>3, KeepsTrans
  <1>5. QED BY <1>1, <1>2, <1>4 DEF WriteBuffer

LEMMA WritePendingKeeps ==
  ASSUME NEW s \in GoodSystems, NEW c \in Channels, NEW svcs \in SUBSET Services, NEW e
  PROVE  Keeps(s, WritePending(s, c, svcs, e))
  <1> DEFINE s1 == Put(s, c, QueueSync(s.ch[c], svcs))
  <1>1. s1 \in GoodSystems /\ Keeps(s, s1)
    <2>1. QueueSync(s.ch[c], svcs) \in GoodChannels /\ QueueSync(s.ch[c], svcs).ap = s.ch[c].ap
      BY ChGood, RequestsGood, ChannelKeeps
    <2>2. QED BY <2>1, PutGood, PutKeeps
  <1> HIDE DEF s1
  <1>2. Keeps(s1, WriteBuffer(s1, c, e)) /\ Keeps(s1, Fail(s1))
    BY <1>1, WriteBufferKeeps, SystemFields, KeepsCh
  <1>3. QED BY <1>1, <1>2, KeepsTrans DEF WritePending, s1

LEMMA ChannelAuthorizeKeeps ==
  ASSUME NEW s \in GoodSystems, NEW c \in Channels
  PROVE  /\ Keeps(s, ChannelAuthorize(s, c))
         /\ ChannelAuthorize(s, c).ch[c] = Authorize(s.ch[c], c)
         /\ \A o \in Channels : o # c => ChannelAuthorize(s, c).ch[o] = s.ch[o]
  <1> DEFINE x == Authorize(s.ch[c], c)
             s1 == Put(s, c, x)
  <1>1. x \in GoodChannels /\ x.ap = s.ch[c].ap
    BY ChGood, RequestsGood, ChannelKeeps
  <1> HIDE DEF x
  <1>2. /\ s1 \in GoodSystems /\ Keeps(s, s1) /\ s1.ch[c] = x
        /\ \A o \in Channels : o # c => s1.ch[o] = s.ch[o]
    <2>1. s1 \in GoodSystems /\ Keeps(s, s1) /\ s1.ch[c] = x
      BY <1>1, PutGood, PutKeeps
    <2>2. \A o \in Channels : o # c => s1.ch[o] = s.ch[o]
      BY DEF Put, GoodSystems
    <2>3. QED BY <2>1, <2>2
  <1> HIDE DEF s1
  <1>3. ChannelAuthorize(s, c).ch = s1.ch
    BY <1>2, SystemFields DEF ChannelAuthorize, s1, x
  <1>4. QED BY <1>2, <1>3, KeepsCh, KeepsTrans DEF x

LEMMA DialKeeps ==
  ASSUME NEW s \in GoodSystems, NEW c \in Channels, NEW addr \in Nat, NEW e, MayDial(s.ch[c])
  PROVE  Keeps(s, Dial(s, c, addr, e))
  <1> DEFINE x == [s.ch[c] EXCEPT !.ap = "RESOLVED", !.addr = addr]
             s1 == Put(s, c, x)
             s2 == Connect(s1, c, e)
  <1>1. x \in GoodChannels /\ x.ap = "RESOLVED"
    <2>1. x \in ChannelRecords /\ x.ap = "RESOLVED"
      BY ChGood DEF ChannelRecords, APStates
    <2>2. Tight(s.ch[c]) /\ ~AsyncDns => Tight(x)
      BY ChGood DEF Tight, MayDial, FdOpen, ChannelRecords
    <2>3. QED BY <2>1, <2>2, ChGood DEF GoodChannels, Good
  <1> HIDE DEF x
  <1>2. s1 \in GoodSystems /\ MayDial(s1.ch[c]) /\ Keeps(s, s1)
    BY <1>1, PutGood, PutKeeps DEF MayDial
  <1> HIDE DEF s1
  <1>3. s2 \in GoodSystems /\ Keeps(s, s2)
    BY <1>2, SystemConnectGood, ConnectKeeps, KeepsTrans
  <1>4. Keeps(s, AccessPointFailed(s2, c, e))
    BY <1>3, AccessPointFailedKeeps, KeepsTrans
  <1>5. Dial(s, c, addr, e) = IF s2.err THEN AccessPointFailed(s2, c, e) ELSE s2
    BY DEF Dial, s1, x
  <1>6. QED BY <1>3, <1>4, <1>5

LEMMA ResolveKeeps ==
  ASSUME NEW s \in GoodSystems, NEW c \in Channels, NEW e, s.ch[c].ap = "SET"
  PROVE  Keeps(s, Resolve(s, c, e))
  <1> DEFINE ch == s.ch[c]
  <1>0. ch \in GoodChannels /\ ch \in ChannelRecords /\ ch.id \in Nat
    BY ChGood DEF ChannelRecords
  <1>1. CASE AsyncDns
    <2> DEFINE x == [ch EXCEPT !.ap = "IN_PROGRESS", !.queries = Append(ch.queries, ch.id)]
    <2>1. x.ap = "IN_PROGRESS"
      BY <1>0 DEF ChannelRecords
    <2>2. Resolve(s, c, e) = Put(s, c, x)
      BY <1>1 DEF Resolve
    <2>3. QED BY <2>1, <2>2, PutKeeps
  <1>2. CASE ~AsyncDns /\ <<"dns", c>> \in e
    <2> DEFINE x == [ch EXCEPT !.ap = "NOT_SET"]
               s1 == Strikes(Put(s, c, x), <<"dns", c>>, e)
    <2>1. x \in ChannelRecords /\ x.ap = "NOT_SET"
      BY <1>0 DEF ChannelRecords, APStates
    <2>2. Tight(ch) => Tight(x)
      BY <1>0 DEF ChannelRecords, Tight, FdOpen
    <2>3. x \in GoodChannels
      BY <1>0, <2>1, <2>2 DEF GoodChannels, Good
    <2>4. Resolve(s, c, e) = AccessPointFailed(s1, c, e)
      BY <1>2 DEF Resolve
    <2> HIDE DEF x
    <2>5. Put(s, c, x) \in GoodSystems /\ Keeps(s, Put(s, c, x))
      BY <2>1, <2>3, PutGood, PutKeeps
    <2>6. s1 \in GoodSystems /\ s1.ch = Put(s, c, x).ch
      BY <2>5, FaultType, StrikesGood
    <2> HIDE DEF s1
    <2>7. Keeps(s, s1)
      BY <2>5, <2>6, KeepsCh, KeepsTrans
    <2>8. Keeps(s1, AccessPointFailed(s1, c, e))
      BY <2>6, AccessPointFailedKeeps
    <2>9. QED BY <2>4, <2>7, <2>8, KeepsTrans
  <1>3. CASE ~AsyncDns /\ <<"dns", c>> \notin e
    BY <1>0, <1>3, DialKeeps DEF Resolve, MayDial
  <1>4. QED BY <1>1, <1>2, <1>3

LEMMA CheckKeepaliveKeeps ==
  ASSUME NEW s \in GoodSystems, NEW c \in Channels, NEW e
  PROVE  Keeps(s, CheckKeepalive(s, c, e))
  <1>1. Keeps(s, Put(s, c, s.ch[c]))
    BY PutKeeps
  <1>2. Keeps(s, [Put(s, c, Ping(s.ch[c])) EXCEPT !.err = ~HasRoom(s.ch[c])])
    <2> DEFINE s1 == Put(s, c, Ping(s.ch[c]))
    <2>1. s1 \in GoodSystems /\ Keeps(s, s1)
      BY ChGood, RequestsGood, ChannelKeeps, PutGood, PutKeeps
    <2> HIDE DEF s1
    <2>2. ASSUME NEW b PROVE Keeps(s, [s1 EXCEPT !.err = b])
      <3>1. [s1 EXCEPT !.err = b].ch = s1.ch
        BY <2>1, SystemFields
      <3>2. QED BY <2>1, <3>1, KeepsCh, KeepsTrans
    <2>3. QED BY <2>2 DEF s1
  <1>3. QED BY <1>1, <1>2, ResolveKeeps DEF CheckKeepalive

LEMMA NewOperationsListKeeps ==
  ASSUME NEW s \in GoodSystems, NEW empty \in BOOLEAN
  PROVE  Keeps(s, NewOperationsList(s, empty))
  <1> DEFINE x  == SetAccessPoint(s.ch["ops"], 1)
             s1 == Put(s, "ops", x)
  <1>1. x \in GoodChannels /\ x.ap = "SET"
    BY ChannelNames, ChGood, SetAccessPointGood, ChannelKeeps
  <1>2. NewOperationsList(s, empty) = IF empty THEN [s EXCEPT !.current = NoList]
                                               ELSE [s1 EXCEPT !.current = 1]
    BY DEF NewOperationsList
  <1> HIDE DEF x
  <1>3. s1 \in GoodSystems /\ Keeps(s, s1)
    BY <1>1, ChannelNames, PutGood, PutKeeps
  <1> HIDE DEF s1
  <1>4. CASE empty
    <2> DEFINE s2 == [s EXCEPT !.current = NoList]
    <2>1. s2.ch = s.ch
      BY DEF GoodSystems
    <2>2. NewOperationsList(s, empty) = s2
      BY <1>2, <1>4
    <2> HIDE DEF s2
    <2>3. QED BY <2>1, <2>2, KeepsCh
  <1>5. CASE ~empty
    <2> DEFINE s2 == [s1 EXCEPT !.current = 1]
    <2>1. s2.ch = s1.ch
      BY <1>3 DEF GoodSystems
    <2>2. NewOperationsList(s, empty) = s2
      BY <1>2, <1>5
    <2> HIDE DEF s2
    <2>3. Keeps(s1, s2)
      BY <2>1, KeepsCh
    <2>4. QED BY <1>3, <2>2, <2>3, KeepsTrans
  <1>6. QED BY <1>4, <1>5

LEMMA AfterWriteKeeps ==
  ASSUME NEW s \in GoodSystems, NEW c \in Channels, NEW e
  PROVE  Keeps(s, AfterWrite(s, c, e))
  <1>1. {"bootstrap"} \in SUBSET Services /\ s.ch[c].pending \in SUBSET Services
    BY ChGood DEF Services, ChannelRecords
  <1>2. /\ Keeps(s, WritePending(s, c, {"bootstrap"}, e))
        /\ Keeps(s, WritePending(s, c, s.ch[c].pending, e))
    BY <1>1, WritePendingKeeps
  <1>3. Keeps(s, SocketIoError(s, c, e)) /\ Keeps(s, ChannelAuthorize(s, c)) /\ Keeps(s, s)
    BY SocketIoErrorKeeps, ChannelAuthorizeKeeps, KeepsCh
  <1>4. QED BY <1>2, <1>3 DEF AfterWrite

LEMMA ProcessEmptyReadKeeps ==
  ASSUME NEW s \in GoodSystems, NEW c \in Channels, NEW e
  PROVE  Keeps(s, ProcessEmptyRead(s, c, e))
  BY SocketIoErrorKeeps, SystemFields, KeepsCh DEF ProcessEmptyRead

LEMMA ProcessMessageKeeps ==
  ASSUME NEW s \in GoodSystems, NEW c \in Channels, NEW m \in ServerMsgs,
         NEW again \in SUBSET OpsServices, NEW e
  PROVE  Keeps(s, ProcessMessage(s, c, m, again, e))
  <1> DEFINE ch == s.ch[c]
  <1>0. ch \in GoodChannels /\ ch \in ChannelRecords /\ Keeps(s, s)
    BY ChGood, KeepsCh
  <1>1. Keeps(s, SocketIoError(s, c, e)) /\ Keeps(s, OperationsSync(s, again, e))
    BY SocketIoErrorKeeps, OperationsSyncKeeps
  <1>2. CASE m = "CONNACK" /\ ch.state = "AUTHORIZING"
    <2>1. [ch EXCEPT !.state = "AUTHORIZED", !.due = FALSE].ap = ch.ap
      BY <1>0 DEF ChannelRecords
    <2>2. QED BY <1>2, <2>1, PutKeeps DEF ProcessMessage
  <1>3. CASE m \in {"CONNACK", "REFUSED"} /\ ~(m = "CONNACK" /\ ch.state = "AUTHORIZING")
    BY <1>1, <1>3 DEF ProcessMessage
  <1>4. CASE m \in {"KAASYNC", "EMPTY"} /\ c = "boot"
    <2> DEFINE s1 == NewOperationsList(s, m = "EMPTY")
               x  == [s1.ch[c] EXCEPT !.sync = "FINISHED"]
               y  == DisconnectInternal(x)
    <2>1. s1 \in GoodSystems /\ Keeps(s, s1)
      BY NewOperationsListGood, NewOperationsListKeeps
    <2>2. ProcessMessage(s, c, m, again, e) = Put(s1, c, y)
      BY <1>4 DEF ProcessMessage
    <2> HIDE DEF s1
    <2>3. x \in ChannelRecords /\ x.ap = s1.ch[c].ap
      BY <2>1, ChGood DEF ChannelRecords, SyncStates
    <2> HIDE DEF x
    <2>4. y.ap = s1.ch[c].ap
      BY <2>3, ChannelKeeps
    <2> HIDE DEF y
    <2>5. Keeps(s1, Put(s1, c, y))
      BY <2>1, <2>4, PutKeeps
    <2>6. QED BY <2>1, <2>2, <2>5, KeepsTrans
  <1>5. CASE m \in {"KAASYNC", "EMPTY"} /\ c # "boot"
    BY <1>0, <1>1, <1>5 DEF ProcessMessage, Channels
  <1>6. CASE m = "DISCONNECT"
    <2> DEFINE x == [ch EXCEPT !.sync = "STARTED"]
               s1 == Put(s, c, x)
    <2>1. x \in GoodChannels /\ x.ap = ch.ap
      BY <1>0, ChangeStateGood DEF ChannelStates, SyncStates, ChannelRecords
    <2>2. ProcessMessage(s, c, m, again, e) = SocketIoError(s1, c, e)
      BY <1>6 DEF ProcessMessage
    <2> HIDE DEF x
    <2>3. s1 \in GoodSystems /\ Keeps(s, s1)
      BY <2>1, PutGood, PutKeeps
    <2> HIDE DEF s1
    <2>4. QED BY <2>2, <2>3, SocketIoErrorKeeps, KeepsTrans
  <1>7. CASE m \in {"INTERNAL_ERROR", "GARBAGE"}
    BY <1>1, <1>7 DEF ProcessMessage
  <1>8. CASE m = "PINGRESP"
    BY <1>0, <1>8 DEF ProcessMessage
  <1>9. QED BY <1>2, <1>3, <1>4, <1>5, <1>6, <1>7, <1>8 DEF ServerMsgs
-----------------------------------------------------------------------------
(* A connection that is established starts authorization. *)

Starts(s, t) ==
  \A o \in Channels : s.ch[o].ap # "CONNECTED" /\ t.ch[o].ap = "CONNECTED" =>
    \E i \in 1..Len(t.ch[o].out) : t.ch[o].out[i].type = "CONNECT"

LEMMA KeepsStarts ==
  ASSUME NEW s, NEW t, Keeps(s, t)
  PROVE  Starts(s, t)
  BY DEF Keeps, Starts

LEMMA KeepsThenStarts ==
  ASSUME NEW s, NEW t, NEW u, Keeps(s, t), Starts(t, u)
  PROVE  Starts(s, u)
  BY DEF Keeps, Starts

LEMMA AuthorizeStarts ==
  ASSUME NEW ch \in ChannelRecords, NEW c \in Channels, Unstarted(ch, c)
  PROVE  \E i \in 1..Len(Authorize(ch, c).out) : Authorize(ch, c).out[i].type = "CONNECT"
  <1>1. Authorize(ch, c).out = <<Login(c)>>
    <2>1. CASE ch.state = "UNDEFINED" /\ ch.out = <<>>
      <3> DEFINE idle == DeletePending(ch, ch.pending)
      <3>1. HasRoom(ch)
        BY <2>1, OutCapacityAssumption DEF HasRoom
      <3>2. Authorize(ch, c) = [Queue(idle, Login(c)) EXCEPT !.state = "AUTHORIZING", !.sync = "STARTED"]
        BY <2>1, <3>1 DEF Authorize, Login
      <3>3. idle \in ChannelRecords /\ idle.out = <<>>
        BY <2>1 DEF DeletePending, ChannelRecords
      <3> HIDE DEF idle
      <3>4. Queue(idle, Login(c)).out = <<Login(c)>>
        BY <3>3 DEF Queue, ChannelRecords
      <3>5. [Queue(idle, Login(c)) EXCEPT !.state = "AUTHORIZING", !.sync = "STARTED"].out
              = Queue(idle, Login(c)).out
        BY <3>3 DEF Queue, ChannelRecords
      <3>6. QED BY <3>2, <3>4, <3>5
    <2>2. CASE ch.state = "AUTHORIZING" /\ ch.out = <<Login(c)>>
      BY <2>2 DEF Authorize
    <2>3. QED BY <2>1, <2>2 DEF Unstarted
  <1>2. Len(<<Login(c)>>) = 1 /\ <<Login(c)>>[1] = Login(c)
    OBVIOUS
  <1>3. Login(c).type = "CONNECT"
    BY DEF Login, Msg
  <1>4. QED BY <1>1, <1>2, <1>3

LEMMA ProcessWriteStarts ==
  ASSUME NEW s \in GoodSystems, NEW c \in Channels, NEW e,
         s.ch[c].ap = "CONNECTING" => Unstarted(s.ch[c], c)
  PROVE  Starts(s, ProcessWrite(s, c, e))
  <1>1. CASE s.ch[c].ap = "CONNECTING" /\ s.ch[c].sock.st \in {"up", "closed"}
    <2> DEFINE x  == [s.ch[c] EXCEPT !.ap = "CONNECTED"]
               s1 == Put(s, c, x)
               t  == ChannelAuthorize(s1, c)
    <2>1. x \in ChannelRecords /\ x.state = s.ch[c].state /\ x.out = s.ch[c].out
      BY ChGood DEF ChannelRecords, APStates
    <2>2. x \in GoodChannels
      <3>1. Tight(s.ch[c]) => Tight(x)
        BY <1>1, ChGood DEF ChannelRecords, Tight, FdOpen
      <3>2. QED BY <2>1, <3>1, ChGood DEF GoodChannels, Good
    <2>3. Unstarted(x, c)
      BY <1>1, <2>1 DEF Unstarted
    <2>4. ProcessWrite(s, c, e) = t
      BY <1>1 DEF ProcessWrite
    <2> HIDE DEF x
    <2>5. /\ s1 \in GoodSystems /\ s1.ch[c] = x
          /\ \A o \in Channels : o # c => s1.ch[o] = s.ch[o]
      <3>1. s1 \in GoodSystems /\ s1.ch[c] = x
        BY <2>2, PutGood
      <3>2. \A o \in Channels : o # c => s1.ch[o] = s.ch[o]
        BY DEF Put, GoodSystems
      <3>3. QED BY <3>1, <3>2
    <2> HIDE DEF s1
    <2>6. t.ch[c] = Authorize(x, c) /\ \A o \in Channels : o # c => t.ch[o] = s.ch[o]
      BY <2>5, ChannelAuthorizeKeeps
    <2> HIDE DEF t
    <2>7. QED BY <2>1, <2>3, <2>4, <2>6, AuthorizeStarts DEF Starts
  <1>2. CASE s.ch[c].ap = "CONNECTING" /\ s.ch[c].sock.st \notin {"up", "closed"}
    BY <1>2, SocketIoErrorKeeps, KeepsCh, KeepsStarts DEF ProcessWrite
  <1>3. CASE s.ch[c].ap = "CONNECTED"
    <2> DEFINE s1 == WriteBuffer(s, c, e)
    <2>1. s1 \in GoodSystems /\ Keeps(s, s1)
      BY WriteBufferGood, WriteBufferKeeps
    <2>2. ProcessWrite(s, c, e) = IF s1.err THEN s1 ELSE AfterWrite(s1, c, e)
      BY <1>3 DEF ProcessWrite
    <2> HIDE DEF s1
    <2>3. Keeps(s, ProcessWrite(s, c, e))
      BY <2>1, <2>2, AfterWriteKeeps, KeepsTrans
    <2>4. QED BY <2>3, KeepsStarts
  <1>4. CASE s.ch[c].ap \notin {"CONNECTING", "CONNECTED"}
    BY <1>4, KeepsCh, KeepsStarts DEF ProcessWrite
  <1>5. QED BY <1>1, <1>2, <1>3, <1>4

(* The steps of the state that establish no connection. *)
LEMMA CommitStarts ==
  ASSUME NEW s, NEW e, Commit(s, e), Starts(System, s)
  PROVE  Starts(System, System')
  BY SystemParts DEF Commit, Starts

LEMMA EventLoopStarts ==
  ASSUME BotInv, EventLoop, InputServices = {}, MaxLogTimeouts = 0
  PROVE  Starts(System, System')
  <1>1. System \in GoodSystems
    BY SystemGood DEF BotInv, IInv
  <1>2. CASE chan' = chan
    BY <1>2, SystemParts, KeepsCh, KeepsStarts
  <1>3. CASE Keepalive
    <2> DEFINE c == Head(todo).c
    <2>1. c \in Channels
      BY <1>3, HeadType DEF BotInv, IInv, Keepalive, Turn
    <2>2. PICK e \in FaultChoices(c) : Commit(CheckKeepalive(System, c, e), e)
      BY <1>3 DEF Keepalive
    <2> HIDE DEF c
    <2>3. Starts(System, CheckKeepalive(System, c, e))
      BY <1>1, <2>1, CheckKeepaliveKeeps, KeepsStarts
    <2>4. QED BY <2>2, <2>3, CommitStarts
  <1>4. CASE ReadEvent
    <2> DEFINE c == Head(todo).c
               s1(e) == CheckKeepalive(System, c, e)
               arrived(e) == s1(e).ch[c].sock.s2c
               hit(e) == ~s1(e).err /\ s1(e).ch[c].ap = "CONNECTED" /\ arrived(e) # <<>>
               s2(e) == IF s1(e).err THEN s1(e) ELSE ProcessEmptyRead(s1(e), c, e)
               ch(e, n) == Receive(s1(e).ch[c], n)
    <2>1. c \in Channels
      BY <1>4, HeadType DEF BotInv, IInv, ReadEvent, Turn
    <2>2. PICK e \in FaultChoices(c) :
            \/ \E n \in 1..Len(arrived(e)) : Commit(Put(s1(e), c, ch(e, n)), e)
            \/ Commit(s2(e), e)
      BY <1>4 DEF ReadEvent
    <2> HIDE DEF c
    <2>3. s1(e) \in GoodSystems /\ Keeps(System, s1(e))
      BY <1>1, <2>1, CheckKeepaliveGood, CheckKeepaliveKeeps
    <2> HIDE DEF s1
    <2>4. ASSUME NEW n, Commit(Put(s1(e), c, ch(e, n)), e) PROVE Starts(System, System')
      <3>1. ch(e, n).ap = s1(e).ch[c].ap
        BY <2>1, <2>3, ChGood, ChannelKeeps
      <3> HIDE DEF ch
      <3>2. Keeps(s1(e), Put(s1(e), c, ch(e, n)))
        BY <2>1, <2>3, <3>1, PutKeeps
      <3>3. Starts(System, Put(s1(e), c, ch(e, n)))
        BY <2>3, <3>2, KeepsTrans, KeepsStarts
      <3>4. QED BY <2>4, <3>3, CommitStarts
    <2>5. ASSUME Commit(s2(e), e) PROVE Starts(System, System')
      <3>1. Keeps(s1(e), s2(e))
        BY <2>1, <2>3, ProcessEmptyReadKeeps, KeepsCh
      <3> HIDE DEF s2
      <3>2. Starts(System, s2(e))
        BY <2>3, <3>1, KeepsTrans, KeepsStarts
      <3>3. QED BY <2>5, <3>2, CommitStarts
    <2>6. QED BY <2>2, <2>4, <2>5
  <1>5. CASE ParseMessage
    <2> DEFINE c == parse.c
               m == Head(parse.msgs)
               s1(e, again) == ProcessMessage(System, c, m, again, e)
    <2>1. c \in Channels /\ m \in ServerMsgs
      <3>1. c \in Channels /\ parse.msgs \in Seq(ServerMsgs) /\ parse.msgs # <<>>
        BY <1>5 DEF BotInv, IInv, LoopOK, ParseMessage
      <3>2. QED BY <3>1
    <2>2. PICK e \in FaultChoices(c),
               again \in {{}} \cup {{x} : x \in IF syncs < MaxSyncs THEN CallbackServices ELSE {}} :
            \/ Commit(s1(e, again), e)
            \/ Commit([s1(e, again) EXCEPT !.ch[c].inbuf = <<>>], e)
      BY <1>5 DEF ParseMessage
    <2>3. again \in SUBSET OpsServices
      BY ConstantTypes
    <2> HIDE DEF c, m
    <2>4. s1(e, again) \in GoodSystems /\ Keeps(System, s1(e, again))
      BY <1>1, <2>1, <2>3, ProcessMessageGood, ProcessMessageKeeps
    <2> HIDE DEF s1
    <2>5. Keeps(s1(e, again), [s1(e, again) EXCEPT !.ch[c].inbuf = <<>>])
      BY <2>1, <2>4 DEF Keeps, GoodSystems, GoodChannels, ChannelRecords
    <2>6. Keeps(System, [s1(e, again) EXCEPT !.ch[c].inbuf = <<>>])
      BY <2>4, <2>5, KeepsTrans
    <2>7. QED BY <2>2, <2>4, <2>6, KeepsStarts, CommitStarts
  <1>6. CASE WriteEvent
    <2> DEFINE c == Head(todo).c
               s1(e) == CheckKeepalive(System, c, e)
               s2(e) == IF s1(e).err THEN s1(e) ELSE ProcessWrite(s1(e), c, e)
    <2>1. c \in Channels /\ parse.msgs = <<>>
      BY <1>6, HeadType DEF BotInv, IInv, WriteEvent, Turn
    <2>2. PICK e \in FaultChoices(c) : Commit(s2(e), e)
      BY <1>6 DEF WriteEvent
    <2>3. System \in GoodSystems /\ Orderly(System, Calm)
      BY <2>1, CalmState
    <2> HIDE DEF c
    <2>4. s1(e) \in GoodSystems /\ Orderly(s1(e), Calm) /\ Keeps(System, s1(e))
      BY <2>1, <2>3, CheckKeepaliveOrderly, CheckKeepaliveGood, CheckKeepaliveKeeps
    <2> HIDE DEF s1
    <2>5. s1(e).ch[c].ap = "CONNECTING" => Unstarted(s1(e).ch[c], c)
      <3>1. Session(s1(e).ch[c], c, <<>>)
        BY <2>1, <2>4, CalmSession
      <3>2. QED BY <3>1 DEF Session, Offline, Connected
    <2>6. Starts(s1(e), ProcessWrite(s1(e), c, e))
      BY <2>1, <2>4, <2>5, ProcessWriteStarts
    <2>7. Starts(System, s2(e))
      BY <2>4, <2>6, KeepsStarts, KeepsThenStarts
    <2> HIDE DEF s2
    <2>8. QED BY <2>2, <2>7, CommitStarts
  <1>7. QED
    <2>1. ~InputSync /\ ~LogDeliveryTimeout
      BY DEF InputSync, LogDeliveryTimeout, BotInv, IInv, LoopOK
    <2>2. Select \/ NoInput => chan' = chan
      BY DEF Select, NoInput
    <2>3. QED BY <1>2, <1>3, <1>4, <1>5, <1>6, <2>1, <2>2 DEF EventLoop

LEMMA EnvironmentStarts ==
  ASSUME BotInv, Environment
  PROVE  Starts(System, System')
  <1>1. System \in GoodSystems /\ System.ch = chan /\ chan \in [Channels -> ChannelRecords]
    BY SystemGood, SystemParts DEF BotInv, IInv, CoreOK, GoodChannels
  <1>2. ASSUME NEW c \in Channels, NEW y, chan' = [chan EXCEPT ![c] = y],
               y.ap = "CONNECTED" => chan[c].ap = "CONNECTED"
        PROVE  Starts(System, System')
    <2>1. Keeps(System, System')
      BY <1>1, <1>2, SystemParts DEF Keeps
    <2>2. QED BY <2>1, KeepsStarts
  <1>3. ASSUME NEW c \in Channels, NEW sock, Peer(c, sock) PROVE Starts(System, System')
    <2> DEFINE y == [chan[c] EXCEPT !.sock = sock]
    <2>1. chan' = [chan EXCEPT ![c] = y]
      BY <1>3 DEF Peer
    <2>2. y.ap = chan[c].ap
      BY <1>1 DEF ChannelRecords
    <2> HIDE DEF y
    <2>3. QED BY <1>2, <2>1, <2>2
  <1>4. ASSUME NEW c \in Channels, HostnameResolved(c) PROVE Starts(System, System')
    <2> DEFINE x(i) == [chan[c] EXCEPT !.queries = RemoveAt(@, i)]
               s1(i) == Put(System, c, x(i))
               t(i, e) == Dial(s1(i), c, chan[c].queries[i], e)
    <2>1. PICK i \in 1..Len(chan[c].queries), e \in FaultChoices(c) : Commit(t(i, e), e)
      BY <1>4 DEF HostnameResolved
    <2>2. AsyncDns
      <3>1. chan[c].queries # <<>>
        BY <1>1, <2>1 DEF ChannelRecords
      <3>2. QED BY <3>1, Answered DEF BotInv, IInv
    <2>3. chan[c].queries[i] \in Nat /\ chan[c].queries \in Seq(Nat) /\ i \in 1..Len(chan[c].queries)
      BY <1>1, <2>1 DEF ChannelRecords
    <2>4. x(i) \in GoodChannels /\ x(i).ap = chan[c].ap
      <3> DEFINE q == chan[c].queries
      <3>1. RemoveAt(q, i) \in Seq(Nat)
        <4>1. SubSeq(q, 1, i - 1) \in Seq(Nat) /\ SubSeq(q, i + 1, Len(q)) \in Seq(Nat)
          BY <2>3
        <4>2. QED BY <4>1 DEF RemoveAt
      <3>2. x(i) \in ChannelRecords /\ x(i).ap = chan[c].ap
        BY <1>1, <3>1 DEF ChannelRecords
      <3>3. QED BY <2>2, <3>2 DEF GoodChannels, Good
    <2> HIDE DEF x
    <2>5. s1(i) \in GoodSystems /\ Keeps(System, s1(i))
      BY <1>1, <2>4, PutGood, PutKeeps
    <2> HIDE DEF s1
    <2>6. Keeps(s1(i), t(i, e))
      BY <2>2, <2>3, <2>5, DialKeeps DEF MayDial
    <2> HIDE DEF t
    <2>7. Starts(System, t(i, e))
      BY <2>5, <2>6, KeepsTrans, KeepsStarts
    <2>8. QED BY <2>1, <2>7, CommitStarts
  <1>5. ASSUME NEW c \in Channels, HostnameResolveFailed(c) PROVE Starts(System, System')
    <2> DEFINE y(i) == [chan[c] EXCEPT !.queries = RemoveAt(@, i), !.ap = "NOT_SET"]
    <2>1. PICK i : chan' = [chan EXCEPT ![c] = y(i)]
      BY <1>5 DEF HostnameResolveFailed
    <2>2. y(i).ap = "NOT_SET"
      BY <1>1 DEF ChannelRecords
    <2> HIDE DEF y
    <2>3. QED BY <1>2, <2>1, <2>2
  <1>6. ASSUME NEW c \in Channels, PingDue(c) PROVE Starts(System, System')
    <2> DEFINE y == [chan[c] EXCEPT !.due = TRUE]
    <2>1. chan' = [chan EXCEPT ![c] = y]
      BY <1>6 DEF PingDue
    <2>2. y.ap = chan[c].ap
      BY <1>1 DEF ChannelRecords
    <2> HIDE DEF y
    <2>3. QED BY <1>2, <2>1, <2>2
  <1>7. ASSUME NEW c \in Channels, Accept(c) \/ Serve(c) \/ ServeBadly(c) \/ PeerFault(c)
        PROVE  Starts(System, System')
    <2>1. \E sock : Peer(c, sock)
      BY <1>7 DEF Accept, Serve, ServeBadly, PeerFault
    <2>2. QED BY <1>3, <2>1
  <1>8. Push => Starts(System, System')
    BY <1>3, ChannelNames DEF Push
  <1>9. QED BY <1>4, <1>5, <1>6, <1>7, <1>8 DEF Environment

(* A step that establishes the connection of a channel leaves a CONNECT in   *)
(* its out_buffer, also when the channel still has the state of the          *)
(* connection before (kaa_tcp_channel_process_event calls authorize, which   *)
(* does nothing unless the state is UNDEFINED).                              *)
THEOREM BotStartsAuthorization ==
  ASSUME InputServices = {}, MaxLogTimeouts = 0, "disconnect" \notin FaultKinds
  PROVE  Spec => ConnectionStartsAuthorization
  <1> DEFINE Started ==
        \A c \in Channels : chan[c].ap = "CONNECTING" /\ chan'[c].ap = "CONNECTED" =>
          \E i \in 1..Len(chan'[c].out) : chan'[c].out[i].type = "CONNECT"
  <1>1. BotInv /\ [Next]_vars => [Started]_vars
    <2> SUFFICES ASSUME BotInv, Next PROVE Started
      OBVIOUS
    <2>1. Starts(System, System')
      BY EventLoopStarts, EnvironmentStarts DEF Next
    <2>2. QED BY <2>1, SystemParts DEF Starts
  <1>2. QED BY <1>1, BotInvariance, PTL DEF Spec, ConnectionStartsAuthorization
=============================================================================
