------------------------ MODULE Esp8266ClientProofs ------------------------
(***************************************************************************)
(* For any number of slots, access points and faults: a channel the client *)
(* believes connected has its slot of the driver.  The property is nearly  *)
(* inductive: it needs that a client without a channel has none that is    *)
(* connected, and that the slot taken by a connect is one of the module's. *)
(***************************************************************************)
EXTENDS Esp8266Client, LeastElements

Types ==
  /\ slots \in [Slots -> {"UNUSED", "CONNECTING", "CONNECTED", "ERROR"}]
  /\ links \in [Slots -> {"none", "boot", "ops"}]
  /\ channel \in Channels

NoneIsDown == channel.kind = "none" => ~channel.connected
HasItsSlot == channel.connected => fd \in Slots

IInv == Types /\ NoneIsDown /\ HasItsSlot /\ ConnectedChannelHasItsSlot
-----------------------------------------------------------------------------
(* A free slot is found among those of the module. *)
LEMMA FreeSlot == ASSUME Used # Slots PROVE Min(Slots \ Used) \in Slots \ Used
  <1>1. Slots \ Used # {} /\ Slots \ Used \in SUBSET Nat
    BY EspAssumption DEF Slots, Used
  <1>2. QED BY <1>1, LeastElement
-----------------------------------------------------------------------------
(* What the operations on a channel return. *)
Kept(ch, next) == next \in Channels /\ next.kind = ch.kind /\ next.connected = ch.connected

LEMMA OutType ==
  ASSUME NEW q \in Seq(Outgoing)
  PROVE  /\ <<>> \in Seq(Outgoing)
         /\ \A m \in {"CONNECT", "SYNC", "PING", "DISCONNECT"} : Append(q, m) \in Seq(Outgoing)
  <1>1. {"CONNECT", "SYNC", "PING", "DISCONNECT"} = Outgoing
    BY DEF Outgoing
  <1>2. \A m \in Outgoing : Append(q, m) \in Seq(Outgoing)
    OBVIOUS
  <1>3. <<>> \in Seq(Outgoing)
    OBVIOUS
  <1>4. QED BY <1>1, <1>2, <1>3

LEMMA NoChannelType == NoChannel \in Channels /\ ~NoChannel.connected
  BY DEF NoChannel, Channels

LEMMA NewChannelType ==
  ASSUME NEW kind \in {"boot", "ops"}
  PROVE  NewChannel(kind) \in Channels /\ ~NewChannel(kind).connected
  BY NoChannelType DEF NewChannel, Channels

LEMMA SocketIoErrorKeeps == ASSUME NEW ch \in Channels PROVE Kept(ch, SocketIoError(ch))
  BY OutType DEF SocketIoError, Kept, Channels

LEMMA AuthorizeKeeps == ASSUME NEW ch \in Channels PROVE Kept(ch, Authorize(ch))
  BY OutType DEF Authorize, Kept, Channels

LEMMA QueuePendingKeeps == ASSUME NEW ch \in Channels PROVE Kept(ch, QueuePending(ch))
  <1>1. Kept(ch, Authorize(ch))
    BY AuthorizeKeeps
  <1>2. Kept(ch, ch) /\ Kept(ch, [ch EXCEPT !.out = Append(@, "SYNC"), !.pending = FALSE])
    BY OutType DEF Kept, Channels
  <1>3. QED BY <1>1, <1>2 DEF QueuePending

LEMMA AfterSyncKeeps == ASSUME NEW ch \in Channels PROVE Kept(ch, AfterSync(ch))
  BY OutType DEF AfterSync, Kept, Channels

LEMMA ReceiveKeeps == ASSUME NEW ch \in Channels, NEW m PROVE Kept(ch, Receive(ch, m))
  <1> DEFINE stopped == [ch EXCEPT !.started = TRUE]
             listed  == IF ch.kind = "ops" THEN [ch EXCEPT !.ap = "SET", !.host = TRUE] ELSE ch
             acked   == [ch EXCEPT !.state = "AUTHORIZED"]
  <1>1. Kept(ch, stopped) /\ Kept(ch, listed) /\ Kept(ch, acked) /\ Kept(ch, ch)
    BY OutType DEF Kept, Channels
  <1>2. Kept(ch, SocketIoError(ch)) /\ Kept(ch, AfterSync(ch))
    BY SocketIoErrorKeeps, AfterSyncKeeps
  <1>3. Kept(stopped, SocketIoError(stopped)) /\ Kept(listed, AfterSync(listed))
    BY <1>1, SocketIoErrorKeeps, AfterSyncKeeps DEF Kept
  <1>4. Kept(ch, SocketIoError(stopped)) /\ Kept(ch, AfterSync(listed))
    BY <1>1, <1>3 DEF Kept
  <1> HIDE DEF stopped, listed, acked
  <1>5. /\ m = "CONNACK" /\ ch.state = "AUTHORIZING" => Receive(ch, m) = acked
        /\ m \in {"REFUSED", "CONNACK"} /\ ~(m = "CONNACK" /\ ch.state = "AUTHORIZING")
             => Receive(ch, m) = SocketIoError(ch)
        /\ m = "DISCONNECT" => Receive(ch, m) = SocketIoError(stopped)
        /\ m = "SYNC" => Receive(ch, m) = AfterSync(ch)
        /\ m = "LIST" => Receive(ch, m) = AfterSync(listed)
        /\ m \notin {"REFUSED", "CONNACK", "DISCONNECT", "SYNC", "LIST"} => Receive(ch, m) = ch
    BY DEF Receive, stopped, listed, acked
  <1>6. QED BY <1>1, <1>2, <1>4, <1>5

LEMMA CheckedKeeps ==
  ASSUME channel \in Channels, NEW k \in Checks
  PROVE  Kept(channel, Checked(k))
  <1> DEFINE ch == CASE k = "none" -> channel
                     [] k = "ping" -> [channel EXCEPT !.out = Append(@, "PING")]
                     [] k = "timeout" -> [channel EXCEPT !.state = "DISCONNECTING"]
  <1>1. Kept(channel, ch)
    BY OutType DEF Checks, Kept, Channels
  <1>2. Kept(ch, QueuePending(ch))
    BY <1>1, QueuePendingKeeps DEF Kept
  <1>3. Checked(k) = QueuePending(ch)
    BY DEF Checked
  <1> HIDE DEF ch
  <1>4. QED BY <1>1, <1>2, <1>3 DEF Kept
-----------------------------------------------------------------------------
LEMMA InitOK == Init => IInv
  BY NoChannelType DEF Init, IInv, Types, NoneIsDown, HasItsSlot, ConnectedChannelHasItsSlot,
     NoChannel, Closed

(* Whatever becomes of the slots and links: a client without a channel has *)
(* nothing to lose.                                                        *)
LEMMA WithoutChannel ==
  ASSUME channel' = NoChannel,
         slots' \in [Slots -> {"UNUSED", "CONNECTING", "CONNECTED", "ERROR"}],
         links' \in [Slots -> {"none", "boot", "ops"}]
  PROVE  IInv'
  BY NoChannelType DEF IInv, Types, NoneIsDown, HasItsSlot, ConnectedChannelHasItsSlot

(* As long as slots, links and fd stay, so may the channel be changed by   *)
(* any operation that keeps its kind.                                      *)
LEMMA SameSlots ==
  ASSUME IInv, Kept(channel, channel'), slots' = slots, links' = links, fd' = fd
  PROVE  IInv'
  BY DEF IInv, Types, NoneIsDown, HasItsSlot, ConnectedChannelHasItsSlot, Kept

LEMMA KeptChannel == IInv => Kept(channel, channel)
  BY DEF IInv, Types, Kept

LEMMA FreeType ==
  ASSUME IInv, NEW set
  PROVE  /\ Free(set) \in [Slots -> {"UNUSED", "CONNECTING", "CONNECTED", "ERROR"}]
         /\ set = {} => Free(set) = slots
  BY DEF Free, IInv, Types

(* esp8266_drop_connection and esp8266_disconnect_tcp tell the client.     *)
LEMMA DropOK ==
  ASSUME IInv, NEW set, Drop(set), links' = links, fd' = fd
  PROVE  IInv'
  <1>1. CASE set # {} /\ channel.kind # "none"
    <2>1. channel' = NoChannel /\ slots' = Free(set)
      BY <1>1 DEF Drop, ChannelError
    <2>2. QED BY <2>1, FreeType, WithoutChannel DEF IInv, Types
  <1>2. CASE set = {}
    <2>1. slots' = slots /\ channel' = channel
      BY <1>2, FreeType DEF Drop
    <2>2. QED BY <2>1, KeptChannel, SameSlots
  <1>3. CASE channel.kind = "none"
    <2>1. channel' = channel /\ slots' = Free(set)
      BY <1>3 DEF Drop
    <2>2. QED BY <1>3, <2>1, FreeType DEF IInv, Types, NoneIsDown, HasItsSlot, ConnectedChannelHasItsSlot
  <1>4. QED BY <1>1, <1>2, <1>3

LEMMA DisconnectOK ==
  ASSUME IInv, NEW closed, Disconnect(closed)
  PROVE  IInv'
  <1>1. channel' = NoChannel
    BY DEF Disconnect, ChannelError
  <1>2. slots' \in [Slots -> {"UNUSED", "CONNECTING", "CONNECTED", "ERROR"}]
    BY FreeType DEF Disconnect, IInv, Types
  <1>3. links' \in [Slots -> {"none", "boot", "ops"}]
    BY DEF Disconnect, IInv, Types
  <1>4. QED BY <1>1, <1>2, <1>3, WithoutChannel
-----------------------------------------------------------------------------
LEMMA ModuleOK == ASSUME IInv, Module PROVE IInv'
  <1>1. CASE InitModule
    BY <1>1 DEF InitModule, Reset, Closed, IInv, Types, NoneIsDown, HasItsSlot, ConnectedChannelHasItsSlot
  <1>2. CASE ConnectWifi
    BY <1>2, KeptChannel, SameSlots DEF ConnectWifi, module
  <1>3. QED BY <1>1, <1>2 DEF Module

LEMMA StatusOK == ASSUME IInv, Status PROVE IInv'
  <1>1. CASE SkipStatus
    BY <1>1, KeptChannel, SameSlots DEF SkipStatus, module
  <1>2. CASE CheckStatus
    <2>1. CASE serial # <<>>
      BY <1>2, <2>1, KeptChannel, SameSlots DEF CheckStatus
    <2>2. CASE serial = <<>>
      BY <1>2, <2>2, DropOK DEF CheckStatus
    <2>3. QED BY <2>1, <2>2
  <1>3. CASE ProcessFails
    BY <1>3, WithoutChannel DEF ProcessFails, Restart, ChannelError, IInv, Types
  <1>4. QED BY <1>1, <1>2, <1>3 DEF Status

LEMMA ReadOK == ASSUME IInv, Read \/ StopReading PROVE IInv'
  <1>1. CASE StartFrame
    BY <1>1, KeptChannel, SameSlots DEF StartFrame, client
  <1>2. CASE EndFrame
    <2>1. Kept(channel, channel')
      BY <1>2, KeptChannel, ReceiveKeeps DEF EndFrame, IInv, Types
    <2>2. QED BY <1>2, <2>1, SameSlots DEF EndFrame, module
  <1>3. CASE FinishFrame
    BY <1>3, KeptChannel, SameSlots DEF FinishFrame, client, module
  <1>4. CASE StopReading
    BY <1>4, KeptChannel, SameSlots DEF StopReading, module
  <1>5. QED BY <1>1, <1>2, <1>3, <1>4 DEF Read
-----------------------------------------------------------------------------
LEMMA InitChannelOK == ASSUME IInv, InitChannel PROVE IInv'
  <1>1. channel' \in Channels /\ ~channel'.connected
    BY NewChannelType DEF InitChannel
  <1>2. QED BY <1>1 DEF InitChannel, module, IInv, Types, NoneIsDown, HasItsSlot, ConnectedChannelHasItsSlot

LEMMA ConnectTcpOK == ASSUME IInv, ConnectTcp PROVE IInv'
  <1> DEFINE w == Min(Slots \ Used)
             dialed == [channel EXCEPT !.connected = TRUE, !.ap = "CONNECTED"]
  <1>1. w \in Slots
    BY FreeSlot DEF ConnectTcp
  <1>2. dialed \in Channels /\ dialed.kind = channel.kind /\ dialed.connected
    BY DEF IInv, Types, Channels
  <1>3. channel' = Authorize(dialed)
    BY DEF ConnectTcp
  <1>4. channel' \in Channels /\ channel'.kind = channel.kind
    BY <1>2, <1>3, AuthorizeKeeps DEF Kept
  <1>5. slots' = Linked(w) /\ fd' = w /\ links' = [links EXCEPT ![w] = channel.kind]
    BY DEF ConnectTcp
  <1>6. channel.kind # "none"
    BY DEF ConnectTcp
  <1> HIDE DEF w, dialed
  <1>7. slots' \in [Slots -> {"UNUSED", "CONNECTING", "CONNECTED", "ERROR"}] /\ slots'[w] = "CONNECTED"
    BY <1>1, <1>5 DEF Linked, IInv, Types
  <1>8. links' \in [Slots -> {"none", "boot", "ops"}] /\ links'[w] = channel.kind
    BY <1>1, <1>5 DEF IInv, Types, Channels
  <1>9. QED
    BY <1>1, <1>4, <1>5, <1>6, <1>7, <1>8 DEF IInv, Types, NoneIsDown, HasItsSlot, ConnectedChannelHasItsSlot

LEMMA ConnectFailsOK == ASSUME IInv, ConnectFails PROVE IInv'
  <1>1. channel' = NoChannel
    BY DEF ConnectFails, Restart, ChannelError
  <1>2. \A w : Unlinked(w) \in [Slots -> {"UNUSED", "CONNECTING", "CONNECTED", "ERROR"}]
    BY DEF Unlinked, IInv, Types
  <1>3. \A w : [slots EXCEPT ![w] = "CONNECTING"] \in [Slots -> {"UNUSED", "CONNECTING", "CONNECTED", "ERROR"}]
    BY DEF IInv, Types
  <1>4. slots' \in [Slots -> {"UNUSED", "CONNECTING", "CONNECTED", "ERROR"}]
    <2>1. PICK w : slots' = slots \/ slots' = [slots EXCEPT ![w] = "CONNECTING"] \/ slots' = Unlinked(w)
      BY Zenon DEF ConnectFails
    <2>2. QED BY <1>2, <1>3, <2>1 DEF IInv, Types
  <1>5. links' \in [Slots -> {"none", "boot", "ops"}]
    <2>1. channel.kind \in {"none", "boot", "ops"} /\ links \in [Slots -> {"none", "boot", "ops"}]
      BY DEF IInv, Types, Channels
    <2>2. PICK w : links' \in {links, [links EXCEPT ![w] = IF @ = "none" /\ faults' # faults
                                                         THEN channel.kind ELSE @]}
      BY DEF ConnectFails, module
    <2>3. QED BY <2>1, <2>2
  <1>6. QED BY <1>1, <1>4, <1>5, WithoutChannel

LEMMA IdleOK == ASSUME IInv, Idle PROVE IInv'
  <1>1. PICK k \in Checks :
          /\ Check(k)
          /\ IF ReadyToTerminate(Checked(k)) THEN Disconnect(TRUE)
             ELSE channel' = Checked(k) /\ UNCHANGED <<slots, current, links>>
    BY DEF Idle
  <1>2. CASE ReadyToTerminate(Checked(k))
    BY <1>1, <1>2, DisconnectOK
  <1>3. CASE ~ReadyToTerminate(Checked(k))
    <2>1. Kept(channel, channel')
      BY <1>1, <1>3, CheckedKeeps DEF IInv, Types
    <2>2. QED BY <1>1, <1>3, <2>1, SameSlots DEF Check
  <1>4. QED BY <1>2, <1>3

LEMMA SendOK == ASSUME IInv, SendBusy \/ SendTcp \/ SendFails PROVE IInv'
  <1>1. CASE SendBusy
    <2>1. PICK k \in Checks : Check(k) /\ channel' = Checked(k)
      BY <1>1 DEF SendBusy
    <2>2. QED BY <1>1, <2>1, CheckedKeeps, SameSlots DEF SendBusy, Check, module, IInv, Types
  <1>2. CASE SendTcp
    <2>1. PICK k \in Checks :
            /\ Check(k)
            /\ \/ Disconnect(TRUE) \/ Disconnect(FALSE)
               \/ channel' = [Checked(k) EXCEPT !.out = <<>>] /\ UNCHANGED <<slots, current, links>>
      BY <1>2 DEF SendTcp, Sendable
    <2>2. CASE channel' = [Checked(k) EXCEPT !.out = <<>>] /\ UNCHANGED <<slots, current, links>>
      <3>1. Kept(channel, Checked(k))
        BY CheckedKeeps DEF IInv, Types
      <3>2. Checked(k).out \in Seq(Outgoing)
        BY <3>1 DEF Kept, Channels
      <3>3. Kept(channel, channel')
        BY <2>2, <3>1, <3>2, OutType DEF Kept, Channels
      <3>4. QED BY <2>1, <2>2, <3>3, SameSlots DEF Check
    <2>3. QED BY <2>1, <2>2, DisconnectOK
  <1>3. CASE SendFails
    BY <1>3, WithoutChannel DEF SendFails, ChannelError, IInv, Types
  <1>4. QED BY <1>1, <1>2, <1>3

LEMMA NoAccessPointOK == ASSUME IInv, NoAccessPoint PROVE IInv'
  BY KeptChannel, SameSlots DEF NoAccessPoint, module
-----------------------------------------------------------------------------
LEMMA SyncOK == ASSUME IInv, Sync PROVE IInv'
  <1>1. Kept(channel, channel')
    BY DEF Sync, IInv, Types, Kept, Channels
  <1>2. QED BY <1>1, SameSlots DEF Sync, module

(* A server may take a link away, and makes none. *)
LEMMA ServersOK == ASSUME IInv, Servers PROVE IInv'
  <1>1. UNCHANGED <<slots, channel, fd>>
    BY DEF Servers, Answer, Refuse, ServerDisconnects, LinkBreaks, client
  <1>2. PICK s \in Slots : links' = links \/ links' = [links EXCEPT ![s] = "none"]
    BY DEF Servers, Answer, Refuse, ServerDisconnects, LinkBreaks, Hangs
  <1>3. QED BY <1>1, <1>2 DEF IInv, Types, NoneIsDown, HasItsSlot, ConnectedChannelHasItsSlot

LEMMA StepOK == IInv /\ [Next]_vars => IInv'
  <1> SUFFICES ASSUME IInv, [Next]_vars PROVE IInv'
    OBVIOUS
  <1>1. CASE Next
    BY <1>1, ModuleOK, StatusOK, ReadOK, InitChannelOK, ConnectTcpOK, ConnectFailsOK, NoAccessPointOK,
       IdleOK, SendOK, SyncOK, ServersOK DEF Next, ProcessChannel
  <1>2. CASE UNCHANGED vars
    BY <1>2, KeptChannel, SameSlots DEF vars, client, module
  <1>3. QED BY <1>1, <1>2

(* Whatever the module, the network and the servers do: while the client   *)
(* believes its channel connected, the driver has that connection's slot   *)
(* connected, and the link behind it is the channel's own or gone          *)
(* (esp8266.c:1331 and esp8266_kaa_client.c:143 tell the client, :336      *)
(* forgets the channel when a send fails).                                 *)
THEOREM ConnectedHasItsSlot == Spec => []ConnectedChannelHasItsSlot
  <1>1. IInv => ConnectedChannelHasItsSlot
    BY DEF IInv
  <1>2. QED BY <1>1, InitOK, StepOK, PTL DEF Spec
=============================================================================
