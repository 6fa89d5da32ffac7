----------------------------- MODULE TcpChannel -----------------------------
(***************************************************************************)
(* One Kaa TCP channel (kaa_tcp_channel.c) as a value: the record a        *)
(* kaa_tcp_channel_t holds and the functions of that file that touch no    *)
(* other channel, each an operator from channel to channel.  KaaTransport  *)
(* composes two such channels with the bootstrap manager, the event loop   *)
(* and the servers.                                                        *)
(*                                                                         *)
(* A socket is modelled together with its connection: the descriptor is    *)
(* open iff sock.st # "none", and closing it forgets everything in flight. *)
(* Messages are atomic; the byte level of the buffers and of the parser is *)
(* abstracted to sequences of messages.                                    *)
(***************************************************************************)
EXTENDS Naturals, Sequences

CONSTANTS OpsServices,   \* services of the operations channel
          OutCapacity    \* messages the out_buffer can hold

ASSUME OutCapacityAssumption == OutCapacity \in Nat \ {0}
ASSUME OpsServicesAssumption == "bootstrap" \notin OpsServices

Channels == {"boot", "ops"}
Services == OpsServices \cup {"bootstrap"}

(* kaa_tcp_channel_create gives the bootstrap service a channel of its own. *)
Supported == [boot |-> {"bootstrap"}, ops |-> OpsServices]

APStates      == {"NOT_SET", "SET", "IN_PROGRESS", "RESOLVED", "CONNECTING", "CONNECTED"}
ChannelStates == {"UNDEFINED", "AUTHORIZING", "AUTHORIZED", "DISCONNECTING"}
SyncStates    == {"UNDEFINED", "STARTED", "FINISHED"}

(* What the client sends, with the services whose data the message carries, *)
(* and what the server sends.                                              *)
ClientMsgs == [type : {"CONNECT", "KAASYNC", "PING", "DISCONNECT"}, svcs : SUBSET Services]
ServerMsgs == {"CONNACK", "REFUSED", "KAASYNC", "EMPTY", "PINGRESP",
               "DISCONNECT", "INTERNAL_ERROR", "GARBAGE"}

Msg(type, svcs) == [type |-> type, svcs |-> svcs]

(* A connection: syn (connect() in progress), up, refused, closed (by the  *)
(* peer); peer is the access point dialled; session is the server's view:  *)
(* it has accepted a CONNECT on this very connection.                      *)
Sockets == [st : {"none", "syn", "up", "refused", "closed"}, peer : Nat, session : BOOLEAN,
            c2s : Seq(ClientMsgs), s2c : Seq(ServerMsgs)]
NoSocket == [st |-> "none", peer |-> 0, session |-> FALSE, c2s |-> <<>>, s2c |-> <<>>]

(* leaked records that a descriptor was overwritten or dropped while open. *)
ChannelRecords ==
  [ap : APStates, id : Nat, addr : Nat, queries : Seq(Nat), sock : Sockets, leaked : BOOLEAN,
   state : ChannelStates, sync : SyncStates, pending : SUBSET Services,
   out : Seq(ClientMsgs), inbuf : Seq(ServerMsgs), due : BOOLEAN]

NewChannel ==
  [ap |-> "NOT_SET", id |-> 0, addr |-> 0, queries |-> <<>>, sock |-> NoSocket, leaked |-> FALSE,
   state |-> "UNDEFINED", sync |-> "UNDEFINED", pending |-> {},
   out |-> <<>>, inbuf |-> <<>>, due |-> FALSE]

FdOpen(ch)  == ch.sock.st # "none"
HasRoom(ch) == Len(ch.out) < OutCapacity
-----------------------------------------------------------------------------
(* Access point. *)

(* Closes the descriptor only in the states in which it should be open. The *)
(* channel state, the sync state and the buffers are left as they are.     *)
ReleaseAccessPoint(ch) ==
  [ch EXCEPT !.leaked = @ \/ (FdOpen(ch) /\ ch.ap \notin {"CONNECTED", "CONNECTING"}),
             !.sock = NoSocket, !.ap = "NOT_SET", !.id = 0]

SetAccessPoint(ch, id) ==
  LET released == IF ch.ap # "NOT_SET" THEN ReleaseAccessPoint(ch) ELSE ch
  IN  [released EXCEPT !.ap = "SET", !.id = id]

(* Mutant: dialling does not start a sync operation, so its failure is not  *)
(* reported to the bootstrap manager.                                      *)
ConnectUnreported(ch, ok) ==
  IF ok
  THEN [ch EXCEPT !.leaked = @ \/ FdOpen(ch),
                  !.sock = [NoSocket EXCEPT !.st = "syn", !.peer = ch.addr],
                  !.ap = "CONNECTING"]
  ELSE ch

(* ok: socket() and the non-blocking connect() succeed. *)
ConnectAccessPoint(ch, ok) ==
  IF ok
  THEN [ch EXCEPT !.leaked = @ \/ FdOpen(ch),
                  !.sock = [NoSocket EXCEPT !.st = "syn", !.peer = ch.addr],
                  !.ap = "CONNECTING", !.sync = "STARTED"]
  ELSE ch

(* The sync handler dials again when only the connection is down. *)
NeedsConnection(ch) ==
  /\ ch.ap = "RESOLVED"
  /\ ch.pending # {}
  /\ ch.state = "UNDEFINED"

(* Mutants: the channel stays authorized; what was queued outlives the      *)
(* connection.                                                             *)
CloseKeepsState(ch) == [ch EXCEPT !.ap = "RESOLVED", !.sock = NoSocket]
ResetInputOnly(ch)  == [ch EXCEPT !.inbuf = <<>>, !.sync = "UNDEFINED"]

(* socket_io_error, before and after it tells the bootstrap manager. *)
CloseSocket(ch) ==
  [ch EXCEPT !.ap = "RESOLVED", !.state = "UNDEFINED", !.sock = NoSocket]

ResetChannel(ch) ==
  [ch EXCEPT !.inbuf = <<>>, !.out = <<>>, !.sync = "UNDEFINED"]
-----------------------------------------------------------------------------
(* Requests.  Each drops the pending services whether or not it succeeds.  *)

UpdatePending(ch, svcs) == [ch EXCEPT !.pending = @ \cup svcs]
DeletePending(ch, svcs) == [ch EXCEPT !.pending = @ \ svcs]

Queue(ch, m) == [ch EXCEPT !.out = Append(@, m)]

(* CONNECT carries a sync of every supported service. *)
Authorize(ch, c) ==
  IF ch.state # "UNDEFINED" THEN ch
  ELSE LET idle == DeletePending(ch, ch.pending)
       IN  IF HasRoom(ch)
           THEN [Queue(idle, Msg("CONNECT", Supported[c]))
                    EXCEPT !.state = "AUTHORIZING", !.sync = "STARTED"]
           ELSE idle

AuthorizeFails(ch) == ch.state = "UNDEFINED" /\ ~HasRoom(ch)

(* Mutant: the list of services is read after it was cut down. *)
QueueSyncLate(ch, svcs) ==
  LET rest == DeletePending(ch, svcs)
  IN  IF HasRoom(ch) THEN Queue(rest, Msg("KAASYNC", svcs \cap rest.pending)) ELSE rest

QueueSync(ch, svcs) ==
  LET rest == DeletePending(ch, svcs)
  IN  IF HasRoom(ch) THEN Queue(rest, Msg("KAASYNC", svcs)) ELSE rest

Ping(ch) ==
  IF HasRoom(ch) THEN [Queue(ch, Msg("PING", {})) EXCEPT !.due = FALSE] ELSE ch

DisconnectInternal(ch) ==
  IF HasRoom(ch)
  THEN [Queue(ch, Msg("DISCONNECT", {})) EXCEPT !.state = "DISCONNECTING"]
  ELSE ch

(* The bytes the kernel took leave the out_buffer. *)
Transmit(ch) == [ch EXCEPT !.sock.c2s = @ \o ch.out, !.out = <<>>]

(* n messages arrive in the in_buffer. *)
Receive(ch, n) ==
  [ch EXCEPT !.inbuf = @ \o SubSeq(ch.sock.s2c, 1, n),
             !.sock.s2c = SubSeq(@, n + 1, Len(@))]
-----------------------------------------------------------------------------
(* kaa_tcp_channel_is_ready *)

IsReadyRead(ch) == ch.ap = "CONNECTED"

(* Mutant: only the buffer counts, not the services still to be synced. *)
HasOutput(ch) == ch.ap = "CONNECTING" \/ (ch.ap = "CONNECTED" /\ ch.out # <<>>)

IsReadyWrite(ch) ==
  \/ ch.ap = "CONNECTING"
  \/ /\ ch.ap = "CONNECTED"
     /\ \/ ch.pending # {} /\ ("bootstrap" \in ch.pending \/ ch.state = "AUTHORIZED")
        \/ ch.out # <<>>

(* What select() adds: the kernel has something to read, or takes data. *)
Readable(ch)  == ch.sock.s2c # <<>> \/ ch.sock.st = "closed"
Writable(ch)  == ch.sock.st \in {"up", "refused", "closed"}
=============================================================================
