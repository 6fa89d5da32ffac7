---------------------------- MODULE KaaTcpStream ----------------------------
(***************************************************************************)
(* A Kaa TCP channel and its server byte by byte: what TcpChannel takes    *)
(* for sequences of messages.  Reads and writes move any number of bytes,  *)
(* the out_buffer is bounded, and the parser carries its state from one    *)
(* read to the next.                                                       *)
(*                                                                         *)
(* One connection at a time; the access points of successive connections   *)
(* are those of KaaTransport, as is what becomes of a channel that is      *)
(* given another one while connected.  The in_buffer is empty between two  *)
(* events: what is read is parsed, and freed, by the event that reads it.  *)
(***************************************************************************)
EXTENDS KaaTcpParser, SequencesExt

CONSTANTS InSize, OutSize,   \* of the buffers, in bytes
          ConnectSize,       \* payloads of CONNECT
          SyncSizes,         \* and of the syncs of either side
          LastWords,         \* the server may go on after a message that closes the channel
          MaxConnections, MaxSent, MaxSyncs, MaxPings

ASSUME StreamAssumption ==
  /\ InSize \in Nat \ {0} /\ OutSize \in Nat
  /\ ConnectSize \in Nat /\ SyncSizes \subseteq Nat \ {0}
  /\ Size(Message(Connect, ConnectSize, 1)) <= OutSize
  /\ LastWords \in BOOLEAN
  /\ MaxConnections \in Nat /\ MaxSent \in Nat /\ MaxSyncs \in Nat /\ MaxPings \in Nat

VARIABLES bootstrap,   \* channel_operation_type is KAA_SERVER_BOOTSTRAP
          channel,     \* the channel, with the ghost of what it queued for this connection
          pending,     \* some service is to be synced
          pingDue,     \* half the keepalive interval has passed since the last ping
          server,      \* the server's parser
          arrived,     \* ghost: what the server got on this connection
          sent,        \* ghost: what the server sent on this connection
          toClient,    \* bytes of it on their way
          handled,     \* ghost: what the handlers of the parser got on this connection
          connections, syncs, pings   \* budgets

vars == <<bootstrap, channel, pending, pingDue, server, arrived, sent, toClient, handled,
          connections, syncs, pings>>

Accepted == Message(Connack, 2, 1)
Rejected == Message(Connack, 2, 0)
Foreign  == Message(Kaasync, 1, 0)
Goodbye  == Message(Disconnect, 2, 1)
Syncs    == {Message(Kaasync, n, 1) : n \in SyncSizes}
ServerMessages == {Accepted, Rejected, Foreign, Goodbye, Message(Pingresp, 0, 1)} \cup Syncs
Closing  == {Rejected, Foreign, Goodbye}

Channels ==
  [up : BOOLEAN, state : {"UNDEFINED", "AUTHORIZING", "AUTHORIZED", "DISCONNECTING"},
   parser : Parsers, out : Seq(Nat), queued : Seq([type : Nat, payload : Seq(Nat)])]

TypeOK ==
  /\ bootstrap \in BOOLEAN /\ pending \in BOOLEAN /\ pingDue \in BOOLEAN
  /\ channel \in Channels /\ Len(channel.out) <= OutSize
  /\ server \in Parsers
  /\ sent \in Seq(ServerMessages) /\ toClient \in Seq(Nat)
  /\ connections \in 0 .. MaxConnections /\ syncs \in 0 .. MaxSyncs /\ pings \in 0 .. MaxPings

Down == [up |-> FALSE, state |-> "UNDEFINED", parser |-> NewParser, out |-> <<>>, queued |-> <<>>]

Init ==
  /\ bootstrap \in BOOLEAN
  /\ channel = Down /\ pending = FALSE /\ pingDue = FALSE
  /\ server = NewParser /\ arrived = <<>>
  /\ sent = <<>> /\ toClient = <<>> /\ handled = <<>>
  /\ connections = 0 /\ syncs = 0 /\ pings = 0
-----------------------------------------------------------------------------
Fits(ch, m) == Len(ch.out) + Size(m) <= OutSize
Queue(ch, m) == [ch EXCEPT !.out = @ \o Encode(m), !.queued = Append(@, m)]

(* kaa_tcp_channel_socket_io_error *)
SocketIoError(ch) ==
  [ch EXCEPT !.up = FALSE, !.state = "UNDEFINED", !.out = <<>>, !.parser = NewParser]

(* kaa_tcp_channel_authorize *)
Authorize(ch) ==
  IF ch.state # "UNDEFINED" THEN ch
  ELSE [Queue(ch, Message(Connect, ConnectSize, 1)) EXCEPT !.state = "AUTHORIZING"]

OnConnack(ch, m) ==
  IF ch.state = "AUTHORIZING" /\ m = Accepted
  THEN [ch EXCEPT !.state = "AUTHORIZED"] ELSE SocketIoError(ch)

(* kaa_tcp_channel_disconnect_internal, of a bootstrap channel that has got *)
(* its answer.                                                             *)
OnKaasync(ch) ==
  IF bootstrap /\ Fits(ch, Goodbye)
  THEN [Queue(ch, Goodbye) EXCEPT !.state = "DISCONNECTING"] ELSE ch

Handle(ch, m) ==
  CASE m.type = Connack    -> OnConnack(ch, m)
    [] m.type = Disconnect -> SocketIoError(ch)
    [] m.type = Kaasync    -> OnKaasync(ch)
    [] OTHER               -> ch

(* Every event begins with kaa_tcp_channel_check_keepalive, and ends there *)
(* if it fails.                                                            *)
PingMessage == Message(Ping, 0, 1)
PingWanted == pingDue /\ channel.state = "AUTHORIZED"
KeepaliveFails == PingWanted /\ ~Fits(channel, PingMessage)
Kept == IF PingWanted THEN Queue(channel, PingMessage) ELSE channel
-----------------------------------------------------------------------------
(* The socket is connected: the channel authorizes, unless it did when the *)
(* write failed that ended the last connection (WriteFails).               *)
Connected ==
  /\ ~channel.up /\ connections < MaxConnections
  /\ connections' = connections + 1
  /\ channel' = Authorize([channel EXCEPT !.up = TRUE,
                            !.queued = IF channel.state = "UNDEFINED" THEN <<>> ELSE <<Last(@)>>])
  /\ pending' = (pending /\ channel.state # "UNDEFINED")
  /\ server' = NewParser /\ arrived' = <<>>
  /\ sent' = <<>> /\ toClient' = <<>> /\ handled' = <<>>
  /\ UNCHANGED <<bootstrap, pingDue, syncs, pings>>

(* External: the server answers a CONNECT, and then sends what it likes. *)
ServerSend ==
  /\ channel.up /\ arrived # <<>> /\ Len(sent) < MaxSent
  /\ \E m \in ServerMessages :
       /\ (m \in {Accepted, Rejected}) = (sent = <<>>)
       /\ LastWords \/ \A i \in DOMAIN sent : sent[i] \notin Closing
       /\ sent' = Append(sent, m)
       /\ toClient' = toClient \o Encode(m)
  /\ UNCHANGED <<bootstrap, channel, pending, pingDue, server, arrived, handled,
                 connections, syncs, pings>>

(* The bytes of one read are parsed and their messages handled, those after *)
(* a message that closed the channel too.                                  *)
AfterRead(ch, bytes) ==
  LET parsing == ProcessBuffer(ch.parser, bytes)
      after == [FoldLeft(Handle, ch, parsing.done) EXCEPT !.parser = parsing.parser]
  IN  [channel |-> IF parsing.error THEN SocketIoError(after) ELSE after, done |-> parsing.done]

(* FD_READ of kaa_tcp_channel_process_event.  A read that finds nothing     *)
(* fails to lock no bytes, which changes nothing.                          *)
Read ==
  /\ channel.up /\ ~KeepaliveFails
  /\ \E n \in 1 .. InSize :
       /\ n <= Len(toClient)
       /\ LET read == AfterRead(Kept, SubSeq(toClient, 1, n)) IN
            /\ channel' = read.channel
            /\ handled' = handled \o read.done
            /\ toClient' = IF read.channel.up THEN SubSeq(toClient, n + 1, Len(toClient)) ELSE <<>>
  /\ pingDue' = FALSE
  /\ UNCHANGED <<bootstrap, pending, server, arrived, sent, connections, syncs, pings>>

(* The connection ends or breaks: a read, a write or an exception says so, *)
(* and nothing else comes of it.                                           *)
Lost ==
  /\ channel.up /\ ~KeepaliveFails
  /\ channel' = SocketIoError(channel)
  /\ toClient' = <<>> /\ pingDue' = FALSE
  /\ UNCHANGED <<bootstrap, pending, server, arrived, sent, handled, connections, syncs, pings>>

(* Mutant: written in part is written. *)
RestOfNothing(ch, n) == [ch EXCEPT !.out = <<>>]

(* The channel after n bytes of the out_buffer are written. *)
Rest(ch, n) == [ch EXCEPT !.out = SubSeq(@, n + 1, Len(@))]

(* kaa_tcp_channel_write_pending_services: the services are no longer       *)
(* pending whether or not their sync fits.                                 *)
WritePending(ch, m) == IF Fits(ch, m) THEN Queue(ch, m) ELSE ch

(* FD_WRITE, the bytes arriving at the server as they are written.          *)
Wrote(bytes, ch) ==
  LET parsing == ProcessBuffer(server, bytes) IN
  /\ server' = parsing.parser
  /\ arrived' = arrived \o parsing.done
  /\ channel' = ch
  /\ toClient' = IF ch.up THEN toClient ELSE <<>>

MayPend == pending /\ (bootstrap \/ channel.state = "AUTHORIZED")

(* Mutant: the socket is asked for room only when services are pending. *)
ReadyForServices == MayPend

Ready == MayPend \/ channel.out # <<>>

(* Mutant: a channel that has to say goodbye hangs up. *)
HangsUpAtOnce(ch) == ch.state = "DISCONNECTING"

HangsUp(ch) == ch.state = "DISCONNECTING" /\ ch.out = <<>>

Write ==
  /\ channel.up /\ Ready /\ ~KeepaliveFails
  /\ \E n \in 0 .. OutSize :
       /\ n <= Len(Kept.out) /\ (n = 0 => Kept.out = <<>>)
       /\ LET ch == Rest(Kept, n)
              bytes == SubSeq(Kept.out, 1, n)
          IN
          \/ /\ HangsUp(ch)
             /\ Wrote(bytes, SocketIoError(ch))
             /\ UNCHANGED pending
          \/ /\ ~HangsUp(ch) /\ (ch.state = "DISCONNECTING" \/ ~MayPend)
             /\ Wrote(bytes, ch)
             /\ UNCHANGED pending
          \/ /\ ch.state # "DISCONNECTING" /\ MayPend
             /\ \E m \in Syncs :
                  LET next == WritePending(ch, m) IN
                  \E k \in 0 .. OutSize :
                    /\ k <= Len(next.out) /\ (next = ch => k = 0)
                    /\ Wrote(bytes \o SubSeq(next.out, 1, k), Rest(next, k))
             /\ pending' = FALSE
  /\ pingDue' = FALSE
  /\ UNCHANGED <<bootstrap, sent, handled, connections, syncs, pings>>

(* Mutant: the sync of a bootstrap channel stays in the out_buffer. *)
GoOnQueueing(ch) == IF bootstrap THEN Queue(ch, Message(Kaasync, 2, 1)) ELSE Authorize(ch)

(* What FD_WRITE does with services that are pending when its write has     *)
(* failed: if another access point was found it goes on as if the channel   *)
(* were still connected.  A bootstrap channel queues its sync, fails to    *)
(* write that too and is reset again; an operations channel authorizes.    *)
GoOnClosed(ch) == IF bootstrap THEN ch ELSE Authorize(ch)

(* FD_WRITE when the write of the out_buffer fails and it goes on. *)
WriteFails ==
  /\ channel.up /\ Ready /\ ~KeepaliveFails
  /\ Kept.out # <<>> /\ pending
  /\ channel' = GoOnClosed(SocketIoError(Kept))
  /\ toClient' = <<>> /\ pending' = FALSE /\ pingDue' = FALSE
  /\ UNCHANGED <<bootstrap, server, arrived, sent, handled, connections, syncs, pings>>

(* The loop was idle for get_max_timeout. *)
CheckKeepalive ==
  /\ channel.up /\ PingWanted /\ ~KeepaliveFails
  /\ channel' = Kept /\ pingDue' = FALSE
  /\ UNCHANGED <<bootstrap, pending, server, arrived, sent, toClient, handled,
                 connections, syncs, pings>>

TimePasses ==
  /\ channel.up /\ channel.state = "AUTHORIZED" /\ ~pingDue /\ pings < MaxPings
  /\ pingDue' = TRUE /\ pings' = pings + 1
  /\ UNCHANGED <<bootstrap, channel, pending, server, arrived, sent, toClient, handled,
                 connections, syncs>>

(* kaa_tcp_channel_sync_handler *)
Sync ==
  /\ syncs < MaxSyncs /\ ~pending
  /\ pending' = TRUE /\ syncs' = syncs + 1
  /\ UNCHANGED <<bootstrap, channel, pingDue, server, arrived, sent, toClient, handled,
                 connections, pings>>

Next ==
  \/ Connected \/ ServerSend \/ Read \/ Lost \/ Write \/ WriteFails
  \/ CheckKeepalive \/ TimePasses \/ Sync

Spec == Init /\ [][Next]_vars

(* The loop handles the events of a descriptor that select() reports, and   *)
(* reports it again while there is something to read, or room to write.    *)
FairSpec == Spec /\ WF_vars(Read) /\ WF_vars(Write) /\ WF_vars(CheckKeepalive)
-----------------------------------------------------------------------------
Inbound  == INSTANCE MessageChannel WITH put <- sent, got <- handled
Outbound == INSTANCE MessageChannel WITH put <- channel.queued, got <- arrived

(* However the bytes are cut, the handlers of the parser get the messages   *)
(* of this connection whole, once and in the order they were sent, and     *)
(* nothing of an earlier one (kaatcp_parser_process_buffer).               *)
ToClient == Inbound!Spec

(* However little the socket takes at a time and the buffer holds, what the *)
(* server reads on a connection is what was queued on it: no message is    *)
(* cut off, doubled or mixed with another (kaa_tcp_write_buffer, kaa_buffer.c). *)
ToServer == Outbound!Spec

(* A connection starts with nothing of an earlier one in the parser, the    *)
(* out_buffer and the channel state (kaa_tcp_channel_socket_io_error) but   *)
(* the CONNECT that an operations channel may have queued when a write     *)
(* failed, and then with all of it, nothing else, and a state that has it  *)
(* sent once.                                                              *)
CleanBetweenConnections ==
  ~channel.up =>
    LET clean == [Down EXCEPT !.queued = channel.queued]
    IN  \/ channel = clean
        \/ ~bootstrap /\ channel = [clean EXCEPT !.state = "AUTHORIZING",
                                     !.out = Encode(Message(Connect, ConnectSize, 1))]

(* A bootstrap channel that hangs up on its own accord has said goodbye: its *)
(* DISCONNECT, and all before it, has gone out (FD_WRITE while DISCONNECTING). *)
SaysGoodbye ==
  [][Write /\ ~channel'.up => arrived' = channel.queued /\ Last(arrived') = Goodbye]_vars

(* A ping is due, and does not fit: no event gets past the keepalive check, *)
(* so nothing is written that would make room for it.                      *)
Stuck == channel.up /\ KeepaliveFails

(* The out_buffer drains, unless the connection is lost or the channel gets  *)
(* stuck: with ToServer, what is queued arrives.                           *)
RequestsArrive == channel.out # <<>> ~> channel.out = <<>> \/ ~channel.up \/ Stuck

(* What the server sends on a connection is handled, likewise. *)
MessagesArrive == toClient # <<>> ~> sent = handled \/ ~channel.up \/ Stuck

(* kaa_tcp_channel_check_keepalive "checks whether a keepalive timeout      *)
(* occurred. If so, sends a keepalive message to the server".  Violated.   *)
KeepaliveIsSent ==
  channel.up /\ PingWanted ~> ~PingWanted
=============================================================================
