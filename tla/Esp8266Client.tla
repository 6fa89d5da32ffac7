--------------------------- MODULE Esp8266Client ---------------------------
(***************************************************************************)
(* The Kaa client for a microcontroller with an ESP8266 WiFi module: the   *)
(* driver of the module (esp8266.c), the channel without a socket of its   *)
(* own (esp8266_kaa_tcp_channel.c) and the client's loop                   *)
(* (esp8266_kaa_client.c), which has one channel at a time, bootstrap and  *)
(* operations in turn.                                                     *)
(*                                                                         *)
(* A turn of the loop has three stages: esp8266_check_status, the bytes    *)
(* that esp8266_process reads, and the channel.  A command blocks until    *)
(* the module answers and is one step, in which the frames that wait on    *)
(* the serial line are read as part of the answer and lost.  A frame       *)
(* carries one message of the server.                                      *)
(***************************************************************************)
EXTENDS Integers, FiniteSets, FiniteSetsExt, SequencesExt

CONSTANTS Limit,        \* TCP_CONNECTION_LIMIT
          NOps,         \* access points in the operations list
          FaultKinds, MaxFaults, MaxSyncs, MaxPings

ASSUME EspAssumption ==
  /\ Limit \in Nat \ {0} /\ NOps \in Nat \ {0}
  /\ FaultKinds \subseteq {"init", "wifi", "connect", "memory", "send", "command", "frame",
                           "timeout", "close", "refuse", "disconnect"}
  /\ MaxFaults \in Nat /\ MaxSyncs \in Nat /\ MaxPings \in Nat

VARIABLES
  slots,          \* tcp_id of esp8266_t
  rested,         \* the last turn saw no command and no frame: last_status_check
  ipd,            \* the frame that is being read: its state, slot and message
  connection,     \* connection_state of kaa_client_t
  channel,        \* the channel the client has, and its channel_state (connected)
  fd,             \* channel_fd
  bootstrapped,   \* boostrap_complete
  current,        \* the operations access point in use: 0 no list, NOps + 1 used up
  stage,          \* of the turn of the loop
  links,          \* the module's connections, by the kind of server
  owed,           \* what each server is about to send
  serial,         \* frames on their way to the microcontroller
  faults, syncs, pings

client == <<connection, channel, fd, bootstrapped, current, stage>>
module == <<links, owed, serial>>
bounds == <<faults, syncs, pings>>
vars == <<slots, ipd, rested, client, module, bounds>>

Slots == 0 .. Limit - 1
Quiet == [state |-> "UNDEF", slot |-> 0, msg |-> "NONE"]
NoChannel == [kind |-> "none", connected |-> FALSE, ap |-> "NOT_SET", host |-> FALSE, state |-> "UNDEFINED",
              pending |-> FALSE, out |-> <<>>, started |-> FALSE]
Closed == [s \in Slots |-> "none"]
Silent == [s \in Slots |-> <<>>]

Strikes(kind) == kind \in FaultKinds /\ faults < MaxFaults /\ faults' = faults + 1
NoFault == faults' = faults
-----------------------------------------------------------------------------
(* The channel. *)

HasList == current \in 1 .. NOps
NewChannel(kind) ==
  IF kind = "boot" \/ HasList
  THEN [NoChannel EXCEPT !.kind = kind, !.ap = "SET", !.host = TRUE]
  ELSE [NoChannel EXCEPT !.kind = kind]

(* A connection that ends while the channel expects an answer takes the    *)
(* operations channel to the next access point of the list.                *)
AfterFailure(ch) == IF ch.kind = "ops" /\ ch.started /\ HasList THEN current + 1 ELSE current

SocketIoError(ch) ==
  [ch EXCEPT !.state = "UNDEFINED", !.out = <<>>, !.started = FALSE,
             !.ap = IF ch.started /\ (ch.kind = "boot" \/ AfterFailure(ch) \in 1 .. NOps)
                    THEN "SET" ELSE "DISCONNECTED"]

Authorize(ch) ==
  [ch EXCEPT !.out = Append(@, "CONNECT"), !.state = "AUTHORIZING", !.started = TRUE,
             !.pending = FALSE]

(* What get_buffer_for_send queues. *)
QueuePending(ch) ==
  IF ~ch.pending THEN ch
  ELSE IF ch.state = "AUTHORIZED"
    THEN [ch EXCEPT !.out = Append(@, "SYNC"), !.pending = FALSE]
  ELSE IF ch.ap = "CONNECTED" /\ ch.state = "UNDEFINED" THEN Authorize(ch)
  ELSE ch

ReadyToTerminate(ch) == ch.state = "DISCONNECTING" /\ ch.out = <<>>

(* A bootstrap channel disconnects after its first KAASYNC, whatever is in it. *)
AfterSync(ch) ==
  IF ch.kind = "boot"
  THEN [ch EXCEPT !.started = FALSE, !.out = Append(@, "DISCONNECT"), !.state = "DISCONNECTING"]
  ELSE ch

(* The channel after a message; a list is also an access point for the     *)
(* operations channel, if that is the one.                                 *)
Receive(ch, m) ==
  CASE m = "CONNACK" /\ ch.state = "AUTHORIZING" -> [ch EXCEPT !.state = "AUTHORIZED"]
    [] m \in {"REFUSED", "CONNACK"} /\ ~(m = "CONNACK" /\ ch.state = "AUTHORIZING") ->
         SocketIoError(ch)
    [] m = "DISCONNECT" -> SocketIoError([ch EXCEPT !.started = TRUE])
    [] m = "SYNC" -> AfterSync(ch)
    [] m = "LIST" -> AfterSync(IF ch.kind = "ops" THEN [ch EXCEPT !.ap = "SET", !.host = TRUE] ELSE ch)
    [] OTHER -> ch

CurrentAfter(ch, m) ==
  CASE m = "LIST" -> 1
    [] m \in {"REFUSED", "CONNACK"} /\ ~(m = "CONNACK" /\ ch.state = "AUTHORIZING") -> AfterFailure(ch)
    [] m = "DISCONNECT" -> AfterFailure([ch EXCEPT !.started = TRUE])
    [] OTHER -> current

(* kaa_client_channel_error: the channel is told and then removed. *)
ChannelError ==
  /\ channel' = NoChannel
  /\ current' = AfterFailure(channel)

(* kaa_client_esp8266_error, and what a failed connect does *)
Restart == connection' = "UNINITED" /\ ChannelError
-----------------------------------------------------------------------------
(* The module's answers to commands. *)

Open == {s \in Slots : links[s] # "none"}
Used == {s \in Slots : slots[s] # "UNUSED"}
Reset == links' = Closed /\ owed' = Silent /\ serial' = <<>>

(* What the status answer is read as: the last connection listed is in     *)
(* tmp_array[0], every other entry of the array is 0.                      *)
Listed == IF Cardinality(Open) > 1 THEN {Max(Open), 0} ELSE Open
Dropped(i) == IF i = 0 THEN Max(Open) ELSE 0

(* The slots the status check drops. *)
StatusDrops == IF Open = {} THEN Used ELSE {Dropped(i) : i \in Used \ Listed}

Free(set) == [s \in Slots |-> IF s \in set THEN "UNUSED" ELSE slots[s]]

(* Mutant: the client is not told of a connection that ended. *)
DropQuietly(set) ==
  /\ slots' = Free(set)
  /\ UNCHANGED <<channel, current>>

(* esp8266_drop_connection: the client is told whichever connection it is. *)
Drop(set) ==
  /\ slots' = Free(set)
  /\ IF set # {} /\ channel.kind # "none" THEN ChannelError ELSE UNCHANGED <<channel, current>>

(* What a server makes of the messages of one send. *)
Replies(kind, m) ==
  CASE m = "CONNECT" -> <<"CONNACK", IF kind = "boot" THEN "LIST" ELSE "SYNC">>
    [] m = "SYNC" -> <<"SYNC">>
    [] m = "PING" -> <<"PINGRESP">>
    [] m = "DISCONNECT" -> <<"CLOSE">>

Deliver(out) ==
  owed' = [owed EXCEPT ![fd] = @ \o FlattenSeq([i \in DOMAIN out |-> Replies(links[fd], out[i])])]
-----------------------------------------------------------------------------
(* The loop while the module is not ready: kaa_client_state_process. *)

(* esp8266_init is refused while a frame is being read, and nobody reads   *)
(* the rest of it before the module is initialized.                        *)
InitModule ==
  /\ stage = "status" /\ connection = "UNINITED"
  /\ Reset
  /\ \/ ipd = Quiet /\ NoFault /\ connection' = "INIT_OK"
     \/ ipd = Quiet /\ Strikes("init") /\ connection' = connection
     \/ ipd # Quiet /\ NoFault /\ connection' = connection
  /\ UNCHANGED <<slots, ipd, channel, fd, bootstrapped, current, stage, syncs, pings>>
  /\ rested' = FALSE

ConnectWifi ==
  /\ stage = "status"
  /\ \/ connection = "INIT_OK" /\ NoFault /\ connection' = "CONNECTED"
     \/ connection = "INIT_OK" /\ Strikes("wifi") /\ connection' = "UNCONNECTED"
     \/ connection = "UNCONNECTED" /\ NoFault /\ connection' = "UNINITED"
  /\ UNCHANGED <<slots, ipd, channel, fd, bootstrapped, current, stage, module, syncs, pings>>
  /\ rested' = FALSE
-----------------------------------------------------------------------------
(* esp8266_process. *)

ToProcess == stage = "status" /\ connection = "CONNECTED" /\ stage' = "process"

SkipStatus == ToProcess /\ rested' = TRUE /\ UNCHANGED <<slots, ipd, connection, channel, fd, bootstrapped, current, module, bounds>>

(* A frame that comes before the answer ends the command with its own OK.  *)
CheckStatus ==
  /\ ToProcess /\ rested /\ ipd = Quiet
  /\ IF serial # <<>>
     THEN serial' = Tail(serial) /\ UNCHANGED <<slots, channel, current>>
     ELSE Drop(StatusDrops) /\ UNCHANGED serial
  /\ UNCHANGED <<ipd, connection, fd, bootstrapped, links, owed, bounds>>
  /\ rested' = FALSE

(* No answer to a status command, or a frame that does not parse. *)
ProcessFails ==
  /\ stage' = "channel"
  /\ \/ /\ stage = "status" /\ connection = "CONNECTED" /\ rested /\ ipd = Quiet
        /\ Strikes("command")
        /\ serial' = <<>>
     \/ /\ stage = "process" /\ ipd = Quiet /\ serial # <<>> /\ Strikes("frame")
        /\ serial' = Tail(serial)
  /\ Restart
  /\ UNCHANGED <<slots, ipd, fd, bootstrapped, links, owed, syncs, pings>>
  /\ rested' = FALSE

(* Frames are looked for only while a connection is thought to be open. *)
StartFrame ==
  /\ stage = "process" /\ ipd = Quiet /\ serial # <<>>
  /\ ipd' = IF \E s \in Slots : slots[s] = "CONNECTED"
            THEN [state |-> "READ_BYTES", slot |-> Head(serial).slot, msg |-> Head(serial).msg]
            ELSE Quiet
  /\ serial' = Tail(serial)
  /\ UNCHANGED <<rested, slots, client, links, owed, bounds>>

(* The receive callback: the bytes are the channel's, whichever connection *)
(* they came on.                                                           *)
EndFrame ==
  /\ stage = "process" /\ ipd.state = "READ_BYTES"
  /\ ipd' = [ipd EXCEPT !.state = "WAIT_FINISH"]
  /\ IF channel.kind = "none" THEN UNCHANGED <<channel, current>>
     ELSE channel' = Receive(channel, ipd.msg) /\ current' = CurrentAfter(channel, ipd.msg)
  /\ UNCHANGED <<rested, slots, connection, fd, bootstrapped, stage, module, bounds>>

FinishFrame ==
  /\ stage = "process" /\ ipd.state = "WAIT_FINISH"
  /\ ipd' = Quiet
  /\ UNCHANGED <<slots, client, module, bounds>>
  /\ rested' = FALSE

(* The time is up or the line is empty, in the middle of a frame perhaps. *)
StopReading ==
  /\ stage = "process" /\ stage' = "channel"
  /\ UNCHANGED <<rested, slots, ipd, connection, channel, fd, bootstrapped, current, module, bounds>>
-----------------------------------------------------------------------------
(* The channel's part of the turn. *)

ToLoop == stage = "channel" /\ stage' = "status"

(* Mutant: operations is next only when the list is used up. *)
InitChannelBoot ==
  /\ ToLoop /\ channel.kind = "none"
  /\ channel' = NewChannel(IF current > NOps THEN "ops" ELSE "boot")
  /\ bootstrapped' = ~bootstrapped
  /\ UNCHANGED <<rested, slots, ipd, connection, fd, current, module, bounds>>

(* No channel: the other kind is next, whatever became of the last one.    *)
InitChannel ==
  /\ ToLoop /\ channel.kind = "none"
  /\ channel' = NewChannel(IF bootstrapped THEN "ops" ELSE "boot")
  /\ bootstrapped' = ~bootstrapped
  /\ UNCHANGED <<rested, slots, ipd, connection, fd, current, module, bounds>>

(* kaa_tcp_channel_get_access_point returns a host name *)
Dialable == ~channel.connected /\ channel.ap = "SET" /\ channel.host

(* The callback of a connect marks the first slot found connecting. *)
Connecting(w) == {s \in Slots : slots[s] = "CONNECTING"} \cup {w}
Linked(w) == [s \in Slots |-> IF s \in {w, Min(Connecting(w))} THEN "CONNECTED" ELSE slots[s]]
Unlinked(w) == [s \in Slots |-> IF s = w THEN "UNUSED"
                                ELSE IF s = Min(Connecting(w)) THEN "ERROR" ELSE slots[s]]

(* esp8266_connect_tcp succeeds *)
ConnectTcp ==
  /\ ToLoop /\ channel.kind # "none" /\ Dialable
  /\ ipd = Quiet /\ Used # Slots
  /\ LET w == Min(Slots \ Used) IN
     /\ links[w] = "none"
     /\ slots' = Linked(w) /\ fd' = w
     /\ links' = [links EXCEPT ![w] = channel.kind]
  /\ channel' = Authorize([channel EXCEPT !.connected = TRUE, !.ap = "CONNECTED"])
  /\ serial' = <<>>
  /\ UNCHANGED <<ipd, connection, bootstrapped, current, owed, bounds>>
  /\ rested' = FALSE

(* esp8266_connect_tcp fails: no slot; a frame being read, or no memory,   *)
(* which leaves the slot; an error of the module, which still has that     *)
(* link, or of the network; no answer, although the link may be made.      *)
ConnectFails ==
  /\ ToLoop /\ channel.kind # "none" /\ Dialable
  /\ \/ Used = Slots /\ NoFault /\ UNCHANGED <<slots, module>>
     \/ /\ Used # Slots
        /\ LET w == Min(Slots \ Used) IN
           \/ /\ \/ ipd # Quiet /\ NoFault
                 \/ Strikes("memory")
              /\ slots' = [slots EXCEPT ![w] = "CONNECTING"]
              /\ UNCHANGED module
           \/ /\ ipd = Quiet
              /\ \/ links[w] # "none" /\ NoFault
                 \/ Strikes("connect")
              /\ slots' = Unlinked(w) /\ serial' = <<>>
              /\ links' \in {links, [links EXCEPT ![w] = IF @ = "none" /\ faults' # faults THEN channel.kind ELSE @]}
              /\ UNCHANGED owed
  /\ Restart /\ fd' = -1
  /\ UNCHANGED <<ipd, bootstrapped, syncs, pings>>
  /\ rested' = FALSE

(* Nothing to connect to. *)
NoAccessPoint ==
  /\ ToLoop /\ channel.kind # "none" /\ ~channel.connected /\ ~Dialable
  /\ UNCHANGED <<rested, slots, ipd, connection, channel, fd, bootstrapped, current, module, bounds>>

(* The keepalive check: nothing, a ping, or too long without an answer;    *)
(* then what is pending.                                                   *)
Checks == {"none", "ping", "timeout"}
Checked(k) ==
  QueuePending(CASE k = "none" -> channel
                 [] k = "ping" -> [channel EXCEPT !.out = Append(@, "PING")]
                 [] k = "timeout" -> [channel EXCEPT !.state = "DISCONNECTING"])
Check(k) ==
  /\ ToLoop /\ channel.connected
  /\ k # "none" => channel.state = "AUTHORIZED"
  /\ IF k = "ping" THEN pings < MaxPings /\ pings' = pings + 1 ELSE pings' = pings
  /\ UNCHANGED <<ipd, connection, fd, bootstrapped, syncs>>
CheckFault(k) == IF k = "timeout" THEN Strikes("timeout") ELSE NoFault

(* esp8266_disconnect_tcp, refused while a frame is being read: the slot   *)
(* is free whatever the module answers.                                    *)
Disconnect(closed) ==
  /\ slots' = IF ipd = Quiet THEN Free({fd}) ELSE slots
  /\ links' = IF ipd = Quiet /\ closed THEN [links EXCEPT ![fd] = "none"] ELSE links
  /\ ChannelError

(* Nothing to send: a channel that is disconnecting is done.               *)
Idle ==
  \E k \in Checks :
    /\ Check(k) /\ Checked(k).out = <<>> /\ CheckFault(k)
    /\ IF ReadyToTerminate(Checked(k))
       THEN Disconnect(TRUE)
       ELSE channel' = Checked(k) /\ UNCHANGED <<slots, current, links>>
    /\ serial' = IF ipd = Quiet /\ ReadyToTerminate(Checked(k)) THEN <<>> ELSE serial
    /\ owed' = [s \in Slots |-> IF links'[s] = "none" THEN <<>> ELSE owed[s]]
    /\ rested' = (rested /\ slots' = slots)

(* The driver is busy with a frame: later. *)
SendBusy ==
  \E k \in Checks :
    /\ Check(k) /\ Checked(k).out # <<>> /\ ipd # Quiet /\ CheckFault(k)
    /\ channel' = Checked(k)
    /\ UNCHANGED <<slots, rested, current, module>>

Sendable(k) == Check(k) /\ Checked(k).out # <<>> /\ ipd = Quiet

(* esp8266_send_tcp sends everything; a channel that is disconnecting has  *)
(* said so and is closed.                                                  *)
SendTcp ==
  \E k \in Checks :
    /\ Sendable(k) /\ slots[fd] = "CONNECTED" /\ links[fd] # "none"
    /\ serial' = <<>> /\ rested' = FALSE
    /\ IF Checked(k).state = "DISCONNECTING"
       THEN \/ CheckFault(k) /\ Disconnect(TRUE) /\ owed' = [owed EXCEPT ![fd] = <<>>]
            \/ k # "timeout" /\ Strikes("command") /\ Disconnect(FALSE) /\ Deliver(Checked(k).out)
       ELSE /\ channel' = [Checked(k) EXCEPT !.out = <<>>]
            /\ CheckFault(k) /\ Deliver(Checked(k).out)
            /\ UNCHANGED <<slots, current, links>>

(* It fails: the connection is gone, there is no confirmation in time or a *)
(* frame comes in its place, the data sent or not.  The connection is not  *)
(* closed and its slot stays.                                              *)
SendFails ==
  \E k \in Checks :
    /\ k # "timeout" /\ Sendable(k)
    /\ \/ (slots[fd] # "CONNECTED" \/ links[fd] = "none") /\ NoFault
       \/ Strikes("send")
    /\ serial' = <<>> /\ rested' = FALSE
    /\ IF links[fd] = "none" THEN UNCHANGED owed ELSE Deliver(Checked(k).out) \/ UNCHANGED owed
    /\ ChannelError
    /\ UNCHANGED <<slots, links>>

ProcessChannel ==
  InitChannel \/ ConnectTcp \/ ConnectFails \/ NoAccessPoint \/ Idle \/ SendBusy \/ SendTcp \/ SendFails
-----------------------------------------------------------------------------
(* The application, in external_process, and the servers. *)

Sync ==
  /\ stage = "status" /\ channel.kind = "ops" /\ syncs < MaxSyncs
  /\ syncs' = syncs + 1
  /\ channel' = [channel EXCEPT !.pending = TRUE,
                  !.ap = IF @ = "DISCONNECTED" /\ channel.state = "UNDEFINED" THEN "SET" ELSE @]
  /\ UNCHANGED <<rested, slots, ipd, connection, fd, bootstrapped, current, stage, module, faults, pings>>

Frame(s, m) == serial' = Append(serial, [slot |-> s, msg |-> m])
Hangs(s) == links' = [links EXCEPT ![s] = "none"] /\ owed' = [owed EXCEPT ![s] = <<>>]

Answer(s) ==
  /\ owed[s] # <<>>
  /\ IF Head(owed[s]) = "CLOSE" THEN Hangs(s) /\ UNCHANGED serial
     ELSE Frame(s, Head(owed[s])) /\ owed' = [owed EXCEPT ![s] = Tail(@)] /\ UNCHANGED links
  /\ UNCHANGED <<rested, slots, ipd, client, bounds>>

Refuse(s) ==
  /\ owed[s] # <<>> /\ Head(owed[s]) = "CONNACK" /\ Strikes("refuse")
  /\ Frame(s, "REFUSED") /\ owed' = [owed EXCEPT ![s] = <<"CLOSE">>]
  /\ UNCHANGED <<rested, slots, ipd, client, links, syncs, pings>>

ServerDisconnects(s) ==
  /\ links[s] # "none" /\ Strikes("disconnect")
  /\ Frame(s, "DISCONNECT") /\ owed' = [owed EXCEPT ![s] = <<"CLOSE">>]
  /\ UNCHANGED <<rested, slots, ipd, client, links, syncs, pings>>

LinkBreaks(s) ==
  /\ links[s] # "none" /\ Strikes("close")
  /\ Hangs(s)
  /\ UNCHANGED <<rested, slots, ipd, client, serial, syncs, pings>>
-----------------------------------------------------------------------------
Init ==
  /\ slots = [s \in Slots |-> "UNUSED"] /\ rested = FALSE /\ ipd = Quiet
  /\ connection = "UNINITED" /\ channel = NoChannel /\ fd = 0
  /\ bootstrapped = FALSE /\ current = 0 /\ stage = "status"
  /\ links = Closed /\ owed = Silent /\ serial = <<>>
  /\ faults = 0 /\ syncs = 0 /\ pings = 0

Module == InitModule \/ ConnectWifi
Status == SkipStatus \/ CheckStatus \/ ProcessFails
Read == StartFrame \/ EndFrame \/ FinishFrame
Servers == \E s \in Slots : Answer(s) \/ Refuse(s) \/ ServerDisconnects(s) \/ LinkBreaks(s)

Next == Module \/ Status \/ Read \/ StopReading \/ ProcessChannel \/ Sync \/ Servers

Spec == Init /\ [][Next]_vars

(* The loop does not stop; what is on the line is read in the end, the     *)
(* status is asked for whenever the driver has been idle for two seconds,  *)
(* and servers answer.                                                     *)
FairSpec ==
  /\ Spec
  /\ WF_vars(Module) /\ WF_vars(SkipStatus) /\ WF_vars(StopReading) /\ WF_vars(ProcessChannel)
  /\ SF_vars(Read) /\ SF_vars(CheckStatus)
  /\ \A s \in Slots : WF_vars(Answer(s))
-----------------------------------------------------------------------------
Messages == {"CONNACK", "REFUSED", "SYNC", "LIST", "PINGRESP", "DISCONNECT"}

Outgoing == {"CONNECT", "SYNC", "PING", "DISCONNECT"}
Channels == [kind : {"none", "boot", "ops"}, connected : BOOLEAN, host : BOOLEAN, pending : BOOLEAN, started : BOOLEAN,
             ap : {"NOT_SET", "SET", "CONNECTED", "DISCONNECTED"}, out : Seq(Outgoing),
             state : {"UNDEFINED", "AUTHORIZING", "AUTHORIZED", "DISCONNECTING"}]

(* The types of the variables. *)
TypeOK ==
  /\ slots \in [Slots -> {"UNUSED", "CONNECTING", "CONNECTED", "ERROR"}] /\ rested \in BOOLEAN
  /\ ipd \in [state : {"UNDEF", "READ_BYTES", "WAIT_FINISH"}, slot : Slots, msg : Messages \cup {"NONE"}]
  /\ connection \in {"UNINITED", "INIT_OK", "UNCONNECTED", "CONNECTED"}
  /\ channel \in Channels
  /\ fd \in Slots \cup {-1} /\ current \in 0 .. NOps + 1 /\ stage \in {"status", "process", "channel"}
  /\ links \in [Slots -> {"none", "boot", "ops"}] /\ serial \in Seq([slot : Slots, msg : Messages])

(* While the client believes its channel connected, the driver has the     *)
(* slot channel_fd connected and no other channel's server is on it:       *)
(* every path that frees a slot or makes a link, the wrong slots the       *)
(* status check drops included, tells the client (esp8266.c:1331,          *)
(* esp8266_kaa_client.c:143).                                              *)
ConnectedChannelHasItsSlot ==
  channel.connected => slots[fd] = "CONNECTED" /\ links[fd] \in {"none", channel.kind}

(* The status check leaves connections it finds open alone                 *)
(* (esp8266.c:1399: "Drop all connections not listed in status").          *)
DropsOnlyUnlisted ==
  [][stage = "status" => \A s \in Slots : links[s] # "none" => slots'[s] = slots[s]]_vars

Online == channel.kind = "ops" /\ channel.state = "AUTHORIZED"

(* The ways to hang: a channel without an access point, as operations gets *)
(* after a bootstrap channel that failed; a module that is not initialized *)
(* because a frame was cut short; a connection where neither side has      *)
(* anything to say, after an answer was lost or read by the wrong channel; *)
(* a slot without a connection, for which the status check drops another.  *)
Starved == channel.kind # "none" /\ ~channel.connected /\ ~Dialable
Wedged == connection = "UNINITED" /\ ipd # Quiet
Awaiting == ~Online /\ channel.state # "DISCONNECTING"
Mute == channel.connected /\ Awaiting /\ channel.out = <<>> /\ links[fd] # "none" /\ owed[fd] = <<>>
Haunted == \E s \in Used : links[s] = "none"

(* Once nothing fails any more the client is authorized by an operations   *)
(* server again and again, or hangs in one of the ways above.              *)
ReachesOperations == []<>Online \/ <>[](Starved \/ Wedged \/ Mute \/ Haunted)
=============================================================================
