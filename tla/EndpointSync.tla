---------------------------- MODULE EndpointSync ----------------------------
(***************************************************************************)
(* Client syncs and server syncs: the platform protocol                    *)
(* (kaa_platform_protocol.c) with the event manager (EventManager), the    *)
(* user manager (kaa_user.c), the profile manager (kaa_profile.c), the     *)
(* configuration manager (kaa_configuration_manager.c) and the persisted   *)
(* status (kaa_status.c), over the operations channel and a server.        *)
(*                                                                         *)
(* A sync is one message with the extensions of some services, and is      *)
(* built and handled in one step, as in the code.  The channel is what the *)
(* managers can see of it: "down", "up" (connected, but the CONNECT could  *)
(* not be built) or "authorized"; messages arrive in order and are lost    *)
(* with the connection.                                                    *)
(***************************************************************************)
EXTENDS EventManager, SequencesExt

CONSTANTS MaxEvents, MaxBlocks,
          MaxAttaches,
          RequestIds,       \* how many values request_id has: 2^32
          MishapKinds, MaxMishaps

ASSUME SyncAssumption ==
  /\ MaxEvents \in Nat /\ MaxBlocks \in Nat /\ EventIds = 1 .. MaxEvents
  /\ MaxAttaches \in Nat
  /\ RequestIds \in Nat /\ RequestIds > 1
  /\ MishapKinds \subseteq {"listeners", "memory", "full", "corrupt", "notify", "forget", "publish",
                     "drop", "restart"}
  /\ MaxMishaps \in Nat

VARIABLES
  requestId,        \* of kaa_platform_protocol_t
  manager,          \* the event manager
  user,             \* the user manager: user_info (its number), is_waiting_...
  resync,           \* need_resync of the profile manager
  config,           \* the configuration in memory, by its version
  status, saved,    \* kaa_status_t, and the status file
  stored,           \* the configuration file
  wanted,           \* services the channel has to sync
  link, toServer, toClient,   \* the operations channel
  server,
  accepted, delivered,  \* ghosts: events in the order accepted, and arrived
  created, attaches,    \* events and attach calls so far
  asked,                \* ghost: attach calls the channel has taken
  missed,               \* ghost: news of the attachment was lost
  mishaps, happened     \* how many so far, and their kinds

managers == <<requestId, manager, user, resync, config, status>>
files    == <<saved, stored>>
channel  == <<wanted, link, toServer, toClient>>
ghosts   == <<accepted, delivered, created, attaches, asked, missed>>
trouble  == <<mishaps, happened>>
vars     == <<managers, files, channel, server, ghosts, trouble>>

(* Mutant: CONNECT does not ask for the configuration. *)
ServicesButConfig == {"profile", "user", "event"}

(* The services CONNECT syncs. *)
Services == {"profile", "user", "event", "config"}

NONE == -1
Status == [registered : BOOLEAN, attached : BOOLEAN, configSeq : Nat]
NewStatus == [registered |-> FALSE, attached |-> FALSE, configSeq |-> 0]

(* One of the things that may happen, while the bound allows it. *)
Happens(kind) ==
  /\ kind \in MishapKinds /\ mishaps < MaxMishaps
  /\ mishaps' = mishaps + 1
  /\ happened' = happened \cup {kind}

NoUser == [info |-> 0, waiting |-> FALSE]
-----------------------------------------------------------------------------
(* The application. *)

Fits(n) == created + n <= MaxEvents

(* kaa_event_manager_send_event *)
Send ==
  /\ Fits(1)
  /\ manager' = SendEvent(manager, created + 1)
  /\ accepted' = Append(accepted, created + 1)
  /\ created' = created + 1
  /\ wanted' = wanted \cup {"event"}
  /\ UNCHANGED <<requestId, user, resync, config, status, files, link, toServer, toClient, server,
                 delivered, attaches, asked, missed, trouble>>

(* kaa_event_create_transaction *)
OpenBlock ==
  /\ manager.trx < MaxBlocks
  /\ manager' = CreateBlock(manager)
  /\ UNCHANGED <<requestId, user, resync, config, status, files, channel, server, ghosts, trouble>>

(* kaa_event_manager_add_event_to_transaction *)
AddEvent ==
  /\ Fits(1)
  /\ \E i \in DOMAIN manager.blocks : manager' = AddToBlock(manager, i, created + 1)
  /\ created' = created + 1
  /\ UNCHANGED <<requestId, user, resync, config, status, files, channel, server,
                 accepted, delivered, attaches, asked, missed, trouble>>

(* kaa_event_finish_transaction: an empty block asks for no sync. *)
SendBlock ==
  /\ \E i \in DOMAIN manager.blocks :
       LET events == manager.blocks[i].events IN
       /\ manager' = FinishBlock(manager, i)
       /\ accepted' = accepted \o Ids(events)
       /\ wanted' = IF events = <<>> THEN wanted ELSE wanted \cup {"event"}
  /\ UNCHANGED <<requestId, user, resync, config, status, files, link, toServer, toClient, server,
                 delivered, created, attaches, asked, missed, trouble>>

(* kaa_event_remove_transaction *)
DropBlock ==
  /\ \E i \in DOMAIN manager.blocks : manager' = WithoutBlock(manager, i)
  /\ UNCHANGED <<requestId, user, resync, config, status, files, channel, server, ghosts, trouble>>

(* kaa_event_manager_find_event_listeners.  The applications here call it  *)
(* when the attachment has succeeded, see HandleAttach; one that calls it  *)
(* at another time may stop the channel from syncing at all.               *)
LookForListeners ==
  /\ Happens("listeners")
  /\ manager' = FindListeners(manager)
  /\ wanted' = wanted \cup {"event"}
  /\ UNCHANGED <<requestId, user, resync, config, status, files, link, toServer, toClient, server,
                 ghosts>>

(* kaa_user_manager_attach_to_user: the new credentials replace the old.   *)
AttachToUser(u) == [info |-> u, waiting |-> FALSE]

(* Mutant: the channel is not told. *)
AttachQuietly ==
  /\ attaches < MaxAttaches
  /\ attaches' = attaches + 1
  /\ user' = AttachToUser(attaches + 1)
  /\ UNCHANGED <<requestId, manager, resync, config, status, files, channel, server,
                 accepted, delivered, created, asked, missed, trouble>>

Attach ==
  /\ attaches < MaxAttaches
  /\ attaches' = attaches + 1
  /\ user' = AttachToUser(attaches + 1)
  /\ wanted' = wanted \cup {"user"}
  /\ UNCHANGED <<requestId, manager, resync, config, status, files, link, toServer, toClient, server,
                 accepted, delivered, created, asked, missed, trouble>>
-----------------------------------------------------------------------------
(* A client sync is built. *)

(* kaa_user_request_serialize: sent once; no lost connection clears it.    *)
SerializeUser == IF user.info # 0 THEN [user EXCEPT !.waiting = TRUE] ELSE user
AttachWritten == IF user.waiting THEN 0 ELSE user.info

(* Mutant: the wrong way round. *)
KeyAfterRegistration == status.registered

(* The profile has the public key until the endpoint is registered. *)
KeyWritten == ~status.registered

(* The extensions of svcs.  The profile is left out unless a resync is due. *)
ClientSync(svcs, id) ==
  [id |-> id,
   event |-> "event" \in svcs,
   wantsNumber |-> "event" \in svcs /\ ~manager.synced,
   events    |-> IF "event" \in svcs THEN EventsWritten(manager) ELSE <<>>,
   listeners |-> IF "event" \in svcs THEN RequestsWritten(manager) ELSE {},
   attach    |-> IF "user" \in svcs THEN AttachWritten ELSE 0,
   profile   |-> "profile" \in svcs /\ resync,
   key       |-> "profile" \in svcs /\ resync /\ KeyWritten,
   config    |-> IF "config" \in svcs THEN <<status.configSeq, config>> ELSE <<>>]

NextId == (requestId + 1) % RequestIds

(* kaa_client_sync_serialize succeeds. *)
Serialize(svcs) ==
  /\ "event" \in svcs => EventsFit(manager)
  /\ requestId' = NextId
  /\ manager' = IF "event" \in svcs THEN SerializeEvents(manager, NextId) ELSE manager
  /\ user' = IF "user" \in svcs THEN SerializeUser ELSE user

(* It fails at an event there is no room for, or at an extension written   *)
(* after the events have taken its room; the request id is taken back.     *)
SerializeFails(svcs) ==
  /\ "event" \in svcs /\ ~EventsFit(manager)
  /\ \/ \E n \in 1 .. Len(Outgoing(manager)) : manager' = NumberFirst(manager, n)
     \/ manager' = SerializeEvents(manager, NextId)
  /\ user' \in {user, IF "user" \in svcs THEN SerializeUser ELSE user}
  /\ UNCHANGED requestId

(* The allocator finds no buffer: the request id is taken back although it *)
(* has not been advanced.                                                  *)
NoBuffer ==
  /\ requestId' = (requestId - 1) % RequestIds
  /\ UNCHANGED <<manager, user>>

Hand(svcs) ==
  /\ toServer' = Append(toServer, ClientSync(svcs, NextId))
  /\ asked' = IF "user" \in svcs THEN asked \cup ({AttachWritten} \ {0}) ELSE asked

(* kaa_tcp_channel_authorize: CONNECT carries a sync of every service.  If *)
(* it cannot be built the channel has nothing to write and asks the socket *)
(* for no room: nothing is tried again until the connection is lost.       *)
Connect ==
  /\ link = "down"
  /\ wanted' = {}
  /\ \/ Serialize(Services) /\ Hand(Services) /\ link' = "authorized" /\ UNCHANGED trouble
     \/ SerializeFails(Services) /\ link' = "up" /\ UNCHANGED <<toServer, asked, trouble>>
     \/ NoBuffer /\ Happens("memory") /\ link' = "up" /\ UNCHANGED <<toServer, asked>>
  /\ UNCHANGED <<resync, config, status, files, toClient, server, accepted, delivered, created,
                 attaches, missed>>

(* kaa_tcp_channel_write_pending_services: the services are dropped from   *)
(* the pending ones whatever comes of it.  The out_buffer may lack room    *)
(* for a message that has been built.                                      *)
Sync ==
  /\ link = "authorized" /\ wanted # {}
  /\ wanted' = {}
  /\ \/ Serialize(wanted) /\ Hand(wanted) /\ UNCHANGED trouble
     \/ Serialize(wanted) /\ Happens("full") /\ UNCHANGED <<toServer, asked>>
     \/ SerializeFails(wanted) /\ UNCHANGED <<toServer, asked, trouble>>
     \/ NoBuffer /\ Happens("memory") /\ UNCHANGED <<toServer, asked>>
  /\ UNCHANGED <<resync, config, status, files, link, toClient, server, accepted, delivered, created,
                 attaches, missed>>
-----------------------------------------------------------------------------
(* The server. *)

NewServer == [session |-> FALSE, last |-> 0, known |-> FALSE, registered |-> FALSE, attached |-> FALSE,
              verifying |-> <<>>, version |-> 0]

NoNews == [id |-> 0, event |-> FALSE, number |-> NONE, listeners |-> {}, attach |-> "none",
           profile |-> "none", config |-> <<>>]

Numbers(events) == {events[i].num : i \in DOMAIN events}

(* Events with a number above the highest one seen are new. *)
NewEvents(events) ==
  LET new[i \in 0 .. Len(events)] ==
        IF i = 0 THEN <<>>
        ELSE IF events[i].num > server.last THEN Append(new[i - 1], events[i]) ELSE new[i - 1]
  IN  new[Len(events)]

(* The server answers with the request's id: the number if asked for, the  *)
(* listeners, a resync when it does not know the profile, the              *)
(* configuration if the endpoint has another.                              *)
Reply(m) ==
  [id |-> m.id,
   event     |-> m.event,
   number    |-> IF m.wantsNumber THEN server.last ELSE NONE,
   listeners |-> m.listeners,
   attach    |-> "none",
   profile   |-> IF m.profile THEN "ok" ELSE IF server.known THEN "none" ELSE "resync",
   config    |-> IF m.config = <<>> \/ m.config = <<server.version, server.version>> THEN <<>>
                 ELSE IF m.config[2] = server.version THEN <<server.version, NONE>>
                 ELSE <<server.version, server.version>>]

Serve ==
  /\ toServer # <<>>
  /\ LET m == Head(toServer)
     IN  /\ delivered' = delivered \o Ids(NewEvents(m.events))
         /\ toClient' = Append(toClient, Reply(m))
         /\ server' = [server EXCEPT
                         !.session = TRUE,
                         !.last = CHOOSE n \in Numbers(m.events) \cup {@} :
                                    \A k \in Numbers(m.events) \cup {@} : k <= n,
                         !.known = @ \/ m.profile,
                         !.registered = @ \/ m.key,
                         !.verifying = IF m.attach = 0 THEN @ ELSE Append(@, m.attach)]
  /\ toServer' = Tail(toServer)
  /\ UNCHANGED <<managers, files, wanted, link, accepted, created, attaches, asked, missed, trouble>>

(* The server sends something of its own to an endpoint whose CONNECT it   *)
(* has seen on this connection.                                            *)
Push(news) ==
  IF server.session THEN toClient' = Append(toClient, news) ELSE UNCHANGED toClient

(* The credentials of the oldest attach request have been verified. *)
Verify ==
  /\ server.verifying # <<>>
  /\ \E ok \in BOOLEAN :
       /\ server' = [server EXCEPT !.verifying = Tail(@), !.attached = @ \/ ok]
       /\ Push([NoNews EXCEPT !.attach = IF ok THEN "success" ELSE "failure"])
       /\ missed' = (missed \/ (ok /\ ~server.session))
  /\ UNCHANGED <<managers, files, wanted, link, toServer, accepted, delivered, created, attaches, asked,
                 trouble>>

(* Another endpoint of the user attaches or detaches this one. *)
Notify ==
  /\ Happens("notify")
  /\ server' = [server EXCEPT !.attached = ~@]
  /\ Push([NoNews EXCEPT !.attach = IF server.attached THEN "detached" ELSE "attached"])
  /\ missed' = (missed \/ ~server.session)
  /\ UNCHANGED <<managers, files, wanted, link, toServer, accepted, delivered, created, attaches, asked>>

(* The endpoint moves to an operations server that lacks its profile. *)
ForgetProfile ==
  /\ Happens("forget")
  /\ server' = [server EXCEPT !.known = FALSE]
  /\ UNCHANGED <<managers, files, channel, ghosts>>

(* A new configuration is published. *)
Publish ==
  /\ Happens("publish")
  /\ server' = [server EXCEPT !.version = @ + 1]
  /\ Push([NoNews EXCEPT !.config = <<server.version + 1, server.version + 1>>])
  /\ UNCHANGED <<managers, files, wanted, link, toServer, ghosts>>
-----------------------------------------------------------------------------
(* A server sync is handled: kaa_platform_protocol_process_server_sync. *)

(* kaa_event_handle_server_sync *)
HandleEvents(a) ==
  IF ~a.event THEN manager
  ELSE LET s == IF a.number = NONE THEN manager ELSE Synchronize(manager, a.number)
       IN  AnswerListeners(Acknowledge(s, a.id), a.listeners)

(* kaa_user_handle_server_sync: an answer ends the wait, whichever call it *)
(* answers; when the attachment has succeeded, the application looks for   *)
(* listeners (kaa_on_attach_success).                                      *)
HandleAttach(a, m) == IF a.attach = "success" THEN FindListeners(m) ELSE m

Answers(a) == a.attach \in {"success", "failure"}

(* Mutant: a detach notification is taken for news of nothing. *)
AttachedForever(a) == status.attached \/ a.attach \in {"success", "attached"}

Attached(a) ==
  CASE a.attach \in {"success", "attached"} -> TRUE
    [] a.attach = "detached" -> FALSE
    [] OTHER -> status.attached

(* Mutant: a resync is noted, the channel is not told. *)
RequestedNoResync(a) ==
  (IF a.event /\ a.number # NONE /\ manager.pending # <<>> THEN {"event"} ELSE {})
    \cup (IF a.attach = "success" THEN {"event"} ELSE {})

(* What the handlers ask the channel to sync. *)
Requested(a) ==
  (IF a.event /\ a.number # NONE /\ manager.pending # <<>> THEN {"event"} ELSE {})
    \cup (IF a.attach = "success" THEN {"event"} ELSE {})
    \cup (IF a.profile = "resync" THEN {"profile"} ELSE {})

(* Mutant: the first configuration is taken for the default one. *)
HasBodyLater(a) == a.config # <<>> /\ a.config[2] # NONE /\ a.config[1] > 1

HasBody(a) == a.config # <<>> /\ a.config[2] # NONE
ConfigSeq(a) == IF a.config = <<>> THEN status.configSeq ELSE a.config[1]

(* The events, user and profile extensions. *)
HandleNews(a) ==
  /\ manager' = HandleAttach(a, HandleEvents(a))
  /\ user' = IF Answers(a) THEN NoUser ELSE user
  /\ resync' = IF a.profile = "none" THEN resync ELSE a.profile = "resync"

StatusAfter(a) ==
  [registered |-> status.registered \/ a.profile # "none",
   attached |-> Attached(a),
   configSeq |-> ConfigSeq(a)]

(* Everything is understood: the status is saved. *)
Receive ==
  /\ toClient # <<>>
  /\ LET a == Head(toClient)
     IN  /\ HandleNews(a)
         /\ status' = StatusAfter(a)
         /\ saved' = status'
         /\ IF HasBody(a) THEN config' = a.config[2] /\ stored' = a.config[2]
                         ELSE UNCHANGED <<config, stored>>
         /\ wanted' = wanted \cup Requested(a) \cup (IF HasBody(a) THEN {"config"} ELSE {})
  /\ toClient' = Tail(toClient)
  /\ UNCHANGED <<requestId, link, toServer, server, ghosts, trouble>>

(* The configuration cannot be deserialized: extensions after it are not   *)
(* looked at, its sequence number has been taken, nothing is saved.        *)
ReceiveCorrupt ==
  /\ toClient # <<>> /\ HasBody(Head(toClient))
  /\ Happens("corrupt")
  /\ LET a == Head(toClient)
     IN  \/ /\ HandleNews(a)
            /\ status' = StatusAfter(a)
            /\ wanted' = wanted \cup Requested(a)
            /\ UNCHANGED missed
         \/ /\ status' = [status EXCEPT !.configSeq = ConfigSeq(a)]
            /\ missed' = (missed \/ a.attach # "none")
            /\ UNCHANGED <<manager, user, resync, wanted>>
  /\ toClient' = Tail(toClient)
  /\ UNCHANGED <<requestId, config, files, link, toServer, server, accepted, delivered, created, attaches,
                 asked>>
-----------------------------------------------------------------------------
(* Failures. *)

LostNews == \E i \in DOMAIN toClient : toClient[i].attach # "none"

(* The connection is lost, with what is on its way. *)
Drop ==
  /\ link # "down" /\ Happens("drop")
  /\ link' = "down" /\ toServer' = <<>> /\ toClient' = <<>>
  /\ missed' = (missed \/ LostNews)
  /\ server' = [server EXCEPT !.session = FALSE]
  /\ UNCHANGED <<managers, files, wanted, accepted, delivered, created, attaches, asked>>

(* The program stops, perhaps while it handles a server sync: between      *)
(* ext_configuration_store and kaa_status_save.  What it starts with is    *)
(* what the files say.                                                     *)
Restart ==
  /\ Happens("restart")
  /\ \/ UNCHANGED stored
     \/ toClient # <<>> /\ HasBody(Head(toClient)) /\ stored' = Head(toClient).config[2]
  /\ requestId' = 0 /\ manager' = NewEventManager /\ user' = NoUser /\ resync' = TRUE
  /\ config' = stored' /\ status' = saved
  /\ wanted' = {} /\ link' = "down" /\ toServer' = <<>> /\ toClient' = <<>>
  /\ accepted' = delivered
  /\ missed' = (missed \/ LostNews \/ saved.attached # status.attached)
  /\ server' = [server EXCEPT !.session = FALSE]
  /\ UNCHANGED <<saved, delivered, created, attaches, asked>>
-----------------------------------------------------------------------------
Init ==
  /\ requestId = 0 /\ manager = NewEventManager /\ user = NoUser /\ resync = TRUE
  /\ config = 0 /\ status = NewStatus /\ saved = NewStatus /\ stored = 0
  /\ wanted = {} /\ link = "down" /\ toServer = <<>> /\ toClient = <<>>
  /\ server = NewServer
  /\ accepted = <<>> /\ delivered = <<>> /\ created = 0 /\ attaches = 0 /\ asked = {}
  /\ missed = FALSE
  /\ mishaps = 0 /\ happened = {}

Application == Send \/ OpenBlock \/ AddEvent \/ SendBlock \/ DropBlock \/ LookForListeners \/ Attach
Endpoint == Connect \/ Sync \/ Receive \/ ReceiveCorrupt
Server == Serve \/ Verify \/ Notify \/ ForgetProfile \/ Publish
Next == Application \/ Endpoint \/ Server \/ Drop \/ Restart

Spec == Init /\ [][Next]_vars

(* The channel connects, writes and reads, the server answers; nobody has  *)
(* to send, attach, fail or restart.                                       *)
Fairness == WF_vars(Connect) /\ WF_vars(Sync) /\ WF_vars(Receive) /\ WF_vars(Serve) /\ WF_vars(Verify)

FairSpec == Spec /\ Fairness
-----------------------------------------------------------------------------
Attachments == {"none", "success", "failure", "attached", "detached"}
Configs == {<<>>} \cup (Nat \X (Nat \cup {NONE}))

ClientSyncs ==
  [id : Nat, event : BOOLEAN, wantsNumber : BOOLEAN, events : Seq(Event), listeners : SUBSET Nat,
   attach : Nat, profile : BOOLEAN, key : BOOLEAN, config : Configs]
ServerSyncs ==
  [id : Nat, event : BOOLEAN, number : Nat \cup {NONE}, listeners : SUBSET Nat,
   attach : Attachments, profile : {"none", "ok", "resync"}, config : Configs]
Servers ==
  [session : BOOLEAN, last : Nat, known : BOOLEAN, registered : BOOLEAN, attached : BOOLEAN, verifying : Seq(Nat),
   version : Nat]

TypeOK ==
  /\ requestId \in 0 .. RequestIds - 1
  /\ manager \in EventManagers
  /\ user \in [info : Nat, waiting : BOOLEAN]
  /\ resync \in BOOLEAN /\ config \in Nat /\ stored \in Nat
  /\ status \in Status /\ saved \in Status
  /\ wanted \subseteq {"profile", "user", "event", "config"} /\ link \in {"down", "up", "authorized"}
  /\ toServer \in Seq(ClientSyncs) /\ toClient \in Seq(ServerSyncs)
  /\ server \in Servers
  /\ accepted \in Seq(EventIds) /\ delivered \in Seq(EventIds)
  /\ created \in 0 .. MaxEvents /\ attaches \in Nat /\ asked \subseteq Nat
  /\ missed \in BOOLEAN
  /\ mishaps \in 0 .. MaxMishaps /\ happened \subseteq MishapKinds

Held == {Outgoing(manager)[i].id : i \in DOMAIN Outgoing(manager)}

(* Events arrive in the order in which the application sent them, singly   *)
(* or in blocks, none twice and none left out, over lost answers, resent   *)
(* messages and renumbering, and the endpoint drops none that has not      *)
(* arrived (kaa_event.c).                                                  *)
Service == INSTANCE EventService WITH held <- Held, arrived <- delivered
EventsInOrder == Service!Spec

(* Nothing failed on the way to the channel, and the program ran on. *)
Undisturbed == happened \cap {"listeners", "memory", "full", "corrupt", "restart"} = {}

(* An event that has been sent arrives at last, however often the          *)
(* connection is lost meanwhile.                                           *)
EventsArrive ==
  \A e \in EventIds :
    e \in ToSet(accepted) /\ Undisturbed ~> e \in ToSet(delivered) \/ ~Undisturbed

(* There is room for every event that would be written: the size           *)
(* kaa_event_request_get_size computes is that of what                     *)
(* kaa_event_request_serialize writes.                                     *)
AlwaysWritable == EventsFit(manager)

(* Credentials given to kaa_user_manager_attach_to_user reach the channel, *)
(* unless the application replaces them.                                   *)
AttachIsSent ==
  \A u \in 1 .. MaxAttaches :
    user.info = u /\ Undisturbed ~> u \in asked \/ attaches > u \/ ~Undisturbed

(* An attach call is answered at last (kaa_user_handle_server_sync).       *)
AttachIsAnswered == user.info # 0 /\ Undisturbed ~> user.info = 0 \/ ~Undisturbed

(* The endpoint takes itself to be attached exactly when it is, as long as *)
(* news of it is not lost with a connection (kaa_user_handle_server_sync). *)
AttachmentAgrees == ~missed /\ ~LostNews => status.attached = server.attached

(* An endpoint that leaves its public key out of the profile is one the    *)
(* server has it of (kaa_profile_need_profile_resync, is_registered).      *)
RegisteredIsKnown == status.registered \/ saved.registered => server.registered

(* A server that does not have the profile asks for it and gets it.        *)
ProfileArrives ==
  ~server.known /\ toServer # <<>> /\ Undisturbed ~> server.known \/ ~Undisturbed

(* The endpoint does not tell the server of a configuration newer than the *)
(* one it has, nor do its files, even when it stops between writing the    *)
(* two; only after a body it cannot read it may (kaa_configuration_manager *)
(* .c takes the sequence number first).                                    *)
NeverClaimsNewer ==
  "corrupt" \notin happened => status.configSeq <= config /\ saved.configSeq <= stored

(* The configuration of the endpoint becomes the one published last.       *)
ConfigArrives ==
  \A v \in 1 .. MaxMishaps :
    server.version = v /\ Undisturbed ~> config = v \/ server.version > v \/ ~Undisturbed
=============================================================================
