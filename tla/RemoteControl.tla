---------------------------- MODULE RemoteControl ----------------------------
(***************************************************************************)
(* The two threads of the remote control (kaa_demo.c of kaabotremote): the *)
(* keyboard thread sets the direction, the main thread compares it with    *)
(* the one it sent last and hands the change to the event manager, whose   *)
(* events reach the bot's motors in a later turn of the loop.  The threads *)
(* share `direction' and `is_shutdown' without any synchronization: each   *)
(* of the three reads of `direction' in kaa_demo_process_input is a step.  *)
(*                                                                         *)
(* Ghost: a direction carries the number of the key press that set it.     *)
(***************************************************************************)
EXTENDS Naturals, Sequences

CONSTANTS Directions, Stop,
          MaxPresses,      \* key presses
          MaxFailures      \* failed polls, events the SDK cannot take, failed attachments

ASSUME RemoteAssumption ==
  Stop \in Directions /\ MaxPresses \in Nat /\ MaxFailures \in Nat

VARIABLES direction, isShutdown,  \* shared by the threads
          kbd,                    \* the keyboard thread: reading, or done
          pc,                     \* the main thread: the next thing it does
          prev,                   \* prev_direction
          pending,                \* events the SDK holds
          wire,                   \* events on their way to the bot
          motors,                 \* the event the bot obeys
          failures

vars == <<direction, isShutdown, kbd, pc, prev, pending, wire, motors, failures>>

Presses == [way : Directions, press : Nat]
Initial == [way |-> Stop, press |-> 0]
-----------------------------------------------------------------------------
(* Keyboard thread. *)

Press(d) ==
  /\ kbd = "reading"
  /\ direction.press < MaxPresses
  /\ direction' = [way |-> d, press |-> direction.press + 1]
  /\ UNCHANGED <<isShutdown, kbd, pc, prev, pending, wire, motors, failures>>

(* Mutant: the thread ends without telling the main thread. *)
QuitSilently ==
  /\ kbd = "reading"
  /\ kbd' = "done"
  /\ UNCHANGED <<isShutdown, direction, pc, prev, pending, wire, motors, failures>>

Quit ==
  /\ kbd = "reading"
  /\ isShutdown' = TRUE
  /\ kbd' = "done"
  /\ UNCHANGED <<direction, pc, prev, pending, wire, motors, failures>>
-----------------------------------------------------------------------------
(* Main thread. *)

TestShutdown ==
  /\ pc = "test"
  /\ pc' = IF isShutdown THEN "join" ELSE "net"
  /\ UNCHANGED <<direction, isShutdown, kbd, prev, pending, wire, motors, failures>>

(* select() and what it leads to: nothing, ... *)
NetQuiet ==
  /\ pc = "net"
  /\ pc' = "compare"
  /\ UNCHANGED <<direction, isShutdown, kbd, prev, pending, wire, motors, failures>>

(* Mutant: only the oldest event is written, and all are dropped. *)
SendOldest ==
  /\ pc = "net" /\ pending # <<>>
  /\ wire' = Append(wire, Head(pending))
  /\ pending' = <<>>
  /\ pc' = "compare"
  /\ UNCHANGED <<direction, isShutdown, kbd, prev, motors, failures>>

(* ... a sync of all the events that wait, ... *)
NetSend ==
  /\ pc = "net" /\ pending # <<>>
  /\ wire' = wire \o pending
  /\ pending' = <<>>
  /\ pc' = "compare"
  /\ UNCHANGED <<direction, isShutdown, kbd, prev, motors, failures>>

(* ... the news that the user cannot be attached, ... *)
AttachFailed ==
  /\ pc = "net" /\ failures < MaxFailures
  /\ failures' = failures + 1
  /\ isShutdown' = TRUE
  /\ pc' = "compare"
  /\ UNCHANGED <<direction, kbd, prev, pending, wire, motors>>

(* ... or an error (a signal is one), which ends the loop. *)
PollFailed ==
  /\ pc = "net" /\ failures < MaxFailures
  /\ failures' = failures + 1
  /\ pc' = "join"
  /\ UNCHANGED <<direction, isShutdown, kbd, prev, pending, wire, motors>>

Compare ==
  /\ pc = "compare"
  /\ pc' = IF direction.way # prev THEN "send" ELSE "test"
  /\ UNCHANGED <<direction, isShutdown, kbd, prev, pending, wire, motors, failures>>

(* Mutants: a new event goes first; the event's direction is never set.    *)
PushFront(events, d)  == <<d>> \o events
PushUnset(events, d)  == Append(events, [way |-> "unset", press |-> d.press])

(* The event goes to the end of the event manager's list. *)
PushBack(events, d) == Append(events, d)

(* Reads the direction again; a failed send is only logged. *)
SendEvent ==
  /\ pc = "send"
  /\ \/ /\ pending' = PushBack(pending, direction)
        /\ UNCHANGED failures
     \/ /\ failures < MaxFailures
        /\ failures' = failures + 1
        /\ UNCHANGED pending
  /\ pc' = "remember"
  /\ UNCHANGED <<direction, isShutdown, kbd, prev, wire, motors>>

(* And again, to remember what was sent. *)
Remember ==
  /\ pc = "remember"
  /\ prev' = direction.way
  /\ pc' = "test"
  /\ UNCHANGED <<direction, isShutdown, kbd, pending, wire, motors, failures>>

(* pthread_join, then kaa_demo_destroy frees what was never sent. *)
Join ==
  /\ pc = "join" /\ kbd = "done"
  /\ pc' = "ended"
  /\ pending' = <<>>
  /\ UNCHANGED <<direction, isShutdown, kbd, prev, wire, motors, failures>>
-----------------------------------------------------------------------------
(* Server and bot: events arrive in order, each sets the motors. *)
Obey ==
  /\ wire # <<>>
  /\ motors' = Head(wire)
  /\ wire' = Tail(wire)
  /\ UNCHANGED <<direction, isShutdown, kbd, pc, prev, pending, failures>>
-----------------------------------------------------------------------------
Init ==
  /\ direction = Initial /\ isShutdown = FALSE
  /\ kbd = "reading"
  /\ pc = "test"
  /\ prev = Stop
  /\ pending = <<>> /\ wire = <<>>
  /\ motors = Initial
  /\ failures = 0

Keyboard == Quit \/ \E d \in Directions : Press(d)

Main == TestShutdown \/ NetQuiet \/ NetSend \/ AttachFailed \/ PollFailed
          \/ Compare \/ SendEvent \/ Remember \/ Join

Next == Keyboard \/ Main \/ Obey

Spec == Init /\ [][Next]_vars

(* The main thread is scheduled, it can write again and again, and what is *)
(* written arrives.  Nothing makes the user press a key.                   *)
FairSpec == Spec /\ WF_vars(Main) /\ SF_vars(NetSend) /\ WF_vars(Obey)
-----------------------------------------------------------------------------
(* The threads' variables have their types. *)
TypeOK ==
  /\ direction \in Presses /\ motors \in Presses
  /\ isShutdown \in BOOLEAN
  /\ kbd \in {"reading", "done"}
  /\ pc \in {"test", "net", "compare", "send", "remember", "join", "ended"}
  /\ prev \in Directions
  /\ pending \in Seq(Presses) /\ wire \in Seq(Presses)
  /\ failures \in Nat

(* The bot never returns to an earlier key press, whatever the threads'    *)
(* interleaving in kaa_demo_process_input.                                 *)
NeverObeysAnOlderPress == [][motors'.press >= motors.press]_vars

(* An event that the event manager has taken reaches the bot, unless the   *)
(* program leaves its loop first (kaa_demo_event_loop).                    *)
AcceptedEventsArrive ==
  \A p \in 1..MaxPresses :
    (\E i \in 1..Len(pending) : pending[i].press = p)
      ~> (motors.press >= p \/ pc \in {"join", "ended"})

(* 'q' ends the program, also when the loop has ended before: the main     *)
(* thread is not left waiting in select() or pthread_join.                 *)
QuitEndsProgram == kbd = "done" ~> pc = "ended"

(* While the program runs, the bot comes to go where the last key says     *)
(* ("Direction changed", kaa_demo.c:200).                                  *)
BotFollowsKeyboard ==
  direction.way # motors.way ~> (direction.way = motors.way \/ isShutdown)
=============================================================================
