------------------------------ MODULE Heartbeat ------------------------------
(***************************************************************************)
(* The shrine and one of its pools in time (heartbeat/core.rs): beats are  *)
(* pulses, in a channel of one, and messages, in the return channel; the   *)
(* main loop looks at them once a turn and starts a layer again that has   *)
(* ended or has been silent for longer than Limit.  The encoder is not     *)
(* here: while it works it has no pulse of its own.                        *)
(*                                                                         *)
(* PnLayers.tla models what a reboot does to the work; here is when it     *)
(* happens.  Times are ages, counted up to one past the longest that is    *)
(* asked about.                                                            *)
(***************************************************************************)
EXTENDS Naturals

CONSTANTS
  Limit,       \* the 160 seconds of heartbeat_expired
  BeatEvery,   \* the longest time a layer that is well lets pass between two beats
  MaxTurn,     \* bound: the longest turn of the main loop
  ReturnCap,   \* the capacity of the return channel
  InboxCap,    \* the capacity of the layer's own channel: room for every job that
               \* the gate of core.rs:174 lets into the queue
  MaxSends,    \* bound: jobs that are sent to the layer
  MaxFails     \* bound: times the layer gets stuck or ends

VARIABLES
  layer,     \* "well", "wedged" (runs and does nothing) or "ended"
  silence,   \* the age of last_heartbeat
  quiet,     \* the time since the layer last gave a sign of life that must arrive
  turn,      \* the time since the loop last drained the pulses
  at,        \* where the loop is: "drain", "commands", "receive" or "sends"
  pulse,     \* the pulses in the channel, 0 or 1
  returned,  \* the messages in the return channel
  inbox,     \* the messages in the layer's channel
  sends, fails, reboots

beatVars == <<layer, silence, quiet, turn, at, pulse, returned, inbox, sends, fails, reboots>>

Longest == Limit + MaxTurn
Older(age) == IF age < Longest THEN age + 1 ELSE age
Well == layer = "well"

\* is_alive and heartbeat_expired.
Expired(age) == age > Limit
Dead == layer = "ended" \/ Expired(silence)

-----------------------------------------------------------------------------
(***************************************************************************)
(* The layer                                                               *)
(***************************************************************************)
\* try_send: a pulse that finds the channel full is dropped.
Pulse ==
  /\ Well
  /\ quiet' = 0 /\ pulse' = 1
  /\ UNCHANGED <<layer, silence, turn, at, returned, inbox, sends, fails, reboots>>

\* A mutant: nothing is dropped.
ReportAlways ==
  /\ Well
  /\ returned' = returned + 1
  /\ UNCHANGED <<layer, silence, quiet, turn, at, pulse, inbox, sends, fails, reboots>>
\* Progress, sent with try_send: dropped when there is no room.
Report ==
  /\ Well
  /\ returned' = IF returned < ReturnCap THEN returned + 1 ELSE returned
  /\ UNCHANGED <<layer, silence, quiet, turn, at, pulse, inbox, sends, fails, reboots>>

\* A pool spawns a task for what it takes.
TakeWork ==
  /\ Well /\ inbox > 0
  /\ inbox' = inbox - 1
  /\ UNCHANGED <<layer, silence, quiet, turn, at, pulse, returned, sends, fails, reboots>>

Fails ==
  /\ Well /\ fails < MaxFails
  /\ layer' \in {"wedged", "ended"} /\ fails' = fails + 1
  /\ UNCHANGED <<silence, quiet, turn, at, pulse, returned, inbox, sends, reboots>>

\* A layer that is well beats in time, and a turn ends in time.
Tick ==
  /\ Well => quiet < BeatEvery
  /\ turn < MaxTurn
  /\ silence' = Older(silence) /\ quiet' = Older(quiet)
  /\ turn' = turn + 1
  /\ UNCHANGED <<layer, at, pulse, returned, inbox, sends, fails, reboots>>

-----------------------------------------------------------------------------
(***************************************************************************)
(* The shrine                                                              *)
(***************************************************************************)
\* The task is aborted and a new one gets new channels; the old messages and
\* the work in the old channel are gone.
Reboot(sent) ==
  /\ reboots' = (reboots + 1) % 4
  /\ layer' = "well"
  /\ silence' = 0 /\ quiet' = 0
  /\ pulse' = 0 /\ returned' = 0 /\ inbox' = sent

\* A mutant: pulses are thrown away without being looked at.
HeardNothing == silence
Heard == IF pulse > 0 THEN 0 ELSE silence

\* drain_heartbeats
Drain ==
  /\ at = "drain"
  /\ at' = "commands" /\ turn' = 0
  /\ IF layer = "ended" \/ Expired(Heard) THEN Reboot(0)
     ELSE /\ silence' = Heard /\ pulse' = 0
          /\ UNCHANGED <<layer, quiet, returned, inbox, reboots>>
  /\ UNCHANGED <<sends, fails>>

Put ==
  /\ inbox < InboxCap /\ inbox' = inbox + 1
  /\ UNCHANGED <<layer, silence, quiet, pulse, returned, reboots>>

\* send: a layer that is dead is started again first.
Send ==
  /\ at \in {"commands", "sends"} /\ sends < MaxSends
  /\ sends' = sends + 1
  /\ \/ Dead /\ Reboot(1)
     \/ ~Dead /\ Put
  /\ UNCHANGED <<at, turn, fails>>

\* A turn ends after a command, after a message, or after the sends.
GoOn ==
  /\ \/ at = "commands" /\ at' \in {"receive", "drain"}
     \/ at = "sends" /\ at' = "drain"
  /\ UNCHANGED <<layer, silence, quiet, turn, pulse, returned, inbox, sends, fails, reboots>>

\* receive: the first message found in any layer ends it, and is a beat of its
\* layer; only when there is none are the dead layers started again.
Receive ==
  /\ at = "receive"
  /\ \/ /\ returned > 0
        /\ returned' = returned - 1 /\ silence' = 0 /\ at' = "drain"
        /\ UNCHANGED <<layer, quiet, pulse, inbox, reboots>>
     \/ /\ at' = "drain"
        /\ UNCHANGED <<layer, silence, quiet, pulse, returned, inbox, reboots>>
     \/ returned = 0 /\ Dead /\ Reboot(0) /\ at' = "sends"
     \/ /\ returned = 0 /\ ~Dead /\ at' = "sends"
        /\ UNCHANGED <<layer, silence, quiet, pulse, returned, inbox, reboots>>
  /\ UNCHANGED <<turn, sends, fails>>

BeatInit ==
  /\ layer = "well" /\ at = "drain"
  /\ silence = 0 /\ quiet = 0 /\ turn = 0
  /\ pulse = 0 /\ returned = 0 /\ inbox = 0
  /\ sends = 0 /\ fails = 0 /\ reboots = 0

LayerStep == Pulse \/ Report \/ TakeWork
LoopTurn == Drain \/ Send \/ GoOn \/ Receive
BeatNext == LayerStep \/ Fails \/ Tick \/ LoopTurn
BeatSpec == BeatInit /\ [][BeatNext]_beatVars

-----------------------------------------------------------------------------
BeatTypeOK ==
  /\ layer \in {"well", "wedged", "ended"}
  /\ at \in {"drain", "commands", "receive", "sends"}
  /\ silence \in 0..Longest /\ quiet \in 0..Longest /\ turn \in 0..MaxTurn
  /\ pulse \in 0..1 /\ returned \in 0..ReturnCap /\ inbox \in 0..InboxCap

\* A layer is started again only when it ended, got stuck, or was silent for
\* longer than the limit: what a layer that is well was doing is never thrown
\* away, however late the loop looks at its pulses.
RestartedForCause == reboots' # reboots => ~Well \/ Expired(quiet)
=============================================================================
