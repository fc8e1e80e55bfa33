------------------------------- MODULE EslEvents -------------------------------
(***************************************************************************)
(* The event connection to FreeSWITCH (freeswitch/fs-events.service.ts):   *)
(* one ESL connection at a time, replaced three seconds after an error.    *)
(***************************************************************************)

VARIABLES
  connection,      \* "none", "opening", "open", or "dead": lost unnoticed
  reconnectTimer   \* armed

link == <<connection, reconnectTimer>>

(* onModuleInit and the timer connect; a connection that is there is kept. *)
connect ==
  /\ reconnectTimer' = FALSE
  /\ connection' = IF connection = "none" THEN "opening" ELSE connection

onModuleInit == connection = "none" /\ ~reconnectTimer /\ connect
TimerFires   == reconnectTimer /\ connect

(* The callback subscribes to the events. *)
Connected == connection = "opening" /\ connection' = "open" /\ UNCHANGED reconnectTimer

(* Variant: the broken connection is kept. *)
ReconnectKeeps ==
  /\ reconnectTimer' = TRUE
  /\ UNCHANGED connection

(* cleanupConnection drops the connection with its listeners and the timer,*)
(* and the timer is then armed; an armed timer is left as it is.           *)
scheduleReconnect ==
  /\ reconnectTimer' = TRUE
  /\ connection' = IF reconnectTimer THEN connection ELSE "none"

(* error, end and disconnect, of a connection that has its listeners.      *)
ConnectionLost == connection \in {"opening", "open", "dead"} /\ scheduleReconnect

(* The peer is gone without a word: no listener is called.                 *)
Silence == connection = "open" /\ connection' = "dead" /\ UNCHANGED reconnectTimer

LinkStep == onModuleInit \/ TimerFires \/ Connected

LinkTypeOK == connection \in {"none", "opening", "open", "dead"} /\ reconnectTimer \in BOOLEAN
=============================================================================
