----------------------------- MODULE CallWindow -----------------------------
(***************************************************************************)
(* The call window of a campaign, from the form of a client through the    *)
(* TIME columns of auto_dialer_campaigns to isWithinCallWindow, which the  *)
(* scheduler asks before it dials.                                         *)
(*                                                                         *)
(* A text is a time of day with or without its seconds; a day is numbered  *)
(* from Sunday as by Date.getDay.                                          *)
(***************************************************************************)
EXTENDS Naturals

CONSTANT LastMinute   \* bound: minutes of a day are 0 .. LastMinute

Minutes == 0 .. LastMinute
Days    == 0 .. 6
Null    == [kind |-> "null"]
Number(n)         == [kind |-> "number", value |-> n]
Text(m, seconds)  == [kind |-> "text", minute |-> m, seconds |-> seconds]

VARIABLES
  campaign,   \* allowWeekends and the two columns, as they are read back
  typed,      \* the window the client asked for
  now,        \* the scheduler's clock
  dialled     \* the scheduler dialled at `now`

vars == <<campaign, typed, now, dialled>>

(* What CreateAutoDialerCampaignDto accepts: HH:mm, or nothing.            *)
Typed == {Null} \cup {Text(m, FALSE) : m \in Minutes}

(* A TIME column gives back HH:MM:SS.                                      *)
ReadBack(text) == IF text = Null THEN Null ELSE Text(text.minute, TRUE)

(* The pattern ends after the minutes.                                     *)
parseCallWindow(text) ==
  IF text = Null \/ text.seconds THEN Null ELSE Number(text.minute)

Falsy(v) == v \in {Null, Number(0)}

isWithinCallWindow(c, at) ==
  LET start == parseCallWindow(c.start)
      end   == parseCallWindow(c.end)
  IN  /\ c.allowWeekends \/ at.day \notin {0, 6}
      /\ \/ Falsy(start) /\ Falsy(end)
         \/ /\ start # Null => at.minute >= start.value
            /\ end # Null => at.minute <= end.value

Init ==
  /\ typed \in [start : Typed, end : Typed]
  /\ \E weekends \in BOOLEAN :
       campaign = [allowWeekends |-> weekends, start |-> ReadBack(typed.start),
                   end |-> ReadBack(typed.end)]
  /\ now \in [day : Days, minute : Minutes]
  /\ dialled = FALSE

(* A tick of the scheduler, at any time.                                   *)
dispatchJobs ==
  /\ now' \in [day : Days, minute : Minutes]
  /\ dialled' = isWithinCallWindow(campaign, now')
  /\ UNCHANGED <<campaign, typed>>

Next == dispatchJobs

Spec == Init /\ [][Next]_vars

(* No call is made before the start of the window the client asked for, or *)
(* after its end.                                                          *)
WindowRespected ==
  dialled => /\ typed.start # Null => now.minute >= typed.start.minute
             /\ typed.end # Null => now.minute <= typed.end.minute
=============================================================================
