-------------------------------- MODULE Realtime --------------------------------
(***************************************************************************)
(* The live views: the gateways that push registrations and calls to the   *)
(* browsers (freeswitch/fs-registrations.gateway.ts, fs-calls.gateway.ts), *)
(* and the pages that show them (registrations-realtime.tsx and            *)
(* calls-realtime.tsx), on top of the event connection.                    *)
(*                                                                         *)
(* A page is kept current in three ways.  The gateway pushes a snapshot to *)
(* a room when an event arrives, and every five seconds when the hash of   *)
(* the room changed; the page fetches one itself a moment after an event.  *)
(* All three read FreeSWITCH first and use the answer later.               *)
(*                                                                         *)
(* A room is what a subscription sees (profile, domain, extensions), and   *)
(* the calls are one room more.  The state of a room is one of two: what a *)
(* change back does to hashes and late answers is among the behaviours.    *)
(***************************************************************************)
EXTENDS Naturals, FiniteSets, EslEvents

CONSTANTS
  Clients,       \* browsers
  Pages,         \* what each shows: "registrations", "calls" or "other"; the combinations
  Domains,       \* rooms of registrations
  Default,       \* the room of a socket that has not asked for one
  Workers,       \* handlers, polls and fetches at work at the same time
  Faults,        \* subset of {"loss", "link", "silence", "drop", "restart"}
  MaxEvents      \* bound: changes, refreshes by hand, and faults

ASSUME RealtimeAssumption ==
  /\ Pages \subseteq [Clients -> {"registrations", "calls", "other"}]
  /\ Default \in Domains /\ MaxEvents \in Nat

VARIABLES
  state,       \* what FreeSWITCH has for each room
  page,        \* the page each browser shows
  want,        \* the room the page is about
  sock,        \* its socket: "off", "on", or "refused" by the server for good
  view,        \* what the page shows
  filter,      \* the page of registrations has a search term or a status chosen
  timer,       \* a fetch of its own is scheduled
  asks,        \* subscriptions on their way or waiting in the server
  sub,         \* subscriptions: the room of each socket
  ghosts,      \* rooms subscribed by sockets that are gone
  hash,        \* of the last snapshot emitted to a room
  due,         \* rooms whose event is to be answered with a snapshot
  task,        \* what each worker is doing
  events,      \* how many there were
  astray       \* history: pages nothing has to put right, see the properties

browser == <<page, want, sock, filter>>
server  == <<asks, sub, ghosts, hash, due>>
bounds  == <<events, astray>>
vars    == <<state, browser, timer, view, server, link, task, bounds>>

-----------------------------------------------------------------------------
Calls  == "calls"
NoRoom == "none"
Gone   == "gone"
Rooms  == Domains \cup {Calls}
States == 0 .. 1
NoHash == 2

Idle == [kind |-> "idle", client |-> Gone, room |-> NoRoom, val |-> 0, todo |-> {}, late |-> FALSE]

Task == [kind : {"idle", "subscribe", "event", "poll", "fetch"}, client : Clients \cup {Gone},
         room : Rooms \cup {NoRoom}, val : States, todo : SUBSET Domains, late : BOOLEAN]

(* The pages are open, subscribed, and show what there is.                 *)
Init ==
  /\ connection = "open" /\ reconnectTimer = FALSE
  /\ state = [r \in Rooms |-> 0]
  /\ page \in Pages
  /\ want \in [Clients -> Rooms] /\ \A c \in Clients : (want[c] = Calls) = (page[c] # "registrations")
  /\ sock = [c \in Clients |-> IF page[c] = "other" THEN "off" ELSE "on"]
  /\ sub = [c \in Clients |-> IF want[c] = Calls THEN NoRoom ELSE want[c]]
  /\ view = [c \in Clients |-> 0] /\ hash = [r \in Rooms |-> 0]
  /\ filter \in [Clients -> BOOLEAN] /\ \A c \in Clients : filter[c] => page[c] = "registrations"
  /\ timer = [c \in Clients |-> FALSE]
  /\ asks = {} /\ ghosts = {} /\ due = {}
  /\ task = [w \in Workers |-> Idle]
  /\ events = 0 /\ astray = {}

-----------------------------------------------------------------------------
Free(w)    == task[w].kind = "idle"
Doing(w, kind) == task[w].kind = kind
Event      == events < MaxEvents /\ events' = events + 1
Quiet      == UNCHANGED bounds
Fails      == "loss" \in Faults /\ Event
On(c)      == sock[c] = "on"
Subscribed == (ghosts \cup {sub[c] : c \in Clients}) \ {NoRoom}

(* The commands were sent when the task began; the answer is of then, or   *)
(* of any time since.                                                      *)
Answers(w) == {task[w].val, state[task[w].room]}

Asked(t)    == [t EXCEPT !.val = state[t.room]]
Begin(w, t) == task' = [task EXCEPT ![w] = Asked(t)]
Finish(w)   == task' = [task EXCEPT ![w] = Idle]

(* The pages in C show val, and w goes on with t.  Any answer about the    *)
(* calls that is still under way is older than what they show.             *)
Show(w, t, C, val) ==
  /\ view' = [c \in Clients |-> IF c \in C THEN val ELSE view[c]]
  /\ task' = [v \in Workers |->
       IF v = w THEN t
       ELSE [task[v] EXCEPT !.late = @ \/ (task[v].room = Calls /\ \E c \in C : page[c] = "calls")]]

(* A page takes a snapshot of registrations for its own room only.         *)
Watching(r) == {c \in Clients : On(c) /\ want[c] = r /\ (r = Calls \/ sub[c] = r)}

-----------------------------------------------------------------------------
(* FreeSWITCH changes.  The event goes to the pages of the room, which     *)
(* schedule a refresh, and the registrations gateway answers it with a     *)
(* snapshot.  A page of registrations that refreshed less than two seconds *)
(* ago lets the event pass; one of calls never does.                       *)
Change == \E r \in Rooms :
  LET heard == connection = "open" IN
  /\ Event
  /\ state' = [state EXCEPT ![r] = 1 - @]
  /\ \E some \in SUBSET Watching(r) :
       /\ r = Calls => some = Watching(r)
       /\ timer' = [c \in Clients |-> timer[c] \/ (heard /\ c \in some)]
  /\ due' = IF heard /\ r \in Subscribed THEN due \cup {r} ELSE due
  /\ astray' = IF r = Calls /\ ~heard THEN astray \cup Watching(r) ELSE astray
  /\ UNCHANGED <<browser, view, asks, sub, ghosts, hash, link, task>>

-----------------------------------------------------------------------------
(* The browser.  It opens a socket; the server hears of the connection and *)
(* of the page's subscription, and handles each after several awaits.  Two *)
(* requests for the same room are one.                                     *)
Requests(c) == [client : {c}, room : {IF page[c] = "calls" THEN Calls ELSE Default, want[c]}]

connectSocket(c) ==
  /\ sock[c] = "off" /\ page[c] # "other"
  /\ sock' = [sock EXCEPT ![c] = "on"]
  /\ asks' = asks \cup Requests(c)
  /\ UNCHANGED <<state, page, want, filter, timer, view, sub, ghosts, hash, due, link, task, bounds>>

(* The socket drops, and is opened again.  What the server was about to do *)
(* for it is done for a socket that is gone.                               *)
handleDisconnect(c) ==
  /\ "drop" \in Faults /\ On(c) /\ Event
  /\ sock' = [sock EXCEPT ![c] = "off"]
  /\ sub' = [sub EXCEPT ![c] = NoRoom]
  /\ asks' = {IF a.client = c THEN [a EXCEPT !.client = Gone] ELSE a : a \in asks}
  /\ task' = [w \in Workers |-> IF Doing(w, "subscribe") /\ task[w].client = c
                                THEN [task[w] EXCEPT !.client = Gone] ELSE task[w]]
  /\ UNCHANGED <<state, page, want, filter, timer, view, ghosts, hash, due, link, astray>>

(* scheduleRefresh's timer; fetchSnapshot of registrations passes when one *)
(* is under way or was a moment ago.                                       *)
Fetch(w, c) == Begin(w, [Idle EXCEPT !.kind = "fetch", !.client = c, !.room = want[c]])

scheduleRefresh(w) == \E c \in Clients :
  /\ timer[c] /\ Free(w)
  /\ timer' = [timer EXCEPT ![c] = FALSE]
  /\ Fetch(w, c) \/ (page[c] = "registrations" /\ UNCHANGED task)
  /\ UNCHANGED <<state, browser, view, server, link, bounds>>

(* The user presses refresh, or hangs up a call and the page refreshes.    *)
refresh(w) == \E c \in Clients :
  /\ Free(w) /\ page[c] # "other" /\ Event /\ Fetch(w, c)
  /\ UNCHANGED <<state, browser, timer, view, server, link, astray>>

(* The user types a search term or chooses a status, or takes them away:   *)
(* the page fetches whatever it did before.                                *)
SetFilter(w) == \E c \in Clients :
  /\ Free(w) /\ page[c] = "registrations" /\ Event /\ Fetch(w, c)
  /\ filter' = [filter EXCEPT ![c] = ~@]
  /\ UNCHANGED <<state, page, want, sock, timer, view, server, link, astray>>

fetchSnapshot(w) ==
  LET c == task[w].client IN
  /\ Doing(w, "fetch")
  /\ \/ /\ \E val \in Answers(w) :
             /\ Show(w, Idle, {c}, val)
             /\ astray' = IF (IF page[c] = "calls" THEN task[w].late ELSE val # hash[want[c]])
                          THEN astray \cup {c}
                          ELSE IF page[c] = "calls" THEN astray ELSE astray \ {c}
        /\ UNCHANGED events
     \/ /\ Fails /\ Finish(w)
        /\ astray' = IF page[c] = "calls" THEN astray \cup {c} ELSE astray
        /\ UNCHANGED view
  /\ UNCHANGED <<state, browser, timer, server, link>>

-----------------------------------------------------------------------------
(* The gateways.  A subscription is recorded and the room joined in one    *)
(* step after the user and the scope were read; the snapshot is built      *)
(* after that.  The calls gateway has no rooms and no subscriptions.       *)
subscribeClient(w) == \E a \in asks :
  /\ Free(w)
  /\ asks' = asks \ {a}
  /\ Begin(w, [Idle EXCEPT !.kind = "subscribe", !.client = a.client, !.room = a.room])
  /\ sub' = IF a.client = Gone \/ a.room = Calls THEN sub ELSE [sub EXCEPT ![a.client] = a.room]
  /\ ghosts' = IF a.client = Gone /\ a.room # Calls THEN ghosts \cup {a.room} ELSE ghosts
  /\ UNCHANGED <<state, browser, timer, view, hash, due, link, bounds>>

(* When the user or the scope cannot be read the socket is told and closed *)
(* by the server, and the browser does not open it again.                  *)
handleSubscriptionError == \E a \in asks :
  /\ Fails /\ a.client # Gone /\ a.room # Calls
  /\ asks' = {b \in asks : b.client # a.client}
  /\ sub' = [sub EXCEPT ![a.client] = NoRoom]
  /\ sock' = [sock EXCEPT ![a.client] = "refused"]
  /\ UNCHANGED <<state, page, want, filter, timer, view, ghosts, hash, due, link, task, astray>>

(* A page with a filter drops what it is sent, and makes a fetch of its    *)
(* own, which passes like any that is scheduled.                           *)
emitSnapshotForScope(w, t, r, val, C) ==
  /\ hash' = [hash EXCEPT ![r] = val]
  /\ Show(w, t, {c \in C : ~filter[c]}, val)
  /\ timer' = [c \in Clients |-> timer[c] \/ (c \in C /\ filter[c])]
  /\ astray' = IF r # Calls THEN (astray \ C) \cup {c \in C : view'[c] # val}
               ELSE IF task[w].late THEN astray \cup C ELSE astray

(* The first snapshot of a subscription goes to the whole room; that of    *)
(* the calls to the client alone, and its hash is kept all the same.       *)
Audience(t) == Watching(t.room) \cap (IF t.room = Calls THEN {t.client} ELSE Clients)

EmitToSubscriber(w) ==
  LET t == task[w] IN
  /\ Doing(w, "subscribe")
  /\ \/ /\ \E val \in Answers(w) : emitSnapshotForScope(w, Idle, t.room, val, Audience(t))
        /\ UNCHANGED events
     \/ /\ Fails /\ Finish(w)
        /\ astray' = astray \cup ({t.client} \ {Gone})
        /\ UNCHANGED <<hash, view, timer>>
  /\ UNCHANGED <<state, browser, asks, sub, ghosts, due, link>>

(* A registration event is answered with a snapshot for each room.         *)
AnswerEvent(w) == \E r \in due :
  /\ Free(w)
  /\ due' = due \ {r}
  /\ Begin(w, [Idle EXCEPT !.kind = "event", !.room = r])
  /\ UNCHANGED <<state, browser, timer, view, asks, sub, ghosts, hash, link, bounds>>

EmitToRoom(w) ==
  LET r == task[w].room IN
  /\ Doing(w, "event")
  /\ \/ /\ \E val \in Answers(w) : emitSnapshotForScope(w, Idle, r, val, Watching(r))
        /\ UNCHANGED events
     \/ Fails /\ Finish(w) /\ UNCHANGED <<hash, view, timer, astray>>
  /\ UNCHANGED <<state, browser, asks, sub, ghosts, due, link>>

(* The timers of the gateways do not wait for their last run.  The one of  *)
(* registrations visits, one after the other, the rooms there were when it *)
(* began; the one of calls has its one room.                               *)
Visits(S) == {Asked([Idle EXCEPT !.kind = "poll", !.room = r, !.todo = S \ {r}]) : r \in S}

pollRooms(w, S) == \E t \in Visits(S) :
  /\ Free(w)
  /\ task' = [task EXCEPT ![w] = t]
  /\ UNCHANGED <<state, browser, timer, view, server, link, bounds>>

PollRegistrations == \E w \in Workers : pollRooms(w, Subscribed \ {Calls})
PollCalls         == \E w \in Workers : pollRooms(w, {Calls})

(* Variant: a room is told once.                                           *)
NeverChanged(r, val) == hash[r] # NoHash

Unchanged(r, val) == hash[r] = val

Poll(w) ==
  LET r == task[w].room IN
  /\ Doing(w, "poll")
  /\ \E t \in IF task[w].todo = {} THEN {Idle} ELSE Visits(task[w].todo) :
       \/ /\ \E val \in Answers(w) :
                 ~Unchanged(r, val) /\ emitSnapshotForScope(w, t, r, val, Watching(r))
          /\ UNCHANGED events
       \/ /\ \E val \in Answers(w) : Unchanged(r, val)
          /\ task' = [task EXCEPT ![w] = t]
          /\ UNCHANGED <<events, hash, view, timer, astray>>
       \/ /\ Fails /\ task' = [task EXCEPT ![w] = t]
          /\ UNCHANGED <<hash, view, timer, astray>>
  /\ UNCHANGED <<state, browser, asks, sub, ghosts, due, link>>

-----------------------------------------------------------------------------
(* The event connection, and the backend itself: a restart loses what the  *)
(* gateways knew and drops the sockets; a fetch under way fails.           *)
LinkAction ==
  /\ \/ LinkStep /\ UNCHANGED events
     \/ "link" \in Faults /\ Event /\ ConnectionLost
     \/ "silence" \in Faults /\ Event /\ Silence
  /\ UNCHANGED <<state, browser, timer, view, server, task, astray>>

Restart ==
  /\ "restart" \in Faults /\ Event
  /\ sock' = [c \in Clients |-> IF On(c) THEN "off" ELSE sock[c]]
  /\ asks' = {} /\ sub' = [c \in Clients |-> NoRoom] /\ ghosts' = {}
  /\ hash' = [r \in Rooms |-> NoHash] /\ due' = {}
  /\ connection' = "none" /\ reconnectTimer' = FALSE
  /\ task' = [w \in Workers |-> Idle]
  /\ UNCHANGED <<state, page, want, filter, timer, view, astray>>

Work(w) ==
  \/ scheduleRefresh(w) \/ fetchSnapshot(w)
  \/ subscribeClient(w) \/ EmitToSubscriber(w)
  \/ AnswerEvent(w) \/ EmitToRoom(w) \/ Poll(w)

Next ==
  \/ Change \/ LinkAction \/ Restart \/ handleSubscriptionError
  \/ \E c \in Clients : connectSocket(c) \/ handleDisconnect(c)
  \/ \E w \in Workers : Work(w) \/ refresh(w) \/ SetFilter(w)
  \/ PollRegistrations \/ PollCalls

Spec == Init /\ [][Next]_vars

(* Timers fire, sockets are opened again (reconnectionAttempts: Infinity), *)
(* and commands answer.  A poll is never kept from a worker for ever.      *)
Answer(w) == fetchSnapshot(w) \/ EmitToSubscriber(w) \/ EmitToRoom(w) \/ Poll(w)

Fairness ==
  /\ WF_vars(LinkAction /\ LinkStep)
  /\ WF_vars(\E c \in Clients : connectSocket(c))
  /\ \A w \in Workers : WF_vars(Answer(w))
  /\ SF_vars(\E w \in Workers : subscribeClient(w) \/ AnswerEvent(w) \/ scheduleRefresh(w))
  /\ SF_vars(PollRegistrations) /\ SF_vars(PollCalls)

LiveSpec == Spec /\ Fairness

-----------------------------------------------------------------------------
TypeOK ==
  /\ LinkTypeOK
  /\ state \in [Rooms -> States] /\ view \in [Clients -> States]
  /\ want \in [Clients -> Rooms] /\ sock \in [Clients -> {"off", "on", "refused"}]
  /\ timer \in [Clients -> BOOLEAN] /\ filter \in [Clients -> BOOLEAN]
  /\ asks \subseteq [client : Clients \cup {Gone}, room : Rooms]
  /\ sub \in [Clients -> Domains \cup {NoRoom}] /\ \A c \in Clients : sub[c] # NoRoom => On(c)
  /\ ghosts \subseteq Domains
  /\ hash \in [Rooms -> States \cup {NoHash}] /\ due \subseteq Domains
  /\ task \in [Workers -> Task]
  /\ events \in 0 .. MaxEvents /\ astray \subseteq Clients

(* When FreeSWITCH no longer changes, a page of registrations that is      *)
(* subscribed to its room shows what is registered, whatever events were   *)
(* lost, commands failed, snapshots were built in another order than they  *)
(* were emitted, or sockets and the backend went away.  The hash of a room *)
(* is of what was emitted to it, and a page is left alone when it shows    *)
(* something else: when its first snapshot failed, when it has a filter    *)
(* and dropped a snapshot that was news to it, or when a fetch of its own  *)
(* gave it something else - until a snapshot or a fetch puts it right.     *)
RegistrationsShown ==
  <>[](\A c \in Clients : page[c] = "registrations" /\ On(c) /\ sub[c] = want[c] /\ c \notin astray =>
         view[c] = state[want[c]])

(* A page of calls relies on the events: a snapshot for one client sets    *)
(* the hash for all, so that the poll may keep silent.  It shows the calls *)
(* unless an event, a snapshot or a fetch of its own was lost, or it was   *)
(* given an answer that another had overtaken.                             *)
CallsShown ==
  <>[](\A c \in Clients : page[c] = "calls" /\ On(c) /\ c \notin astray => view[c] = state[Calls])

(* Both kinds of page.                                                      *)
PagesFollow == RegistrationsShown /\ CallsShown

(* A connection that was seen to break is replaced.                        *)
LinkRestored == reconnectTimer ~> connection = "open"
=============================================================================
