---------------------------- MODULE TraceRequests ----------------------------
(***************************************************************************)
(* Who asks the mesh for traces, and what becomes of the answers.  The     *)
(* window pings a contact, pings them all one after the other, traces them *)
(* all, and traces in the background the repeaters whose route is unknown; *)
(* the map window discovers the topology by having the window trace its    *)
(* nodes.  An answer does not say which request it answers, and everyone   *)
(* listens to it.                                                          *)
(*                                                                         *)
(* The window's thread takes its own posts in order from mail.  Clicks,    *)
(* radio frames and periodic ticks are steps by themselves: they may have  *)
(* been posted before whatever waits in mail, so handling them at any time *)
(* loses no behaviour.  One-shot runners cannot be called back once they   *)
(* have posted, so their messages do go through mail.  The map window is   *)
(* locked for each call into it, which makes the call one step.            *)
(***************************************************************************)
EXTENDS Integers, Sequences, FiniteSets

CONSTANTS
  NContacts, \* the radio knows contacts 1 .. NContacts and lists them so
  Pingable,  \* those whose type is known: type # 0
  Routed,    \* those with a route: outPathLen >= 0
  Infra,     \* repeaters and rooms: type 2 or 3
  MaxAir,    \* bound: answers of one contact that can still come
  MaxMail,   \* bound: ticks and clicks come while less waits in mail
  NClicks,   \* bound: requests of the user
  NBreaks    \* bound: losses of the link, and syncs after the first of a connection

Contacts == 1 .. NContacts
Nobody == 0

ASSUME NContactsAssumption == NContacts \in Nat \ {0}
ASSUME KindsAssumption == Pingable \subseteq Contacts /\ Routed \subseteq Contacts /\ Infra \subseteq Contacts
ASSUME BoundsAssumption ==
  /\ MaxAir \in Nat \ {0} /\ MaxMail \in Nat \ {0}
  /\ NClicks \in Nat /\ NBreaks \in Nat

VARIABLES
  port,      \* the serial port is up: what SendFrame goes by
  connected, \* fConnected
  listed,    \* how many contacts the window's list holds, in the radio's order
  syncing,   \* the radio is listing its contacts
  mail,      \* posts of the window to itself, of its runners and of the map
  later,     \* the two-second runners, oldest first; nothing cancels them
  ping,      \* fPingPending, fPingTimeoutRunner (still to fire); the target is only named
  round,     \* fPingAllActive, fPingAllIndex, fPingAllTotal, fPingAllResponded
  auto,      \* fAutoTraceTimer, fAutoTraceIndex
  map,       \* the map window: is it made, its nodes, its discovery
  air,       \* how many answers of each contact can still come
  clicks, breaks, \* what is left of the bounds
  asked,     \* history: how often the round under way asked each contact
  disturbed, \* history: something else than the round moved it
  refused,   \* history: a ping was refused while the round was under way
  relisted   \* history: the list was emptied since the discovery began

session == <<port, connected, listed, syncing>>
bounds == <<clicks, breaks>>
history == <<asked, disturbed, refused, relisted>>
vars == <<session, mail, later, ping, round, auto, map, air, bounds, history>>

Posts == {"next", "trace_next", "timeout", "trace", "tick"}
Post(what, at) == [what |-> what, at |-> at]
Posted(what) == \E i \in 1 .. Len(mail) : mail[i].what = what

TypeOK ==
  /\ port \in BOOLEAN /\ connected \in BOOLEAN /\ syncing \in BOOLEAN
  /\ listed \in 0 .. NContacts
  /\ mail \in Seq([what : Posts, at : Nat])
  /\ later \in Seq([what : {"next", "trace_next"}, at : Nat])
  /\ ping \in [pending : BOOLEAN, timer : BOOLEAN]
  /\ round \in [active : BOOLEAN, index : Nat, total : Nat, responded : Nat]
  /\ auto \in [timer : BOOLEAN, index : 0 .. NContacts]
  /\ map \in [made : BOOLEAN, nodes : 0 .. NContacts, discovering : BOOLEAN, waited : 0 .. 3,
              queue : Seq([who : Contacts, alive : BOOLEAN])]
  /\ air \in [Contacts -> 0 .. MaxAir]
  /\ clicks \in 0 .. NClicks /\ breaks \in 0 .. NBreaks
  /\ asked \in [Contacts -> Nat] /\ disturbed \in BOOLEAN /\ refused \in BOOLEAN /\ relisted \in BOOLEAN

NoPing == [pending |-> FALSE, timer |-> FALSE]
NoRound == [active |-> FALSE, index |-> 0, total |-> 0, responded |-> 0]
NoneAsked == [c \in Contacts |-> 0]

Init ==
  /\ port = FALSE /\ connected = FALSE /\ listed = 0 /\ syncing = FALSE
  /\ mail = <<>> /\ later = <<>>
  /\ ping = NoPing
  /\ round = NoRound
  /\ auto = [timer |-> FALSE, index |-> 0]
  /\ \E made \in BOOLEAN :
       map = [made |-> made, nodes |-> 0, discovering |-> FALSE, waited |-> 0, queue |-> <<>>]
  /\ air = [c \in Contacts |-> 0]
  /\ clicks = NClicks /\ breaks = NBreaks
  /\ asked = NoneAsked /\ disturbed = FALSE /\ refused = FALSE /\ relisted = FALSE

-----------------------------------------------------------------------------
(* What the handlers are made of.                                          *)

(* SendTracePath: refused without a port; else the contact may answer.     *)
Asks(c) ==
  air' = [air EXCEPT ![c] = IF port /\ @ < MaxAir THEN @ + 1 ELSE @]

(* _FindContactByPrefix looks in the list as it is now.                    *)
Listed(c) == c \in 1 .. listed

Handles(what) == mail # <<>> /\ Head(mail).what = what /\ mail' = Tail(mail)
At == Head(mail).at

(* What is kept of a round that is over says nothing; nor does an index of *)
(* a timer that is gone, nor what is left of a discovery.                  *)
RoundIsOver == round' = NoRound /\ asked' = NoneAsked /\ disturbed' = FALSE /\ refused' = FALSE
NoTimer == [timer |-> FALSE, index |-> 0]

(* A click of the user, while the bound leaves one.                        *)
Clicks == clicks > 0 /\ clicks' = clicks - 1 /\ UNCHANGED breaks

(* The same, with every node made anew; and with the wait begun again.     *)
RefreshedAnew(n) ==
  [map EXCEPT !.nodes = n, !.queue = [i \in DOMAIN @ |-> [@[i] EXCEPT !.alive = FALSE]]]
RefreshedWaits(n) ==
  [map EXCEPT !.nodes = n, !.waited = 0]

(* SetNodes: one node per listed contact; the objects of contacts that are *)
(* not listed are deleted, also those the discovery still has in its queue.*)
Refreshed(n) ==
  [map EXCEPT
    !.nodes = n,
    !.queue = [i \in DOMAIN map.queue |->
      [who |-> map.queue[i].who, alive |-> map.queue[i].alive /\ map.queue[i].who <= n]]]
SetNodes(n) == map' = Refreshed(n)

InRangePast(S, lo) == {i \in S : lo + 1 < i /\ i <= listed}
InRange(S, lo) == {i \in S : lo < i /\ i <= listed}
Lowest(S) == CHOOSE i \in S : \A j \in S : i <= j

-----------------------------------------------------------------------------
(* The link and the contact list.                                          *)

PortUp ==
  /\ ~port /\ ~connected
  /\ port' = TRUE
  /\ UNCHANGED <<connected, listed, syncing, mail, later, ping, round, auto, map, air, bounds, history>>

PortDown ==
  /\ port /\ breaks > 0
  /\ port' = FALSE
  /\ breaks' = breaks - 1
  /\ UNCHANGED <<connected, listed, syncing, mail, later, ping, round, auto, map, air, clicks, history>>

OnConnected ==
  /\ port /\ ~connected
  /\ connected' = TRUE
  /\ UNCHANGED <<port, listed, syncing, mail, later, ping, round, auto, map, air, bounds, history>>

(* _OnDisconnected: pings, the list and the map's nodes go; later stays,   *)
(* and so does a discovery.                                                *)
OnDisconnected ==
  /\ ~port /\ connected
  /\ connected' = FALSE /\ listed' = 0 /\ syncing' = FALSE
  /\ ping' = NoPing
  /\ RoundIsOver
  /\ IF map.made THEN SetNodes(0) ELSE UNCHANGED map
  /\ relisted' = map.discovering
  /\ UNCHANGED <<port, mail, later, auto, air, bounds>>

(* _HandleContactsStart: the list is emptied, to be filled again.          *)
ContactsStart ==
  /\ port /\ connected /\ ~syncing
  /\ listed = 0 \/ breaks > 0
  /\ breaks' = IF listed = 0 THEN breaks ELSE breaks - 1
  /\ listed' = 0 /\ syncing' = TRUE
  /\ disturbed' = round.active
  /\ relisted' = map.discovering
  /\ UNCHANGED <<port, connected, mail, later, ping, round, auto, map, air, clicks, asked, refused>>

(* _HandleContact, and END_OF_CONTACTS after the last, which refreshes the *)
(* map if it is there.                                                     *)
ContactFrame ==
  /\ connected /\ syncing
  /\ listed' = listed + 1
  /\ syncing' = (listed' < NContacts)
  /\ IF syncing' \/ ~map.made THEN UNCHANGED map ELSE SetNodes(listed')
  /\ UNCHANGED <<port, connected, mail, later, ping, round, auto, air, bounds, history>>

-----------------------------------------------------------------------------
(* Pings of the window.                                                    *)

(* A ping without a timeout of its own.                                    *)
ContactPingAlone(c) ==
  /\ Clicks /\ connected /\ Listed(c)
  /\ Asks(c)
  /\ ping' = [ping EXCEPT !.pending = port]
  /\ UNCHANGED <<session, mail, later, round, auto, map, history>>

(* MSG_CONTACT_PING, for a contact of the list the user saw.               *)
ContactPing(c) ==
  /\ Clicks
  /\ connected
  /\ disturbed' = round.active
  /\ \/ /\ ~Listed(c)
        /\ ping' = [ping EXCEPT !.pending = FALSE]
        /\ refused' = (refused \/ round.active)
        /\ UNCHANGED air
     \/ /\ Listed(c)
        /\ Asks(c)
        /\ ping' = [pending |-> port, timer |-> ping.timer \/ port]
        /\ refused' = (refused \/ (round.active /\ ~port))
  /\ UNCHANGED <<session, mail, later, round, auto, map, asked, relisted>>

(* The timeout runner fires once; deleting it later calls nothing back.    *)
PingTimerFires ==
  /\ ping.timer
  /\ ping' = [ping EXCEPT !.timer = FALSE]
  /\ mail' = Append(mail, Post("timeout", 0))
  /\ UNCHANGED <<session, later, round, auto, map, air, bounds, history>>

(* What a ping that ended, by an answer or a timeout, means to a round.    *)
Advances(answers) ==
  IF round.active
  THEN /\ round' = [round EXCEPT !.index = @ + 1, !.responded = @ + answers]
       /\ later' = Append(later, Post("next", round.index + 1))
  ELSE UNCHANGED <<round, later>>

(* MSG_PING_TIMEOUT: ends the ping under way, whichever ping it was for,   *)
(* and deletes the runner, whichever ping that is for.                     *)
PingTimeout ==
  /\ Handles("timeout")
  /\ ping' = NoPing
  /\ IF ping.pending THEN Advances(0) ELSE UNCHANGED <<round, later>>
  /\ UNCHANGED <<session, auto, map, air, bounds, history>>

(* MSG_PING_ALL *)
PingAll ==
  /\ Clicks
  /\ connected /\ ~round.active
  /\ Pingable \cap 1 .. listed # {}
  /\ round' = [active |-> TRUE, index |-> 0, total |-> Cardinality(Pingable \cap 1 .. listed), responded |-> 0]
  /\ mail' = Append(mail, Post("next", 0))
  /\ asked' = NoneAsked
  /\ disturbed' = (ping.pending \/ syncing \/ Posted("next")
                     \/ \E i \in 1 .. Len(later) : later[i].what = "next")
  /\ refused' = FALSE
  /\ UNCHANGED <<session, later, ping, auto, map, air, breaks, relisted>>

(* MSG_PING_ALL_NEXT: the next contact from the index the post carries.    *)
PingAllNext ==
  /\ Handles("next")
  /\ LET rest == InRange(Pingable, At)
         c == Lowest(rest)
     IN \/ /\ ~round.active \/ ~connected \/ rest = {}
           /\ RoundIsOver
           /\ UNCHANGED <<ping, later, air>>
        \/ /\ round.active /\ connected /\ rest # {}
           /\ Asks(c)
           /\ ping' = [pending |-> port, timer |-> ping.timer \/ port]
           /\ round' = [round EXCEPT !.index = IF port THEN c - 1 ELSE c]
           /\ later' = IF port THEN later ELSE Append(later, Post("next", c))
           /\ asked' = [asked EXCEPT ![c] = @ + 1]
           /\ UNCHANGED <<disturbed, refused>>
  /\ UNCHANGED <<session, auto, map, bounds, relisted>>

(* A two-second runner posts what it was made with.                        *)
LaterFires ==
  /\ later # <<>>
  /\ mail' = Append(mail, Head(later))
  /\ later' = Tail(later)
  /\ UNCHANGED <<session, ping, round, auto, map, air, bounds, history>>

-----------------------------------------------------------------------------
(* Traces of the window.                                                   *)

(* MSG_TRACE_ALL *)
TraceAll ==
  /\ Clicks
  /\ connected /\ Routed \cap 1 .. listed # {}
  /\ mail' = Append(mail, Post("trace_next", 0))
  /\ UNCHANGED <<session, later, ping, round, auto, map, air, breaks, history>>

(* MSG_TRACE_ALL_NEXT goes on whether or not there is a link.              *)
TraceAllNext ==
  /\ Handles("trace_next")
  /\ LET rest == InRange(Routed, At)
     IN IF rest = {}
        THEN UNCHANGED <<later, air>>
        ELSE /\ Asks(Lowest(rest))
             /\ later' = Append(later, Post("trace_next", Lowest(rest)))
  /\ UNCHANGED <<session, ping, round, auto, map, bounds, history>>

(* MSG_TRACE_PATH as the map posts it, silent.                             *)
TracePath ==
  /\ Handles("trace")
  /\ IF Listed(At) THEN Asks(At) ELSE UNCHANGED air
  /\ UNCHANGED <<session, later, ping, round, auto, map, bounds, history>>

(* MSG_SHOW_NETWORK_MAP and the MSG_AUTO_TRACE_START it posts.             *)
ShowMap ==
  /\ Clicks
  /\ map' = [Refreshed(listed) EXCEPT !.made = TRUE]
  /\ auto' = IF auto.timer THEN auto ELSE [timer |-> TRUE, index |-> 0]
  /\ UNCHANGED <<session, mail, later, ping, round, air, breaks, history>>

(* QuitRequested hides the map and has the background traces stopped.      *)
HideMap ==
  /\ Clicks
  /\ map.made
  /\ auto' = NoTimer
  /\ UNCHANGED <<session, mail, later, ping, round, map, air, breaks, history>>

AutoTimerFires ==
  /\ auto.timer
  /\ Len(mail) < MaxMail /\ ~Posted("tick")
  /\ mail' = Append(mail, Post("tick", 0))
  /\ UNCHANGED <<session, later, ping, round, auto, map, air, bounds, history>>

Looked(index) == [auto EXCEPT !.index = IF auto.timer THEN index ELSE 0]

(* MSG_AUTO_TRACE_TICK: from the index on, once around the list, the first *)
(* repeater or room without a route; the index is past what was looked at. *)
AutoTraceTick ==
  /\ Handles("tick")
  /\ LET wanted == (Infra \ Routed) \cap 1 .. listed
         after == {c \in wanted : c > auto.index}
         next == IF auto.index < listed /\ after # {} THEN Lowest(after) ELSE Lowest(wanted)
     IN IF ~connected
        THEN auto' = NoTimer /\ UNCHANGED air
        ELSE IF wanted = {}
        THEN /\ auto' = Looked(IF auto.index \in 1 .. listed THEN auto.index ELSE listed)
             /\ UNCHANGED air
        ELSE /\ Asks(next)
             /\ auto' = Looked(next)
  /\ UNCHANGED <<session, later, ping, round, map, bounds, history>>

(* A trace by itself: the user asks for one (MSG_TRACE_PATH, not silent),  *)
(* a message came over more hops than the route of its sender says, or the *)
(* map's own automatic trace has the window ask for the next of its nodes. *)
TraceContact(c) ==
  /\ connected /\ Listed(c)
  /\ Asks(c)
  /\ UNCHANGED <<session, mail, later, ping, round, auto, map, bounds, history>>

-----------------------------------------------------------------------------
(* The map window.                                                         *)

(* UpdateFromContacts, every three seconds while the map is seen.          *)
RefreshMap ==
  /\ map.made
  /\ SetNodes(listed)
  /\ UNCHANGED <<session, mail, later, ping, round, auto, air, bounds, history>>

(* _RequestFullDiscovery of the nodes that were heard lately; the first is *)
(* traced at once.                                                         *)
Discover(recent) ==
  /\ Clicks
  /\ map.made /\ ~map.discovering
  /\ recent # {} /\ recent \subseteq 1 .. map.nodes
  /\ \E order \in [1 .. Cardinality(recent) -> recent] :
       /\ \A i, j \in DOMAIN order : i < j => order[i] < order[j]
       /\ map' = [map EXCEPT
            !.discovering = TRUE,
            !.waited = 0,
            !.queue = Tail([i \in DOMAIN order |-> [who |-> order[i], alive |-> TRUE]])]
  /\ mail' = Append(mail, Post("trace", Lowest(recent)))
  /\ relisted' = (syncing \/ listed < map.nodes)
  /\ UNCHANGED <<session, later, ping, round, auto, air, breaks, asked, disturbed, refused>>

(* _DiscoveryTick with nodes left: of a deleted node anything may be read, *)
(* so any contact's key may be asked for, or nobody's.                     *)
DiscoveryAsks ==
  /\ map.discovering /\ map.queue # <<>>
  /\ \E c \in IF Head(map.queue).alive THEN {Head(map.queue).who} ELSE Contacts \cup {Nobody} :
       mail' = Append(mail, Post("trace", c))
  /\ map' = [map EXCEPT !.queue = Tail(@)]
  /\ UNCHANGED <<session, later, ping, round, auto, air, bounds, history>>

(* _DiscoveryTick with none left: three ticks of waiting, then the end.    *)
DiscoveryWaits ==
  /\ map.discovering /\ map.queue = <<>>
  /\ map' = IF map.waited < 3
            THEN [map EXCEPT !.waited = @ + 1]
            ELSE [map EXCEPT !.waited = 0, !.discovering = FALSE]
  /\ relisted' = (relisted /\ map'.discovering)
  /\ UNCHANGED <<session, mail, later, ping, round, auto, air, bounds, asked, disturbed, refused>>

-----------------------------------------------------------------------------
(* The mesh.                                                               *)

(* _HandlePushTraceData: the map hears of it first, then it ends the ping  *)
(* under way, whoever answers.                                             *)
TraceData(c) ==
  /\ connected /\ air[c] > 0
  /\ air' = [air EXCEPT ![c] = @ - 1]
  /\ map' = IF map.discovering THEN [map EXCEPT !.waited = 0] ELSE map
  /\ IF ping.pending
     THEN /\ ping' = NoPing
          /\ Advances(1)
     ELSE UNCHANGED <<ping, round, later>>
  /\ UNCHANGED <<session, mail, auto, bounds, history>>

(* A request or its answer is lost.                                        *)
Loses(c) ==
  /\ air[c] > 0
  /\ air' = [air EXCEPT ![c] = @ - 1]
  /\ UNCHANGED <<session, mail, later, ping, round, auto, map, bounds, history>>

-----------------------------------------------------------------------------
Notices == OnConnected \/ OnDisconnected
Mail == PingTimeout \/ PingAllNext \/ TraceAllNext \/ TracePath \/ AutoTraceTick
Window == Notices \/ Mail
Runners == PingTimerFires \/ LaterFires \/ DiscoveryAsks \/ DiscoveryWaits
User ==
  \/ \E c \in Contacts : ContactPing(c)
  \/ PingAll \/ TraceAll \/ ShowMap \/ HideMap
  \/ \E recent \in SUBSET Contacts : Discover(recent)
Background ==
  \/ AutoTimerFires \/ RefreshMap
  \/ \E c \in Contacts : TraceContact(c)
Radio ==
  \/ PortUp \/ PortDown \/ ContactsStart \/ ContactFrame
  \/ \E c \in Contacts : TraceData(c) \/ Loses(c)

Next == Window \/ Runners \/ User \/ Background \/ Radio

Spec == Init /\ [][Next]_vars

(* The window takes its mail, runners fire and a sync goes on; the user,   *)
(* the mesh and the link need not do anything.                             *)
FairSpec ==
  /\ Spec
  /\ WF_vars(Notices) /\ WF_vars(Mail)
  /\ WF_vars(PingTimerFires) /\ WF_vars(LaterFires)
  /\ WF_vars(DiscoveryAsks \/ DiscoveryWaits)
  /\ WF_vars(ContactFrame)

-----------------------------------------------------------------------------
(* Properties.                                                             *)

(* A ping that is pending is sure to end: its timer runs, or its timeout   *)
(* is on the way, whatever runner was deleted and made anew meanwhile.     *)
PingWatched == ping.pending => ping.timer \/ Posted("timeout")

(* A round of pings does not get stuck: as long as no ping was refused     *)
(* meanwhile there is a ping under way, or the post that sends the next.   *)
RoundDriven ==
  round.active /\ ~refused =>
    ping.pending \/ Posted("next") \/ \E i \in 1 .. Len(later) : later[i].what = "next"

(* Nothing asked for is left without something that will go on with it.    *)
PingsDriven == PingWatched /\ RoundDriven

(* Nodes the discovery still has to trace are not deleted under it, unless *)
(* the contact list was emptied since it began.                            *)
QueueAlive ==
  map.discovering /\ ~relisted => \A i \in 1 .. Len(map.queue) : map.queue[i].alive

(* A round that nothing else moved asks every contact exactly once before  *)
(* it sums up, and no more contacts answered than it announced, whoever    *)
(* else asked for traces and whichever answers were taken for a ping's.    *)
RoundAsksEach ==
  [][ round.active /\ ~round'.active /\ connected' /\ ~disturbed =>
        /\ \A c \in Pingable : asked[c] = 1
        /\ round.responded <= round.total ]_vars

(* Every round ends, unless a ping was refused in it.                      *)
RoundEnds == round.active ~> (~round.active \/ refused)

(* A discovery ends once the mesh is silent for good.                      *)
DiscoveryEnds ==
  <>[](\A c \in Contacts : air[c] = 0) => (map.discovering ~> ~map.discovering)

(* Rounds and discoveries end (MainWindow.cpp, MSG_PING_ALL_NEXT;          *)
(* NetworkMapWindow.cpp, _DiscoveryTick).                                  *)
RequestsEnd == RoundEnds /\ DiscoveryEnds

=============================================================================
