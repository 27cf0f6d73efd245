-------------------------- MODULE CompanionSession --------------------------
(***************************************************************************)
(* A session with a companion radio, as the window's thread runs it: the   *)
(* handshake, the contact sync, the messages the radio kept, and what is   *)
(* shown and saved of them, over several connections and companions.       *)
(*                                                                         *)
(* Everything here happens in one thread, in the order of its queue; what  *)
(* is hard is that order.  A frame passes the queue twice: it is received, *)
(* FrameParser posts it again, and only then it is handled.  The radio     *)
(* serves commands in order and pushes frames of its own.  SerialLink      *)
(* models how ports open and close; here a link is up to a companion or    *)
(* there is none.  Frames and commands that leave this state alone (device *)
(* query, advert, battery, statistics, time) are left out, and so are      *)
(* channels, reactions and echoes of own messages.                         *)
(***************************************************************************)
EXTENDS Integers, Sequences, SequencesExt, FiniteSets

CONSTANTS
  Companions, \* the radios the user owns
  Knows,      \* the contacts each radio has stored, a function on Companions
  NMsgs,      \* bound: how many messages reach the radios
  NLinks,     \* bound: how many times the link comes up
  MaxQueue,   \* bound: radio and user act while less is under way
  MaxRetries, \* APP_START is sent again so many times
  Hazards     \* what may happen: "slow_boot", "late"

Nobody == 0
Contacts == UNION {Knows[c] : c \in Companions}
Msgs == 1 .. NMsgs

ASSUME CompanionsAssumption == Companions \subseteq Nat \ {Nobody}
ASSUME KnowsAssumption == Knows \in [Companions -> SUBSET (Nat \ {Nobody})]
ASSUME BoundsAssumption == NMsgs \in Nat /\ NLinks \in Nat /\ MaxQueue \in Nat /\ MaxRetries \in Nat
ASSUME HazardsAssumption == Hazards \subseteq {"slow_boot", "late"}

VARIABLES
  queue,     \* the window's message queue, oldest first
  up,        \* fConnected
  hasInfo,   \* fHasDeviceInfo
  syncing,   \* fSyncingContacts
  since,     \* fContactsSince: 0 or not
  retries,   \* fHandshakeRetries
  handshake, \* fHandshakeTimer is running
  initDue,   \* the delayed MSG_POST_CONNECT_INITs not yet posted
  list,      \* the contacts, each with its history
  old,       \* fOldContacts, where a sync parks them
  key,       \* the companion the database files under
  db,        \* the rows of the message table: key, contact, message
  link,      \* the companion at the other end, or Nobody
  links,     \* how many times the link has come up
  raw,       \* SerialHandler delivers lines, not frames
  ready,     \* the radio has booted
  sent,      \* the commands on their way to the radio
  dump,      \* the contacts the radio has yet to send, while it lists them
  listing,   \* the radio lists its contacts
  inbox,     \* the messages each radio keeps
  home       \* the radio each message reached, or Nobody; and who wrote it

lists == <<list, old>>
flags == <<up, hasInfo, syncing, since, retries>>
timers == <<handshake, initDue>>
store == <<key, db>>
linkVars == <<link, links, raw>>
radioVars == <<ready, dump, listing, inbox, home>>
vars == <<queue, flags, timers, lists, store, linkVars, sent, radioVars>>

Frames == {"self_info", "export", "start", "contact", "end", "msg", "no_more", "waiting", "path"}
Notices == {"connected", "disconnected", "init", "handshake"}
Commands == {"app_start", "export_self", "get_all", "get_new", "sync_next"}

Entries == [who : Contacts, hist : Seq(Msgs)]
Item(hop, what, who) == [hop |-> hop, what |-> what, who |-> who]

TypeOK ==
  /\ queue \in Seq([hop : {1, 2}, what : Frames \cup Notices, who : Nat])
  /\ up \in BOOLEAN /\ hasInfo \in BOOLEAN /\ syncing \in BOOLEAN
  /\ since \in {0, 1}
  /\ retries \in 0 .. MaxRetries
  /\ handshake \in BOOLEAN
  /\ initDue \in Nat
  /\ list \in Seq(Entries) /\ old \in Seq(Entries)
  /\ key \in Companions \cup {Nobody}
  /\ db \subseteq (Companions \cup {Nobody}) \X Contacts \X Msgs
  /\ link \in Companions \cup {Nobody}
  /\ links \in 0 .. NLinks
  /\ raw \in BOOLEAN
  /\ ready \in BOOLEAN
  /\ sent \in Seq(Commands)
  /\ dump \subseteq Contacts
  /\ listing \in BOOLEAN
  /\ inbox \in [Companions -> Seq(Msgs)]
  /\ home \in [Msgs -> [radio : Companions \cup {Nobody}, by : Contacts \cup {Nobody}]]

Init ==
  /\ queue = <<>>
  /\ up = FALSE /\ hasInfo = FALSE /\ syncing = FALSE
  /\ since = 0 /\ retries = 0
  /\ handshake = FALSE /\ initDue = 0
  /\ list = <<>> /\ old = <<>>
  /\ key = Nobody /\ db = {}
  /\ link = Nobody /\ links = 0 /\ raw = FALSE
  /\ ready = FALSE /\ dump = {} /\ listing = FALSE
  /\ sent = <<>>
  /\ inbox = [c \in Companions |-> <<>>]
  /\ home = [m \in Msgs |-> [radio |-> Nobody, by |-> Nobody]]

-----------------------------------------------------------------------------
(* What handlers are made of.                                              *)

Room == Len(queue) < MaxQueue /\ Len(sent) < MaxQueue

Handles(what) ==
  /\ queue # <<>>
  /\ Head(queue).what = what
  /\ Head(queue).hop = 2
  /\ queue' = Tail(queue)
Subject == Head(queue).who

(* SendFrame refuses without a port; a booting radio drops what arrives.   *)
Sends(commands) ==
  /\ sent' = IF link = Nobody THEN sent ELSE sent \o commands
SendsNothing == UNCHANGED sent

(* _FindContactByPrefix: the first entry of that contact.                  *)
Places(s, c) == {i \in 1 .. Len(s) : s[i].who = c}
First(S) == CHOOSE i \in S : \A j \in S : i <= j
Listed(s, c) == Places(s, c) # {}

(* LoadMessages: the rows of one key and contact, oldest first.            *)
Filed(k, c) == {m \in Msgs : <<k, c, m>> \in db}
Rows(k, c) ==
  CHOOSE rows \in [1 .. Cardinality(Filed(k, c)) -> Filed(k, c)] :
    \A i, j \in DOMAIN rows : i < j => rows[i] < rows[j]

-----------------------------------------------------------------------------
(* The window: frames and notices.                                         *)

(* _OnFrameReceived: FrameParser posts the frame again, to the end.        *)
ReceiveFrame ==
  /\ queue # <<>>
  /\ Head(queue).hop = 1
  /\ queue' = Append(Tail(queue), [Head(queue) EXCEPT !.hop = 2])
  /\ UNCHANGED <<flags, timers, lists, store, linkVars, sent, radioVars>>

HandleConnected ==
  /\ Handles("connected")
  /\ up' = TRUE
  /\ retries' = 0
  /\ Sends(<<"app_start">>)
  /\ initDue' = initDue + 1
  /\ handshake' = TRUE
  /\ UNCHANGED <<hasInfo, syncing, since, lists, store, linkVars, radioVars>>

(* What belongs to this companion goes; so nothing of it reaches the next. *)
ForgetCompanionKeepsKey == list' = <<>> /\ old' = <<>> /\ since' = 0 /\ UNCHANGED key
ForgetCompanionKeepsLists == since' = 0 /\ key' = Nobody /\ UNCHANGED lists
ForgetCompanion == list' = <<>> /\ old' = <<>> /\ since' = 0 /\ key' = Nobody

HandleDisconnected ==
  /\ Handles("disconnected")
  /\ up' = FALSE
  /\ hasInfo' = FALSE
  /\ handshake' = FALSE
  /\ ForgetCompanion
  /\ UNCHANGED <<syncing, retries, initDue, db, linkVars, sent, radioVars>>

(* MSG_POST_CONNECT_INIT, a tenth of a second after APP_START.             *)
InitCommands == <<"export_self", "get_all">>

HandleInit ==
  /\ Handles("init")
  /\ \/ up /\ syncing' = TRUE /\ Sends(InitCommands)
     \/ ~up /\ SendsNothing /\ UNCHANGED syncing
  /\ UNCHANGED <<up, hasInfo, since, retries, timers, lists, store, linkVars, radioVars>>

(* MSG_HANDSHAKE_TIMEOUT: APP_START again, or raw mode in the end.         *)
TriesLeft == retries < MaxRetries

HandleHandshake ==
  /\ Handles("handshake")
  /\ \/ /\ up /\ ~hasInfo /\ TriesLeft
        /\ retries' = retries + 1
        /\ Sends(<<"app_start">>)
        /\ handshake' = TRUE
        /\ UNCHANGED raw
     \/ /\ up /\ ~hasInfo /\ ~TriesLeft
        /\ raw' = TRUE
        /\ handshake' = FALSE
        /\ SendsNothing /\ UNCHANGED retries
     \/ /\ ~up \/ hasInfo
        /\ handshake' = FALSE
        /\ SendsNothing /\ UNCHANGED <<retries, raw>>
  /\ UNCHANGED <<up, hasInfo, syncing, since, initDue, lists, store, link, links, radioVars>>

HandleSelfInfo ==
  /\ Handles("self_info")
  /\ key' = Subject
  /\ hasInfo' = TRUE
  /\ handshake' = FALSE
  /\ SendsNothing
  /\ UNCHANGED <<up, syncing, since, retries, initDue, lists, db, linkVars, radioVars>>

(* The answer to EXPORT_CONTACT ends the handshake, too, but leaves the    *)
(* database's companion alone.                                             *)
HandleExportContact ==
  /\ Handles("export")
  /\ hasInfo' = TRUE
  /\ handshake' = FALSE
  /\ SendsNothing
  /\ UNCHANGED <<up, syncing, since, retries, initDue, lists, store, linkVars, radioVars>>

(* The contacts are parked, and those an unfinished sync parked are gone.  *)
HandleContactsStart ==
  /\ Handles("start")
  /\ old' = list
  /\ list' = <<>>
  /\ SendsNothing
  /\ UNCHANGED <<flags, timers, store, linkVars, radioVars>>

(* A contact takes over the history of its parked self.                    *)
ReturnsForgetful(c) ==
  /\ list' = Append(list, [who |-> c, hist |-> <<>>])
  /\ old' = SelectSeq(old, LAMBDA e : e.who # c)
Returns(c) ==
  \/ /\ Listed(old, c)
     /\ LET i == First(Places(old, c))
        IN /\ list' = Append(list, old[i])
           /\ old' = RemoveAt(old, i)
  \/ /\ ~Listed(old, c)
     /\ list' = Append(list, [who |-> c, hist |-> <<>>])
     /\ UNCHANGED old

HandleContact ==
  /\ Handles("contact")
  /\ Returns(Subject)
  /\ SendsNothing
  /\ UNCHANGED <<flags, timers, store, linkVars, radioVars>>

(* What is still parked comes back; the histories are loaded if no contact *)
(* has one; then one message is asked for.                                 *)
HasHistory(s) == \E i \in DOMAIN s : s[i].hist # <<>>
WithHistoriesAlways(s) == [i \in DOMAIN s |-> [s[i] EXCEPT !.hist = @ \o Rows(key, s[i].who)]]
WithHistories(s) ==
  IF HasHistory(s) THEN s ELSE [i \in DOMAIN s |-> [s[i] EXCEPT !.hist = Rows(key, s[i].who)]]

SyncEndedStaysOn == UNCHANGED syncing /\ since' = 1
SyncEnded == syncing' = FALSE /\ since' = 1

HandleContactsEnd ==
  /\ Handles("end")
  /\ SyncEnded
  /\ list' = WithHistories(list \o old)
  /\ old' = <<>>
  /\ Sends(<<"sync_next">>)
  /\ UNCHANGED <<up, hasInfo, retries, timers, store, linkVars, radioVars>>

(* A message is saved, and shown if its sender is listed just now.  The    *)
(* loop that would ask for the next one depends on fSyncingMessages, which *)
(* nothing sets.                                                           *)
HandleMsg ==
  /\ Handles("msg")
  /\ LET by == home[Subject].by
     IN /\ db' = db \cup {<<key, by, Subject>>}
        /\ list' = IF Listed(list, by)
                   THEN [list EXCEPT ![First(Places(list, by))].hist = Append(@, Subject)]
                   ELSE list
  /\ SendsNothing
  /\ UNCHANGED <<old, key, flags, timers, linkVars, radioVars>>

HandleNoMore ==
  /\ Handles("no_more")
  /\ UNCHANGED <<flags, timers, lists, store, linkVars, sent, radioVars>>

HandleMsgWaiting ==
  /\ Handles("waiting")
  /\ Sends(<<"sync_next">>)
  /\ UNCHANGED <<flags, timers, lists, store, linkVars, radioVars>>

GetContacts == Sends(<<IF since = 0 THEN "get_all" ELSE "get_new">>)

HandlePathUpdated ==
  /\ Handles("path")
  /\ \/ up /\ ~syncing /\ syncing' = TRUE /\ GetContacts
     \/ ~(up /\ ~syncing) /\ SendsNothing /\ UNCHANGED syncing
  /\ UNCHANGED <<up, hasInfo, since, retries, timers, lists, store, linkVars, radioVars>>

Window ==
  \/ ReceiveFrame
  \/ HandleConnected
  \/ HandleDisconnected
  \/ HandleInit
  \/ HandleHandshake
  \/ HandleSelfInfo
  \/ HandleExportContact
  \/ HandleContactsStart
  \/ HandleContact
  \/ HandleContactsEnd
  \/ HandleMsg
  \/ HandleNoMore
  \/ HandleMsgWaiting
  \/ HandlePathUpdated

-----------------------------------------------------------------------------
(* The user, and the timers.                                               *)

(* MSG_SYNC_CONTACTS, from the menu: whether or not a sync is under way.   *)
UserSync ==
  /\ Room
  /\ syncing' = TRUE
  /\ GetContacts
  /\ UNCHANGED <<queue, up, hasInfo, since, retries, timers, lists, store, linkVars, radioVars>>

Posts(what) == queue' = Append(queue, Item(2, what, Nobody))

TickInit ==
  /\ initDue > 0
  /\ initDue' = initDue - 1
  /\ Posts("init")
  /\ UNCHANGED <<flags, handshake, lists, store, linkVars, sent, radioVars>>

(* A radio that has booted answers before the timer runs out.              *)
TickHandshake ==
  /\ "slow_boot" \in Hazards
  /\ handshake
  /\ \A i \in DOMAIN queue : queue[i].what # "handshake"
  /\ Posts("handshake")
  /\ UNCHANGED <<flags, timers, lists, store, linkVars, sent, radioVars>>

(* The port opens, when no earlier connection is in the window's mind.     *)
LinkUp ==
  /\ link = Nobody
  /\ ~up
  /\ links < NLinks
  /\ \A i \in DOMAIN queue : queue[i].what \notin {"connected", "disconnected"}
  /\ link' \in Companions
  /\ links' = links + 1
  /\ ready' \in {TRUE, "slow_boot" \notin Hazards}
  /\ Posts("connected")
  /\ UNCHANGED <<flags, timers, lists, store, raw, sent, dump, listing, inbox, home>>

(* The port closes.  All that the radio sent is in the queue by then, and  *)
(* may still have to pass it a second time.                                *)
LinkDown ==
  /\ link # Nobody
  /\ "late" \in Hazards \/ \A i \in DOMAIN queue : queue[i].what \notin Frames
  /\ link' = Nobody
  /\ raw' = FALSE
  /\ sent' = <<>>
  /\ dump' = {}
  /\ listing' = FALSE
  /\ Posts("disconnected")
  /\ UNCHANGED <<flags, timers, lists, store, links, ready, inbox, home>>

-----------------------------------------------------------------------------
(* The radio.                                                              *)

Answers(what, who) == queue' = IF raw THEN queue ELSE Append(queue, Item(1, what, who))

RadioBoots ==
  /\ link # Nobody
  /\ ~ready
  /\ ready' = TRUE
  /\ UNCHANGED <<queue, flags, timers, lists, store, linkVars, sent, dump, listing, inbox, home>>

TakesCommand(c) ==
  /\ Len(queue) < MaxQueue
  /\ link # Nobody
  /\ sent # <<>>
  /\ Head(sent) = c
  /\ sent' = Tail(sent)

RadioDrops ==
  /\ ~ready
  /\ \E c \in Commands : TakesCommand(c)
  /\ UNCHANGED <<queue, flags, timers, lists, store, linkVars, radioVars>>

RadioIntroduces ==
  /\ ready
  /\ \/ TakesCommand("app_start") /\ Answers("self_info", link)
     \/ TakesCommand("export_self") /\ Answers("export", link)
  /\ UNCHANGED <<flags, timers, lists, store, linkVars, radioVars>>

(* All contacts, or those that changed: any of them.  A second request is  *)
(* refused while the contacts are being sent.                              *)
RadioStartsListing ==
  /\ ready
  /\ \E c \in {"get_all", "get_new"} :
       /\ TakesCommand(c)
       /\ \/ listing /\ UNCHANGED <<queue, dump, listing>>
          \/ /\ ~listing
             /\ listing' = TRUE
             /\ dump' \in IF c = "get_all" THEN {Knows[link]} ELSE SUBSET Knows[link]
             /\ Answers("start", Nobody)
  /\ UNCHANGED <<flags, timers, lists, store, linkVars, ready, inbox, home>>

RadioLists ==
  /\ Len(queue) < MaxQueue
  /\ listing
  /\ \/ \E c \in dump :
          /\ \A d \in dump : c <= d
          /\ dump' = dump \ {c}
          /\ Answers("contact", c)
          /\ UNCHANGED listing
     \/ /\ dump = {}
        /\ listing' = FALSE
        /\ Answers("end", Nobody)
        /\ UNCHANGED dump
  /\ UNCHANGED <<flags, timers, lists, store, linkVars, sent, ready, inbox, home>>

RadioHandsOver ==
  /\ ready
  /\ TakesCommand("sync_next")
  /\ \/ /\ inbox[link] # <<>>
        /\ inbox' = [inbox EXCEPT ![link] = Tail(@)]
        /\ Answers("msg", Head(inbox[link]))
     \/ /\ inbox[link] = <<>>
        /\ Answers("no_more", Nobody)
        /\ UNCHANGED inbox
  /\ UNCHANGED <<flags, timers, lists, store, linkVars, ready, dump, listing, home>>

(* A message reaches a radio, which tells the program if it is there.      *)
MessageArrives(c) ==
  /\ Len(queue) < MaxQueue
  /\ \E m \in Msgs, who \in Knows[c] :
       /\ home[m].radio = Nobody
       /\ \A n \in Msgs : n < m => home[n].radio # Nobody
       /\ home' = [home EXCEPT ![m] = [radio |-> c, by |-> who]]
       /\ inbox' = [inbox EXCEPT ![c] = Append(@, m)]
  /\ IF link = c /\ ready THEN Answers("waiting", Nobody) ELSE UNCHANGED queue
  /\ UNCHANGED <<flags, timers, lists, store, linkVars, sent, ready, dump, listing>>

PathChanges ==
  /\ Room
  /\ link # Nobody /\ ready
  /\ queue = <<>>
  /\ Answers("path", Nobody)
  /\ UNCHANGED <<flags, timers, lists, store, linkVars, sent, radioVars>>

RadioServes == RadioBoots \/ RadioDrops \/ RadioIntroduces \/ RadioStartsListing \/ RadioHandsOver
Radio == RadioServes \/ RadioLists

Environment ==
  \/ UserSync
  \/ LinkUp
  \/ LinkDown
  \/ \E c \in Companions : MessageArrives(c)
  \/ PathChanges

Timers == TickInit \/ TickHandshake

Next == Window \/ Timers \/ Radio \/ Environment

Spec == Init /\ [][Next]_vars

(* The window's thread runs, the init message is delivered, the radio      *)
(* serves commands and goes on listing.  Strong fairness: only the bound   *)
(* MaxQueue ever disables the radio.                                       *)
Fairness ==
  /\ WF_vars(Window)
  /\ WF_vars(TickInit)
  /\ SF_vars(RadioServes)
  /\ SF_vars(RadioLists)

FairSpec == Spec /\ Fairness

-----------------------------------------------------------------------------
(* Properties.                                                             *)

(* A radio that boots slowly may hand a message over before it has said    *)
(* who it is; such a message, and no other, is filed under no companion.   *)
Unnamed(m) == "slow_boot" \in Hazards /\ \E c \in Contacts : <<Nobody, c, m>> \in db

(* Every row is filed under the radio its message came from.               *)
FiledRight == \A row \in db : row[1] = home[row[3]].radio \/ (row[1] = Nobody /\ Unnamed(row[3]))

(* While a companion is connected, the histories in the window, listed or  *)
(* parked, are made of messages that came from this companion.             *)
HistoriesApart ==
  link # Nobody => \A e \in ToSet(list) \cup ToSet(old) : \A m \in ToSet(e.hist) :
    home[m].radio = link \/ Unnamed(m)

(* While connected, the list holds the contacts of this companion, each    *)
(* once, whatever syncs were started, refused or cut off before.           *)
CleanList ==
  up /\ link # Nobody =>
    /\ \A i \in DOMAIN list : list[i].who \in Knows[link]
    /\ \A i, j \in DOMAIN list : list[i].who = list[j].who => i = j

(* What is filed and what is shown of a companion is its own, whichever    *)
(* companion was there before (MANUAL.md 953, 959).  Radios that are up in *)
(* time keep this without exception.  With slow ones the messages that are *)
(* filed under no companion are excepted: they are loaded for every radio  *)
(* that has no name yet when its contacts arrive, also for another one.    *)
CompanionsApart == FiledRight /\ HistoriesApart /\ CleanList

(* No message stands twice in a history: one that was shown on arrival is  *)
(* not loaded from the database again.                                     *)
ShownOnce == \A i \in DOMAIN list : \A j, k \in DOMAIN list[i].hist :
               list[i].hist[j] = list[i].hist[k] => j = k

(* No sync loses what is shown: until the connection ends, a message of a  *)
(* history stays in one, listed or parked, whichever contacts the radio    *)
(* sends, leaves out or refuses to send.                                   *)
Shown == {x \in Contacts \X Msgs :
  \E e \in ToSet(list) \cup ToSet(old) : e.who = x[1] /\ x[2] \in ToSet(e.hist)}
HistoryKept == [][up' => Shown \subseteq Shown']_vars

(* A connection to a radio that has booted ends up with its contacts.      *)
Complete == link # Nobody /\ \A c \in Knows[link] : Listed(list, c)
ContactsArrive == up ~> (~up \/ Complete)

(* A sync that was started ends, or the connection does.                   *)
SyncEnds == syncing /\ up ~> ~syncing \/ ~up

(* The first sync of a connection, and every other one, does its work      *)
(* (MainWindow.cpp, _OnConnected to _HandleContactsEnd).                   *)
SyncsSucceed == ContactsArrive /\ SyncEnds
=============================================================================
