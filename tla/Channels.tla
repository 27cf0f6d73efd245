-------------------------------- MODULE Channels --------------------------------
(***************************************************************************)
(* The channels of the radio and what the window makes of them: the list   *)
(* it builds by asking for one slot after the other, the messages it files *)
(* under a slot, their rows in the database and on the screen, and the     *)
(* slots it writes when the user makes, removes or imports a channel.      *)
(*                                                                         *)
(* Commands reach the radio in order, and its frames the window; a frame   *)
(* read before the link was lost is still handled after it.  The names of  *)
(* the radio's slots, the list, the rows and the screen are all keyed by   *)
(* slot and never by channel.                                              *)
(***************************************************************************)
EXTENDS Integers, Sequences, SequencesExt, FiniteSets

CONSTANTS
  NSlots,   \* max_channels of the device
  Names,    \* what channels are called
  Empty,    \* the name of a slot without a channel
  Page,     \* kMessagePageSize
  NStored,  \* bound: messages that earlier runs of the program stored
  NMsgs,    \* bound: messages stored, sent and received
  NEvents   \* bound: what the user asks for, losses of the link, and commands of
            \* others that the radio answers with NOT_FOUND, all together

ASSUME SizesAssumption == NSlots \in Nat \ {0} /\ Empty \notin Names /\ Page \in Nat \ {0}
ASSUME BoundsAssumption == NMsgs \in Nat /\ NStored \in 0 .. NMsgs /\ NEvents \in Nat

Slots == 0 .. NSlots - 1
NoSlot == -1

VARIABLES
  radio,       \* the name of each slot on the device
  up,          \* commands on their way to the radio
  inbox,       \* frames on their way to the window
  connected,   \* fConnected
  known,       \* the radio has said who it is: fHasDeviceInfo, and fCompanionKey is its key
  inits,       \* MSG_POST_CONNECT_INIT still to be posted
  max,         \* fMaxChannels
  channels,    \* fChannels, each with its messages in memory
  enumerating, \* fEnumeratingChannels
  index,       \* fChannelEnumIndex
  db,          \* rows of this companion in the database, as <<slot, message>>
  shown,       \* fSelectedChannelIdx, with fSendingToChannel
  view,        \* the rows of the chat view
  searching,   \* fSearchActive
  at,          \* history: the slot of each message, in the order of their timestamps
  calm,        \* history: this enumeration began alone and nothing came between
  doubt,       \* history: slots whose messages in memory went their own way while calm
  events       \* what is left of the bound

air == <<radio, up, inbox>>
list == <<max, channels, enumerating, index>>
screen == <<shown, view, searching>>
history == <<at, calm, doubt>>
vars == <<air, connected, known, inits, list, db, screen, history, events>>

Frame(what, slot, name) == [what |-> what, slot |-> slot, name |-> name, sure |-> FALSE, id |-> 0]
Ask(what) == Frame(what, 0, Empty)
Get(slot) == Frame("get", slot, Empty)
Set(slot, name) == Frame("set", slot, name)
Message(slot, m) == [Frame("message", slot, Empty) EXCEPT !.id = m]

Frames == [what : {"start", "query", "get", "set", "self", "device", "info", "error", "message"},
           slot : Slots, name : Names \cup {Empty}, sure : BOOLEAN, id : 0 .. NMsgs]
\* The row that says that nothing was found.
NoResult == 0
Rows == 0 .. NMsgs

TypeOK ==
  /\ radio \in [Slots -> Names \cup {Empty}]
  /\ up \in Seq(Frames) /\ inbox \in Seq(Frames)
  /\ connected \in BOOLEAN /\ known \in BOOLEAN /\ inits \in Nat
  /\ max \in {0, NSlots}
  /\ channels \in Seq([slot : Slots, name : Names, msgs : Seq(Rows \ {NoResult})])
  /\ enumerating \in BOOLEAN /\ index \in 0 .. NSlots
  /\ db \subseteq Slots \X (Rows \ {NoResult})
  /\ shown \in Slots \cup {NoSlot} /\ view \in Seq(Rows) /\ searching \in BOOLEAN
  /\ at \in Seq(Slots) /\ calm \in BOOLEAN /\ doubt \subseteq Slots
  /\ events \in 0 .. NEvents

(* The radio holds channels of different names, and the database messages   *)
(* of theirs from earlier runs of the program.                             *)
Init ==
  /\ radio \in [Slots -> Names \cup {Empty}]
  /\ \A s, t \in Slots : radio[s] = radio[t] => s = t \/ radio[s] = Empty
  /\ up = <<>> /\ inbox = <<>>
  /\ connected = FALSE /\ known = FALSE /\ inits = 0
  /\ max = 0 /\ channels = <<>> /\ enumerating = FALSE /\ index = 0
  /\ \E n \in 0 .. NStored : at \in [1 .. n -> {s \in Slots : radio[s] # Empty}]
  /\ db = {<<at[m], m>> : m \in DOMAIN at}
  /\ shown = NoSlot /\ view = <<>> /\ searching = FALSE
  /\ calm = FALSE /\ doubt = {}
  /\ events = NEvents

-----------------------------------------------------------------------------
(* What the handlers are made of.                                          *)

IsListed(slot) == \E i \in DOMAIN channels : channels[i].slot = slot
Place(slot) == CHOOSE i \in DOMAIN channels : channels[i].slot = slot
Channel(slot, name) == [slot |-> slot, name |-> name, msgs |-> <<>>]
MessagesOf(slot) == IF IsListed(slot) THEN channels[Place(slot)].msgs ELSE <<>>

StoredOf(slot) == {m \in 1 .. Len(at) : <<slot, m>> \in db}

(* Rows come oldest first.                                                 *)
Oldest(rows) ==
  CHOOSE s \in [1 .. Cardinality(rows) -> rows] : \A i, j \in DOMAIN s : i < j => s[i] < s[j]

(* LoadMessages adds the stored rows, oldest first, to what is in memory.  *)
LoadMessages(slot, msgs) == IF known THEN msgs \o Oldest(StoredOf(slot)) ELSE msgs
Loaded == [i \in DOMAIN channels |->
            [channels[i] EXCEPT !.msgs = LoadMessages(channels[i].slot, @)]]

(* InsertMessage files the row under the companion, once there is one.     *)
InsertMessage(slot, m) == db' = IF known THEN db \cup {<<slot, m>>} ELSE db

(* The same, with the slot for a place in the list.                        *)
FiledAt(slot, m) ==
  IF slot + 1 \in DOMAIN channels
  THEN [channels EXCEPT ![slot + 1].msgs = Append(@, m)]
  ELSE channels

(* AddItem to the messages of the first channel of that slot.              *)
Filed(slot, m) ==
  IF IsListed(slot)
  THEN [channels EXCEPT ![Place(slot)].msgs = Append(@, m)]
  ELSE channels

LastPage(msgs) == SubSeq(msgs, IF Len(msgs) > Page THEN Len(msgs) - Page + 1 ELSE 1, Len(msgs))

Send(frames) == up' = IF connected THEN up \o frames ELSE up

Doubts(slot, why) == doubt' = IF calm /\ why THEN doubt \cup {slot} ELSE doubt
StaysCalm(when) == calm' = (calm /\ when) /\ doubt' = IF when THEN doubt ELSE {}

(* A click of the user, a loss or an error, while the bound leaves one.     *)
Happens == events > 0 /\ events' = events - 1

(* Answers to the window's own requests that are still to come.            *)
Asking ==
  \/ \E i \in DOMAIN up : up[i].what = "get"
  \/ \E i \in DOMAIN inbox : inbox[i].what = "info"

-----------------------------------------------------------------------------
(* The link.                                                               *)

OnConnected ==
  /\ ~connected
  /\ connected' = TRUE
  /\ up' = <<Ask("start")>>
  /\ inits' = inits + 1
  /\ UNCHANGED <<radio, inbox, known, list, db, screen, history, events>>

(* The list, the number of slots and the channel shown are kept.           *)
OnDisconnected ==
  /\ connected
  /\ Happens
  /\ connected' = FALSE /\ known' = FALSE
  /\ enumerating' = FALSE
  /\ view' = <<>>
  /\ up' = <<>>
  /\ StaysCalm(FALSE)
  /\ UNCHANGED <<radio, inbox, inits, max, channels, index, db, shown, searching, at>>

(* 100 ms after a connection, whatever connection there is by then.        *)
PostConnectInit ==
  /\ inits > 0
  /\ inits' = inits - 1
  /\ Send(<<Ask("query")>>)
  /\ UNCHANGED <<radio, inbox, connected, known, list, db, screen, history, events>>

DeviceQuery ==
  /\ connected /\ ~known
  /\ Send(<<Ask("query")>>)
  /\ Happens
  /\ UNCHANGED <<radio, inbox, connected, known, inits, list, db, screen, history>>

-----------------------------------------------------------------------------
(* The radio.                                                              *)

Serves(what) ==
  /\ up # <<>> /\ Head(up).what = what
  /\ up' = Tail(up)
  /\ UNCHANGED <<connected, known, inits, list, db, screen, history, events>>

RadioStarts ==
  /\ Serves("start")
  /\ inbox' = Append(inbox, Ask("self"))
  /\ UNCHANGED radio
RadioTells ==
  /\ Serves("query")
  /\ inbox' = Append(inbox, Ask("device"))
  /\ UNCHANGED radio
RadioGets ==
  /\ Serves("get")
  /\ inbox' = Append(inbox, Frame("info", Head(up).slot, radio[Head(up).slot]))
  /\ UNCHANGED radio
RadioSets ==
  /\ Serves("set")
  /\ radio' = [radio EXCEPT ![Head(up).slot] = Head(up).name]
  /\ UNCHANGED inbox

RadioComplains ==
  /\ connected
  /\ Happens
  /\ inbox' = Append(inbox, Ask("error"))
  /\ UNCHANGED <<radio, up, connected, known, inits, list, db, screen, history>>

RadioHears(slot) ==
  /\ connected /\ radio[slot] # Empty /\ Len(at) < NMsgs
  /\ at' = Append(at, slot)
  /\ inbox' = Append(inbox, Message(slot, Len(at) + 1))
  /\ UNCHANGED <<radio, up, connected, known, inits, list, db, screen, calm, doubt, events>>

-----------------------------------------------------------------------------
(* The frames the window handles.                                          *)

Handles(what) ==
  /\ inbox # <<>> /\ Head(inbox).what = what
  /\ inbox' = Tail(inbox)
  /\ UNCHANGED <<radio, connected, inits, events>>
Slot == Head(inbox).slot

SelfInfo ==
  /\ Handles("self")
  /\ known' = TRUE
  /\ UNCHANGED <<up, list, db, screen, history>>

DeviceInfo ==
  /\ Handles("device")
  /\ max' = NSlots
  /\ channels' = <<>>
  /\ index' = 0
  /\ enumerating' = TRUE
  /\ Send(<<Get(0)>>)
  /\ calm' = (connected /\ ~Asking)
  /\ doubt' = {}
  /\ UNCHANGED <<known, db, screen, at>>

(* Any slot will do before the device has told how many it has.            *)
Known(slot) == max > 0 => slot < max

(* Listed whether or not the slot is already there.                        *)
AddedAgain ==
  IF Known(Slot) /\ Head(inbox).name # Empty
  THEN Append(channels, Channel(Slot, Head(inbox).name))
  ELSE channels

(* An answer for a slot already listed is ignored.                         *)
Added ==
  IF Known(Slot) /\ Head(inbox).name # Empty /\ ~IsListed(Slot)
  THEN Append(channels, Channel(Slot, Head(inbox).name))
  ELSE channels

(* The same with an unnamed slot for the end.                              *)
ChannelInfoNamed ==
  /\ Handles("info")
  /\ enumerating' = (enumerating /\ index + 1 < max)
  /\ index' = index + 1
  /\ IF enumerating' /\ Head(inbox).name # Empty THEN Send(<<Get(index + 1)>>) ELSE UNCHANGED up
  /\ channels' = Added
  /\ UNCHANGED <<known, max, db, screen, history>>

(* The last answer ends the enumeration and loads what is stored.          *)
ChannelInfo ==
  /\ Handles("info")
  /\ \/ /\ enumerating /\ index + 1 < max
        /\ index' = index + 1
        /\ Send(<<Get(index + 1)>>)
        /\ channels' = Added
        /\ UNCHANGED enumerating
     \/ /\ enumerating /\ index + 1 >= max
        /\ index' = index + 1
        /\ enumerating' = FALSE
        /\ channels' = [i \in DOMAIN Added |->
                         [Added[i] EXCEPT !.msgs = LoadMessages(Added[i].slot, @)]]
        /\ UNCHANGED up
     \/ /\ ~enumerating
        /\ channels' = Added
        /\ UNCHANGED <<index, enumerating, up>>
  /\ UNCHANGED <<known, max, db, screen, history>>

(* NOT_FOUND is taken for the end of the enumeration, whoever asked.       *)
CmdError ==
  /\ Handles("error")
  /\ enumerating' = FALSE
  /\ channels' = IF enumerating THEN Loaded ELSE channels
  /\ StaysCalm(~enumerating)
  /\ UNCHANGED <<up, known, max, index, db, screen, at>>

(* Some channel is shown.                                                  *)
IsCurrentAny(slot) == shown # NoSlot
IsCurrentChannel(slot) == shown = slot

(* A message for a slot that is not listed is not stored.                  *)
ChannelMsgRecv ==
  /\ Handles("message")
  /\ channels' = Filed(Slot, Head(inbox).id)
  /\ IF IsListed(Slot) THEN InsertMessage(Slot, Head(inbox).id) ELSE UNCHANGED db
  /\ view' = IF IsCurrentChannel(Slot) THEN Append(view, Head(inbox).id) ELSE view
  /\ Doubts(Slot, enumerating /\ IsListed(Slot))
  /\ UNCHANGED <<up, known, max, enumerating, index, shown, searching, at, calm>>

-----------------------------------------------------------------------------
(* What the user does to channels.                                         *)

(* As if the listed channels were the first ones.                          *)
FreeSlotsAfter == {s \in Slots : s < max /\ s >= Len(channels)}
FreeSlots == {s \in Slots : s < max /\ ~IsListed(s)}
EmptySlot == CHOOSE s \in FreeSlots : \A t \in FreeSlots : s <= t

(* The window trusts its list: sure says that it may.                      *)
AddChannel(slot, name) ==
  /\ up' = Append(up, [Set(slot, name) EXCEPT !.sure = calm /\ ~enumerating])
  /\ channels' = Append(channels, Channel(slot, name))
  /\ Doubts(slot, StoredOf(slot) # {})
  /\ UNCHANGED <<radio, inbox, connected, known, inits, max, enumerating, index, db, screen,
                 at, calm>>

CreateChannel(name) ==
  /\ Happens /\ connected
  /\ \A i \in DOMAIN channels : channels[i].name # name
  /\ FreeSlots # {}
  /\ AddChannel(EmptySlot, name)

(* A community made or joined: its name is not looked up.                  *)
AddCommunity(name) ==
  /\ Happens /\ connected
  /\ FreeSlots # {}
  /\ AddChannel(EmptySlot, name)

AddPublicChannel(name) ==
  /\ Happens /\ connected
  /\ ~IsListed(0)
  /\ AddChannel(0, name)

(* The stored messages stay; an item of an old list may be clicked.        *)
RemoveChannel(slot) ==
  /\ Happens /\ connected
  /\ IsListed(slot) \/ enumerating
  /\ Send(<<Set(slot, Empty)>>)
  /\ channels' = IF IsListed(slot) THEN RemoveAt(channels, Place(slot)) ELSE channels
  /\ shown' = IF shown = slot THEN NoSlot ELSE shown
  /\ StaysCalm(~enumerating)
  /\ UNCHANGED <<radio, inbox, connected, known, inits, max, enumerating, index, db,
                 view, searching, at>>

(* A profile with one channel: written, then all slots are asked again.    *)
ImportChannels(slot, name) ==
  /\ Happens /\ connected
  /\ Send(<<Set(slot, name), Get(0)>>)
  /\ enumerating' = TRUE /\ index' = 0
  /\ StaysCalm(FALSE)
  /\ UNCHANGED <<radio, inbox, connected, known, inits, max, channels, db, screen, at>>

-----------------------------------------------------------------------------
(* What the user does to messages.                                         *)

SelectChannel(slot) ==
  /\ IsListed(slot) \/ enumerating
  /\ shown' = slot
  /\ view' = LastPage(MessagesOf(slot))
  /\ UNCHANGED <<air, connected, known, inits, list, db, searching, history, events>>

(* A contact is selected instead; its own messages are not followed.       *)
SelectContact ==
  /\ Happens /\ shown # NoSlot
  /\ shown' = NoSlot
  /\ view' = <<>>
  /\ UNCHANGED <<air, connected, known, inits, list, db, searching, history>>

SendChannelMessage ==
  /\ Happens /\ connected /\ shown # NoSlot /\ Len(at) < NMsgs
  /\ at' = Append(at, shown)
  /\ channels' = Filed(shown, Len(at) + 1)
  /\ InsertMessage(shown, Len(at) + 1)
  /\ view' = Append(view, Len(at) + 1)
  /\ Doubts(shown, enumerating /\ IsListed(shown))
  /\ UNCHANGED <<air, connected, known, inits, max, enumerating, index, shown, searching, calm>>

(* The row is deleted from the database by its text and time, from memory  *)
(* by its place on the screen.                                             *)
DeleteMessage(i) ==
  /\ Happens /\ shown # NoSlot
  /\ i \in DOMAIN view
  /\ db' = IF known THEN db \ {<<shown, view[i]>>} ELSE db
  /\ channels' =
       IF i <= Len(MessagesOf(shown))
       THEN [channels EXCEPT ![Place(shown)].msgs = RemoveAt(@, i)]
       ELSE channels
  /\ view' = RemoveAt(view, i)
  /\ Doubts(shown,
            \/ i <= Len(MessagesOf(shown)) /\ MessagesOf(shown)[i] # view[i]
            \/ i > Len(MessagesOf(shown)) /\ Contains(MessagesOf(shown), view[i]))
  /\ UNCHANGED <<air, connected, known, inits, max, enumerating, index, shown, searching,
                 at, calm>>

(* The view is emptied whichever channel it shows.                         *)
ClearChat(slot) ==
  /\ Happens
  /\ IsListed(slot) \/ enumerating
  /\ channels' = IF IsListed(slot) THEN [channels EXCEPT ![Place(slot)].msgs = <<>>] ELSE channels
  /\ db' = IF known THEN {row \in db : row[1] # slot} ELSE db
  /\ view' = <<>>
  /\ UNCHANGED <<air, connected, known, inits, max, enumerating, index, shown, searching, history>>

(* A search finds rows of every channel.                                   *)
PerformSearch(found) ==
  /\ Happens
  /\ found \subseteq {row[2] : row \in db} /\ (~known => found = {})
  /\ searching' = TRUE
  /\ view' = IF found = {} THEN <<NoResult>> ELSE Oldest(found)
  /\ UNCHANGED <<air, connected, known, inits, list, db, shown, history>>

CloseSearch ==
  /\ searching
  /\ searching' = FALSE
  /\ view' = IF shown # NoSlot THEN MessagesOf(shown) ELSE <<>>
  /\ UNCHANGED <<air, connected, known, inits, list, db, shown, history, events>>

-----------------------------------------------------------------------------
Link == OnConnected \/ OnDisconnected \/ PostConnectInit \/ DeviceQuery
RadioServes == RadioStarts \/ RadioTells \/ RadioGets \/ RadioSets
Handler == SelfInfo \/ DeviceInfo \/ ChannelInfo \/ CmdError \/ ChannelMsgRecv
Edit ==
  \/ \E n \in Names : CreateChannel(n) \/ AddCommunity(n) \/ AddPublicChannel(n)
  \/ \E s \in Slots : RemoveChannel(s) \/ \E n \in Names : ImportChannels(s, n)
Chat ==
  \/ \E s \in Slots : SelectChannel(s) \/ ClearChat(s)
  \/ SelectContact \/ SendChannelMessage \/ CloseSearch
  \/ \E i \in 1 .. NMsgs : DeleteMessage(i)
  \/ \E found \in SUBSET (1 .. NMsgs) : PerformSearch(found)

Next ==
  \/ Link \/ RadioServes \/ RadioComplains \/ Handler \/ Edit \/ Chat
  \/ \E s \in Slots : RadioHears(s)

Spec == Init /\ [][Next]_vars

-----------------------------------------------------------------------------
(* Properties.                                                             *)

(* No slot is listed twice, whatever answers come for it: everything that  *)
(* looks a channel up stops at the first of its slot.                      *)
SlotsDistinct ==
  \A i, j \in DOMAIN channels : channels[i].slot = channels[j].slot => i = j

(* Once an undisturbed enumeration is over and no slot is being written,   *)
(* the list is what the radio holds, also after channels were made and     *)
(* removed in any order.                                                   *)
ListMatchesRadio ==
  calm /\ connected /\ ~enumerating /\ (\A i \in DOMAIN up : up[i].what # "set")
    => {<<channels[i].slot, channels[i].name>> : i \in DOMAIN channels}
         = {<<s, radio[s]>> : s \in {t \in Slots : radio[t] # Empty}}

ListRight == SlotsDistinct /\ ListMatchesRadio

(* The messages in memory are those stored, each once: what is shown now   *)
(* is what will be shown after a restart.  Of a channel that got a message *)
(* while the slots were asked, lost a row that was not at its place or     *)
(* took a slot with stored messages, nothing is said.                      *)
HistoryIsStored ==
  calm /\ connected /\ known /\ ~enumerating
    => \A i \in DOMAIN channels :
         channels[i].slot \notin doubt
           => /\ ToSet(channels[i].msgs) = StoredOf(channels[i].slot)
              /\ IsInjective(channels[i].msgs)

(* What is on the screen belongs to the channel that an answer would go    *)
(* to, outside of search results, and is stored under that slot alone.     *)
ScreenIsOfShown ==
  /\ ~searching /\ shown # NoSlot => \A i \in DOMAIN view : view[i] # NoResult /\ at[view[i]] = shown
  /\ \A row \in db : at[row[2]] = row[1]

(* A channel the user makes, while the list may be trusted, never replaces *)
(* another one on the radio.                                               *)
CreateKeeps ==
  [][up # <<>> /\ up' = Tail(up) /\ Head(up).what = "set" /\ Head(up).sure
       => radio[Head(up).slot] = Empty]_vars

(* An enumeration under way always has an answer to come, of its own or of *)
(* the device query that begins another: with a radio that answers it ends.*)
EnumerationFed ==
  enumerating /\ connected
    => \/ Asking \/ inits > 0
       \/ \E i \in DOMAIN up : up[i].what \in {"query", "get"}
       \/ \E i \in DOMAIN inbox : inbox[i].what = "device"
=============================================================================
