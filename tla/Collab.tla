-------------------------------- MODULE Collab --------------------------------
(***************************************************************************)
(* Comments and presence on a report (src/internal/collab) as the pages    *)
(* that show it see them (src/web/src/pages/ReportPage.tsx): comments are  *)
(* listed once when the page opens and pushed afterwards through the hub,  *)
(* in the process or over Redis; presence is pushed only.                  *)
(*                                                                         *)
(* Every page is of another user, so that presence counts pages.  The hub  *)
(* holds one lock per step here, and the goroutine that serves a page's    *)
(* stream is between two of them in "joined", "publish", "left".           *)
(***************************************************************************)
EXTENDS Naturals, FiniteSets, Sequences

CONSTANTS Pages, Comments, Null,
          Buffer  \* capacity of a subscriber's channel

ASSUME CollabAssumption == Buffer \in Nat \ {0} /\ Null \notin Pages \cup Comments

VARIABLES
  fanout,    \* "local" or "redis": MemoryHub alone or RedisHub before it
  room,      \* the hub's subscribers
  chan,      \* their buffered channels
  srv,       \* the goroutine of each page's stream, with the presence it is to publish
  bus,       \* comments on their way through Redis
  status,    \* of a comment: "new", "committed" (not yet published), "sent"
  author,    \* the page that waits for the answer to creating it, or Null
  tab,       \* "closed" or "open"
  list,      \* the page's request for the comments: [at, rows]
  shown,     \* the comments a page shows
  presence,  \* the number of users a page shows
  missed,    \* history: comments a page cannot learn of any more, see Missed
  outdated   \* history: the last presence sent to a page was dropped or already old

serverVars == <<fanout, room, chan, srv, bus, status, author>>
pageVars == <<tab, list, shown, presence, missed, outdated>>
collabVars == <<fanout, room, chan, srv, bus, status, author,
               tab, list, shown, presence, missed, outdated>>

Committed == {c \in Comments : status[c] # "new"}

NoList == [at |-> "none", rows |-> {}]

Off == [at |-> "off", users |-> 0]

InitCollab ==
  /\ fanout \in {"local", "redis"}
  /\ room = {}
  /\ chan = [p \in Pages |-> <<>>]
  /\ srv = [p \in Pages |-> Off]
  /\ bus = <<>>
  /\ status = [c \in Comments |-> "new"]
  /\ author = [c \in Comments |-> Null]
  /\ tab = [p \in Pages |-> "closed"]
  /\ list = [p \in Pages |-> NoList]
  /\ shown = [p \in Pages |-> {}]
  /\ presence = [p \in Pages |-> 0]
  /\ missed = [p \in Pages |-> {}]
  /\ outdated = [p \in Pages |-> FALSE]

-----------------------------------------------------------------------------
(* The hub.                                                                *)

Fits(p) == p \in room /\ Len(chan[p]) < Buffer

\* A page that does not show c, and whose list has been read without c, has missed it.
Missed(p, c) ==
  list[p].at \in {"sent", "done"} /\ c \notin shown[p] \cup list[p].rows

\* MemoryHub.Publish: a subscriber whose buffer is full is passed over.
Publish(ev) == chan' = [p \in Pages |-> IF Fits(p) THEN Append(chan[p], ev) ELSE chan[p]]

PublishComment(c) ==
  /\ Publish([comment |-> c, users |-> 0])
  /\ missed' = [p \in Pages |-> missed[p] \cup {x \in {c} : ~Fits(p) /\ Missed(p, x)}]

\* The event is lost on the way to the hub.
LoseComment(c) ==
  /\ missed' = [p \in Pages |-> missed[p] \cup {x \in {c} : Missed(p, x)}]
  /\ UNCHANGED chan

\* Subscribe: a fresh channel joins the room ...
Join(p) ==
  /\ room' = room \cup {p}
  /\ chan' = [chan EXCEPT ![p] = <<>>]
  /\ srv' = [srv EXCEPT ![p] = [at |-> "joined", users |-> 0]]

\* Mutant of Leave: whoever leaves does not tell the others.
LeaveSilently(p) ==
  /\ room' = room \ {p}
  /\ chan' = [chan EXCEPT ![p] = <<>>]
  /\ srv' = [srv EXCEPT ![p] = Off]

\* ... and unsubscribe takes it out and closes it, under the same lock.
Leave(p) ==
  /\ room' = room \ {p}
  /\ chan' = [chan EXCEPT ![p] = <<>>]
  /\ srv' = [srv EXCEPT ![p] = [at |-> "left", users |-> 0]]

\* broadcastPresence reads the room under one lock ...
presenceLocked(p) ==
  /\ srv[p].at \in {"joined", "left"}
  /\ srv' = [srv EXCEPT ![p] = [at |-> IF srv[p].at = "joined" THEN "publish" ELSE "leave",
                                users |-> Cardinality(room)]]
  /\ UNCHANGED <<fanout, room, chan, bus, status, author, pageVars>>

\* ... and publishes it under another, in this process only.
broadcastPresence(p) ==
  /\ srv[p].at \in {"publish", "leave"}
  /\ Publish([comment |-> Null, users |-> srv[p].users])
  /\ outdated' = [x \in Pages |->
                    IF x \in room THEN ~Fits(x) \/ srv[p].users # Cardinality(room)
                    ELSE outdated[x]]
  /\ srv' = [srv EXCEPT ![p] = IF srv[p].at = "publish" THEN [at |-> "stream", users |-> 0] ELSE Off]
  /\ UNCHANGED <<fanout, room, bus, status, author, tab, list, shown, presence, missed>>

\* RedisHub.Publish: the error of a PUBLISH is dropped.
RedisPublish(c) ==
  \/ bus' = Append(bus, c) /\ UNCHANGED <<chan, missed>>
  \/ LoseComment(c) /\ UNCHANGED bus

\* forward hands what Redis delivers to the local hub.  A connection that breaks loses
\* what is on its way; a forwarder whose first Receive failed has returned, and loses all.
Forward ==
  /\ bus # <<>>
  /\ bus' = Tail(bus)
  /\ PublishComment(Head(bus)) \/ LoseComment(Head(bus))
  /\ UNCHANGED <<fanout, room, srv, status, author, tab, list, shown, presence, outdated>>

-----------------------------------------------------------------------------
(* Creating a comment.                                                     *)

\* The transaction that inserts the row and its event.  A lost reply to the COMMIT leaves
\* the row, but nothing is published and the author is told of an error.
InsertComment(p, c) ==
  \/ /\ status' = [status EXCEPT ![c] = "committed"]
     /\ author' = [author EXCEPT ![c] = p]
     /\ UNCHANGED missed
  \/ /\ status' = [status EXCEPT ![c] = "sent"]
     /\ missed' = [x \in Pages |-> missed[x] \cup {y \in {c} : Missed(x, y)}]
     /\ UNCHANGED author

\* Up to and including the insert; a request that is refused leaves nothing.  The form is
\* there once the report is loaded, and busy until the answer.
CreateComment(p, c) ==
  /\ list[p].at = "done" /\ \A x \in Comments : author[x] # p
  /\ status[c] = "new"
  /\ InsertComment(p, c)
  /\ UNCHANGED <<fanout, room, chan, srv, bus, tab, list, shown, presence, outdated>>

\* hub.Publish after the commit.
PublishCreated(c) ==
  /\ status[c] = "committed"
  /\ status' = [status EXCEPT ![c] = "sent"]
  /\ \/ fanout = "local" /\ PublishComment(c) /\ UNCHANGED bus
     \/ fanout = "redis" /\ RedisPublish(c)
  /\ UNCHANGED <<fanout, room, srv, author, tab, list, shown, presence, outdated>>

\* onComment adds the comment of the answer unless the stream already has.
onComment(c) ==
  /\ status[c] = "sent" /\ author[c] # Null
  /\ author' = [author EXCEPT ![c] = Null]
  /\ shown' = [shown EXCEPT ![author[c]] = @ \cup {c}]
  /\ missed' = [missed EXCEPT ![author[c]] = @ \ {c}]
  /\ UNCHANGED <<fanout, room, chan, srv, bus, status, tab, list, presence, outdated>>

-----------------------------------------------------------------------------
(* A page: load and the event stream start together.                       *)

Open(p) ==
  /\ tab[p] = "closed" /\ srv[p].at = "off"
  /\ tab' = [tab EXCEPT ![p] = "open"]
  /\ list' = [list EXCEPT ![p] = [at |-> "asked", rows |-> {}]]
  /\ shown' = [shown EXCEPT ![p] = {}]
  /\ presence' = [presence EXCEPT ![p] = 0]
  /\ missed' = [missed EXCEPT ![p] = {}]
  /\ outdated' = [outdated EXCEPT ![p] = FALSE]
  /\ UNCHANGED serverVars

\* What the SELECT finds.  A request that fails leaves the page as it is.
ListComments(p) ==
  /\ list[p].at = "asked"
  /\ list' = [list EXCEPT ![p] = [at |-> "sent", rows |-> Committed]]
  /\ UNCHANGED <<serverVars, tab, shown, presence, missed, outdated>>

\* setComments replaces what the page shows, an event that came first included.
load(p) ==
  /\ list[p].at = "sent"
  /\ shown' = [shown EXCEPT ![p] = list[p].rows]
  /\ missed' = [missed EXCEPT ![p] = @ \cup (shown[p] \ list[p].rows)]
  /\ list' = [list EXCEPT ![p] = [at |-> "done", rows |-> {}]]
  /\ UNCHANGED <<serverVars, tab, presence, outdated>>

\* Events: authorise and subscribe.  A refused EventSource does not try again: its page
\* stays in this state.
Subscribe(p) ==
  /\ tab[p] = "open" /\ srv[p].at = "off"
  /\ Join(p)
  /\ UNCHANGED <<fanout, bus, status, author, pageVars>>

\* Mutant of Apply: comments that come before the list are left to it.
ApplyAfterLoad(p, ev) ==
  \/ /\ ev.comment # Null
     /\ shown' = [shown EXCEPT ![p] = IF list[p].at = "done" THEN @ \cup {ev.comment} ELSE @]
     /\ UNCHANGED <<missed, presence>>
  \/ /\ ev.comment = Null
     /\ presence' = [presence EXCEPT ![p] = ev.users]
     /\ UNCHANGED <<shown, missed>>

\* comment.created adds a comment the page does not have, presence.updated counts.
Apply(p, ev) ==
  \/ /\ ev.comment # Null
     /\ shown' = [shown EXCEPT ![p] = @ \cup {ev.comment}]
     /\ missed' = [missed EXCEPT ![p] = @ \ {ev.comment}]
     /\ UNCHANGED presence
  \/ /\ ev.comment = Null
     /\ presence' = [presence EXCEPT ![p] = ev.users]
     /\ UNCHANGED <<shown, missed>>

Receive(p) ==
  /\ srv[p].at = "stream" /\ tab[p] = "open" /\ chan[p] # <<>>
  /\ Apply(p, Head(chan[p]))
  /\ chan' = [chan EXCEPT ![p] = Tail(@)]
  /\ UNCHANGED <<fanout, room, srv, bus, status, author, tab, list, outdated>>

\* The connection ends, by the network or because the page was left; the handler notices
\* at a write or by its context, and a page that is still there subscribes again.
Disconnect(p) ==
  /\ srv[p].at = "stream"
  /\ Leave(p)
  /\ missed' = [missed EXCEPT ![p] =
       @ \cup {c \in Comments : Missed(p, c) /\ \E i \in DOMAIN chan[p] : chan[p][i].comment = c}]
  /\ UNCHANGED <<fanout, bus, status, author, tab, list, shown, presence, outdated>>

Close(p) ==
  /\ tab[p] = "open"
  /\ tab' = [tab EXCEPT ![p] = "closed"]
  /\ list' = [list EXCEPT ![p] = NoList]
  /\ shown' = [shown EXCEPT ![p] = {}]
  /\ presence' = [presence EXCEPT ![p] = 0]
  /\ missed' = [missed EXCEPT ![p] = {}]
  /\ outdated' = [outdated EXCEPT ![p] = FALSE]
  /\ author' = [c \in Comments |-> IF author[c] = p THEN Null ELSE author[c]]
  /\ UNCHANGED <<fanout, room, chan, srv, bus, status>>

PageStep(p) ==
  \/ Open(p) \/ ListComments(p) \/ load(p) \/ Subscribe(p) \/ presenceLocked(p)
  \/ broadcastPresence(p) \/ Receive(p) \/ Disconnect(p) \/ Close(p)

NextCollab ==
  \/ \E p \in Pages : PageStep(p) \/ \E c \in Comments : CreateComment(p, c)
  \/ \E c \in Comments : PublishCreated(c) \/ onComment(c)
  \/ Forward

CollabSpec == InitCollab /\ [][NextCollab]_collabVars

-----------------------------------------------------------------------------
\* Every variable keeps its type; no channel is longer than its buffer.
CollabTypeOK ==
  /\ fanout \in {"local", "redis"}
  /\ room \subseteq Pages
  /\ chan \in [Pages -> Seq([comment: Comments \cup {Null}, users: Nat])]
  /\ \A p \in Pages : Len(chan[p]) <= Buffer /\ (p \notin room => chan[p] = <<>>)
  /\ srv \in [Pages -> [at: {"off", "joined", "publish", "stream", "left", "leave"}, users: Nat]]
  /\ bus \in Seq(Comments)
  /\ status \in [Comments -> {"new", "committed", "sent"}]
  /\ author \in [Comments -> Pages \cup {Null}]
  /\ tab \in [Pages -> {"closed", "open"}]
  /\ list \in [Pages -> [at: {"none", "asked", "sent", "done"}, rows: SUBSET Comments]]
  /\ shown \in [Pages -> SUBSET Comments]
  /\ presence \in [Pages -> Nat]
  /\ missed \in [Pages -> SUBSET Comments]
  /\ outdated \in [Pages -> BOOLEAN]

Streaming(p) == tab[p] = "open" /\ srv[p].at = "stream" /\ chan[p] = <<>>

\* Once nothing is on its way a page with a stream shows exactly the comments of the
\* database, but for those it missed: published or lost on the way while the page was not
\* subscribed or its buffer was full, lost with a connection, or overwritten by a list
\* that had been read before them.  Each of these takes the list to be older than the
\* comment; a comment is never lost to a page whose list is read after it.
CommentsShown ==
  bus = <<>> /\ (\A c \in Comments : status[c] # "committed") =>
    \A p \in Pages : Streaming(p) /\ list[p].at = "done" =>
      shown[p] = Committed \ missed[p]

\* When no presence is on its way every page shows the number of users in the room, unless
\* the last presence sent to it was dropped or was read before the room changed again
\* (two broadcasts in the order of the second lock, not of the first).
PresenceSettles ==
  (\A p \in Pages : srv[p].at \in {"off", "stream"}) =>
    \A p \in Pages : Streaming(p) /\ ~outdated[p] => presence[p] = Cardinality(room)
=============================================================================
