------------------------------ MODULE ChatClient ------------------------------
(***************************************************************************)
(* The chat window of the browser (static/modules/chat.js, chat_ui.js,     *)
(* ws_client.js), its requests to the message routes, and the results the  *)
(* server pushes to it over the user's websocket.                          *)
(*                                                                         *)
(* One window is reused for every conversation: opening another one        *)
(* changes chatState and empties the container, but requests that are on   *)
(* their way keep their continuation, which reads chatState when it runs.  *)
(* Every request is served and answered at its own time.                   *)
(*                                                                         *)
(* A bubble remembers the agent whose conversation it belongs to, which    *)
(* the page does not: the properties compare it with the open window.      *)
(***************************************************************************)
EXTENDS Integers, Sequences, FiniteSets

CONSTANTS
  Agents,    \* who can be talked to
  Convs,     \* ids of conversations, handed out in order
  Slots,     \* requests that may be on their way at once
  PageSize,  \* PAGE_SIZE
  MaxRows,   \* bound on the rows of messages
  MaxShown,  \* bound on the bubbles a user still writes under
  Leaves,    \* the requests during which the user may change windows
  Fails,     \* the requests that may fail; "ws": the websocket may drop
  NoAgent

VARIABLES
  peer,   \* conversations.agent_id; NoAgent: no such row
  rows,   \* messages, by id
  queue,  \* ids on their way through the websocket
  linked, \* the websocket is open
  win,    \* chatState
  shown,  \* the bubbles of #chat-messages
  calls   \* requests on their way

cvars == << peer, rows, queue, linked, win, shown, calls >>

-----------------------------------------------------------------------------
(* Data *)

Closed == [agent |-> NoAgent, cid |-> 0, offset |-> 0, more |-> TRUE, loading |-> FALSE,
           last |-> 0, seen |-> {}]
Idle == [kind |-> "idle", stage |-> "none", cid |-> 0, agent |-> NoAgent, offset |-> 0, ids |-> << >>]

Bubble(who, how, id) == [peer |-> who, how |-> how, id |-> id]

\* The k-th of a set of numbers
Nth(S, k) == CHOOSE i \in S : Cardinality({j \in S : j < i}) = k - 1

\* get_messages: the newest rows first cut, then turned round
Page(c, limit, offset) ==
  LET own == {i \in 1 .. Len(rows) : rows[i].conv = c}
      last == Cardinality(own) - offset
      first == IF last > limit THEN last - limit + 1 ELSE 1
  IN  [k \in 1 .. last - first + 1 |-> Nth(own, first + k - 1)]

Bubbles(ids, how) == [i \in 1 .. Len(ids) |-> Bubble(peer[rows[ids[i]].conv], how, ids[i])]

Free == {s \in Slots : calls[s].kind = "idle"}
NextSlot == CHOOSE s \in Free : \A r \in Free : s <= r

Ask(s, kind, c, offset) ==
  calls' = [calls EXCEPT ![s] = [Idle EXCEPT !.kind = kind, !.stage = "asked", !.cid = c,
                                             !.agent = win'.agent, !.offset = offset]]
Done(s) == calls' = [calls EXCEPT ![s] = Idle]

\* The user waits for what the scenario makes him wait for.
MayLeave == \A s \in Slots : calls[s].kind \in Leaves \cup {"idle"}

-----------------------------------------------------------------------------
(* The server *)

\* create_conversation is called when a first message arrives without one.
NewConv == CHOOSE c \in Convs : peer[c] = NoAgent /\ \A d \in Convs : peer[d] = NoAgent => c <= d

ServeSend(s) ==
  LET given == calls[s].cid
  IN  /\ calls[s].kind = "send" /\ calls[s].stage = "asked" /\ Len(rows) < MaxRows
      /\ given = 0 => \E c \in Convs : peer[c] = NoAgent
      /\ LET c == IF given = 0 THEN NewConv ELSE given
         IN  /\ peer' = [peer EXCEPT ![c] = IF given = 0 THEN calls[s].agent ELSE @]
             /\ rows' = Append(rows, [conv |-> c, sender |-> "user"])
             /\ calls' = [calls EXCEPT ![s].stage = "working", ![s].cid = c]
      /\ UNCHANGED << queue, linked, win, shown >>

\* After the model has answered.  What send_message and its route push has no
\* content, so the client ignores it.
AnswerSend(s) ==
  /\ calls[s].kind = "send" /\ calls[s].stage = "working" /\ Len(rows) < MaxRows
  /\ rows' = Append(rows, [conv |-> calls[s].cid, sender |-> "assistant"])
  /\ calls' = [calls EXCEPT ![s].stage = "answered"]
  /\ UNCHANGED << peer, queue, linked, win, shown >>

ServeMessages(s) ==
  /\ calls[s].kind \in {"check", "page", "more"} /\ calls[s].stage = "asked"
  /\ calls' = [calls EXCEPT ![s].stage = "answered",
                 ![s].ids = Page(calls[s].cid, IF calls[s].kind = "check" THEN 1 ELSE PageSize,
                                 calls[s].offset)]
  /\ UNCHANGED << peer, rows, queue, linked, win, shown >>

\* The list is ordered by updated_at: any conversation of the agent may be first.
ServeLookup(s) ==
  LET own == {c \in Convs : peer[c] = calls[s].agent}
  IN  /\ calls[s].kind = "lookup" /\ calls[s].stage = "asked"
      /\ \E c \in IF own = {} THEN {0} ELSE own :
           calls' = [calls EXCEPT ![s].stage = "answered", ![s].cid = c]
      /\ UNCHANGED << peer, rows, queue, linked, win, shown >>

\* _insert_message: the result of a background task
InsertMessage(c) ==
  /\ peer[c] # NoAgent /\ Len(rows) < MaxRows
  /\ rows' = Append(rows, [conv |-> c, sender |-> IF linked THEN "result" ELSE "missed"])
  /\ queue' = IF linked THEN Append(queue, Len(rows) + 1) ELSE queue
  /\ UNCHANGED << peer, linked, win, shown, calls >>

Fail(s) ==
  /\ calls[s].kind \in Fails /\ calls[s].stage # "failed"
  /\ calls' = [calls EXCEPT ![s].stage = "failed"]
  /\ UNCHANGED << peer, rows, queue, linked, win, shown >>

\* broadcast_to_user finds no connection until _openWs has run again; nothing
\* is fetched for what was missed.
WsClose ==
  /\ "ws" \in Fails /\ linked
  /\ linked' = FALSE /\ queue' = << >>
  /\ rows' = [i \in 1 .. Len(rows) |->
               IF \E j \in 1 .. Len(queue) : queue[j] = i THEN [rows[i] EXCEPT !.sender = "missed"] ELSE rows[i]]
  /\ UNCHANGED << peer, win, shown, calls >>
WsOpen == ~linked /\ linked' = TRUE /\ UNCHANGED << peer, rows, queue, win, shown, calls >>

-----------------------------------------------------------------------------
(* Opening a window and loading it *)

\* From the list of conversations with an id, from a contact without one (the
\* id it passes parses to NaN).  _lastMsgId and _seenMsgIds stay.
OpenChatWindow(a, c) ==
  /\ MayLeave /\ Free # {}
  /\ win' = [Closed EXCEPT !.agent = a, !.cid = c, !.last = win.last, !.seen = win.seen]
  /\ shown' = << >>
  /\ Ask(NextSlot, IF c = 0 THEN "lookup" ELSE "check", c, 0)
  /\ UNCHANGED << peer, rows, queue, linked >>

\* The container is hidden, not emptied.
CloseChatWindow ==
  /\ MayLeave /\ win.agent # NoAgent
  /\ win' = [Closed EXCEPT !.last = win.last, !.seen = win.seen]
  /\ UNCHANGED << peer, rows, queue, linked, shown, calls >>

\* Mutant of MayAdopt: the guards of the lookup's continuation are dropped.
MayAdoptAlways(s) == TRUE

MayAdopt(s) == win.agent = calls[s].agent /\ win.cid = 0

LookupAnswered(s) ==
  /\ calls[s].kind = "lookup" /\ calls[s].stage \in {"answered", "failed"}
  /\ IF calls[s].stage = "answered" /\ MayAdopt(s) /\ calls[s].cid # 0
     THEN /\ win' = [win EXCEPT !.cid = calls[s].cid, !.offset = 0, !.more = TRUE]
          /\ Ask(s, "check", calls[s].cid, 0)
     ELSE Done(s) /\ UNCHANGED win
  /\ UNCHANGED << peer, rows, queue, linked, shown >>

\* loadMessages up to its second request: a conversation whose newest id is the
\* last one loaded is left as it is.
Latest(s) == IF calls[s].ids = << >> THEN 0 ELSE calls[s].ids[1]
Skips(s) == calls[s].stage = "answered" /\ Latest(s) # 0 /\ Latest(s) = win.last

CheckAnswered(s) ==
  /\ calls[s].kind = "check" /\ calls[s].stage \in {"answered", "failed"}
  /\ IF Skips(s)
     THEN Done(s) /\ UNCHANGED << win, shown >>
     ELSE /\ win' = [win EXCEPT !.last = IF calls[s].stage = "failed" THEN @ ELSE Latest(s)]
          /\ shown' = << >>
          /\ Ask(s, "page", calls[s].cid, 0)
  /\ UNCHANGED << peer, rows, queue, linked >>

\* Mutant of PageShown: the container is emptied when the page is there.
PageShownAlone(s) == Bubbles(calls[s].ids, "page")

PageShown(s) == shown \o Bubbles(calls[s].ids, "page")

\* A failure shows an error bubble, which no property looks at.
PageAnswered(s) ==
  /\ calls[s].kind = "page" /\ calls[s].stage \in {"answered", "failed"}
  /\ IF calls[s].stage = "failed"
     THEN UNCHANGED << win, shown >>
     ELSE LET ids == calls[s].ids
          IN  /\ win' = [win EXCEPT !.more = @ /\ Len(ids) >= PageSize, !.offset = Len(ids),
                                    !.seen = {ids[i] : i \in 1 .. Len(ids)}]
              /\ shown' = PageShown(s)
  /\ Done(s)
  /\ UNCHANGED << peer, rows, queue, linked >>

\* A container scrolls when a page overflows it.
HasPage == \E i \in 1 .. Len(shown) : shown[i].how = "page"

MayScroll == win.cid # 0 /\ win.more /\ ~win.loading /\ HasPage

HandleScroll ==
  /\ MayScroll /\ Free # {}
  /\ win' = [win EXCEPT !.loading = TRUE]
  /\ Ask(NextSlot, "more", win.cid, win.offset)
  /\ UNCHANGED << peer, rows, queue, linked, shown >>

OlderAnswered(s) ==
  LET ids == calls[s].ids
  IN  /\ calls[s].kind = "more" /\ calls[s].stage \in {"answered", "failed"}
      /\ win' = IF calls[s].stage = "failed" THEN [win EXCEPT !.loading = FALSE]
                ELSE [win EXCEPT !.loading = FALSE, !.more = @ /\ Len(ids) >= PageSize,
                                 !.offset = @ + Len(ids)]
      /\ shown' = IF calls[s].stage = "failed" THEN shown ELSE Bubbles(ids, "page") \o shown
      /\ Done(s)
      /\ UNCHANGED << peer, rows, queue, linked >>

-----------------------------------------------------------------------------
(* Sending and receiving *)

\* sendMessage up to its await; a temporary bubble carries the slot of its request.
SendMessage ==
  /\ win.agent # NoAgent /\ Free # {} /\ Len(shown) < MaxShown
  /\ shown' = Append(shown, Bubble(win.agent, "temp", NextSlot))
  /\ UNCHANGED win /\ Ask(NextSlot, "send", win.cid, 0)
  /\ UNCHANGED << peer, rows, queue, linked >>

\* updateMessageStatus: nothing happens when the bubble is gone.
Mark(s, how) ==
  [i \in 1 .. Len(shown) |->
     IF shown[i].how = "temp" /\ shown[i].id = s
     THEN Bubble(shown[i].peer, how, 0) ELSE shown[i]]

SendAnswered(s) ==
  /\ calls[s].kind = "send" /\ calls[s].stage \in {"answered", "failed"}
  /\ IF calls[s].stage = "failed"
     THEN shown' = Mark(s, "failed") /\ UNCHANGED win
     ELSE /\ win' = [win EXCEPT !.cid = IF @ = 0 THEN calls[s].cid ELSE @]
          /\ shown' = Append(Mark(s, "sent"), Bubble(calls[s].agent, "reply", 0))
  /\ Done(s)
  /\ UNCHANGED << peer, rows, queue, linked >>

\* 重试: its text is sent anew from the window that is open, its bubble goes.
RetrySend(i) ==
  /\ shown[i].how = "failed" /\ win.agent # NoAgent /\ Free # {}
  /\ shown' = Append(SubSeq(shown, 1, i - 1) \o SubSeq(shown, i + 1, Len(shown)),
                     Bubble(win.agent, "temp", NextSlot))
  /\ UNCHANGED win /\ Ask(NextSlot, "send", win.cid, 0)
  /\ UNCHANGED << peer, rows, queue, linked >>

\* Mutant of IsForOther: a result is shown in any window.
IsForOtherNever(id) == FALSE

IsForOther(id) == win.cid # 0 /\ rows[id].conv # win.cid

\* The sases_new_message listener, which also runs without an open window.
NewMessage ==
  LET id == Head(queue)
  IN  /\ queue # << >>
      /\ queue' = Tail(queue)
      /\ IF IsForOther(id) \/ id \in win.seen
         THEN UNCHANGED << win, shown >>
         ELSE /\ win' = [win EXCEPT !.seen = @ \cup {id}]
              /\ shown' = shown \o Bubbles(<< id >>, "push")
      /\ UNCHANGED << peer, rows, linked, calls >>

-----------------------------------------------------------------------------
Init ==
  /\ peer \in [Convs -> Agents \cup {NoAgent}]
  /\ \A c, d \in Convs : c < d /\ peer[c] = NoAgent => peer[d] = NoAgent
  /\ rows = << >> /\ queue = << >> /\ linked = TRUE
  /\ win = Closed /\ shown = << >>
  /\ calls = [s \in Slots |-> Idle]

Server == \/ \E s \in Slots : ServeSend(s) \/ AnswerSend(s) \/ ServeMessages(s) \/ ServeLookup(s)
          \/ \E c \in Convs : InsertMessage(c)
Network == WsClose \/ WsOpen \/ \E s \in Slots : Fail(s)
User == \/ \E a \in Agents : OpenChatWindow(a, 0)
        \/ \E c \in Convs : peer[c] # NoAgent /\ OpenChatWindow(peer[c], c)
        \/ CloseChatWindow \/ HandleScroll \/ SendMessage
        \/ \E i \in 1 .. Len(shown) : RetrySend(i)
Continuation(s) == \/ LookupAnswered(s) \/ CheckAnswered(s) \/ PageAnswered(s)
                   \/ OlderAnswered(s) \/ SendAnswered(s)

Next == Server \/ Network \/ User \/ NewMessage \/ \E s \in Slots : Continuation(s)

Spec == Init /\ [][Next]_cvars

-----------------------------------------------------------------------------
(* Properties *)

Ids(hows) == {shown[i].id : i \in {j \in 1 .. Len(shown) : shown[j].how \in hows}}
Quiet == queue = << >> /\ \A s \in Slots : calls[s].kind = "idle"

\* Every variable has its type, ids name rows, and loadingMore says whether an
\* older page is on its way.
ChatTypeOK ==
  /\ \A c \in DOMAIN peer : peer[c] \in Agents \cup {NoAgent}
  /\ \A i \in 1 .. Len(rows) : rows[i].conv \in DOMAIN peer
  /\ win.agent \in Agents \cup {NoAgent} /\ win.cid \in (DOMAIN peer) \cup {0}
  /\ win.offset \in 0 .. Len(rows) /\ win.seen \subseteq 1 .. Len(rows)
  /\ \A i \in 1 .. Len(shown) : shown[i].peer \in Agents
  /\ \A s \in Slots : calls[s].kind # "idle" => calls[s].agent \in Agents \cup {NoAgent}
  /\ win.loading <=> \E s \in Slots : calls[s].kind = "more"

\* The step of OwnBubbles
TakesOwn ==
  win'.cid # 0 => \A i \in 1 .. Len(shown') :
    shown'[i].peer = win'.agent \/ \E j \in 1 .. Len(shown) : shown[j] = shown'[i] /\ win.agent = win'.agent

\* A window with a conversation only takes up bubbles of its agent: a result of
\* another conversation, an answered lookup of a window that was left and what
\* the last window showed stay out (for a user who waits for Leaves).
OwnBubbles == [][TakesOwn]_cvars

\* The conversation a window writes to is one with the agent it shows, though
\* it may be adopted from a lookup that was answered late.
OwnConversation == win.cid # 0 => peer[win.cid] = win.agent

\* handleScroll pages by an offset from the newest row while rows are added: a
\* result between two loaded rows is never skipped (it may still be on its way).
NoGap ==
  \A r \in 1 .. Len(rows) :
    /\ win.cid # 0 /\ rows[r].conv = win.cid /\ rows[r].sender = "result"
    /\ \E i, j \in Ids({"page"}) : i < r /\ r < j
    => r \in Ids({"page", "push"}) \/ \E i \in 1 .. Len(queue) : queue[i] = r

\* Results that are pushed while a window is loaded are not lost between its
\* two requests, as far as the websocket delivered them.
NothingMissed ==
  Quiet /\ win.cid # 0 =>
    \A r \in 1 .. Len(rows) :
      /\ rows[r].conv = win.cid /\ rows[r].sender = "result"
      /\ \E i \in Ids({"page"}) : i < r
      => r \in Ids({"page", "push"})

===============================================================================
