----------------------------- MODULE GroupWindow -----------------------------
(***************************************************************************)
(* The window of a group in the browser (static/modules/group_chat.js) and *)
(* the websocket of the group it listens to (api_routes/ws_routes.py).     *)
(*                                                                         *)
(* Opening a group waits for the user's id, then asks for the group's      *)
(* name on the websocket and for its messages; each answer comes when it   *)
(* comes and is taken by whatever window is open then.  What the user      *)
(* types is shown before it is sent, so his own pushes are skipped; what   *)
(* others say is appended as it is pushed, and loading starts afresh.      *)
(* Closing the window leaves its websocket open.                           *)
(***************************************************************************)
EXTENDS Integers, Sequences, FiniteSets, SequencesExt

CONSTANTS
  Groups, NoGroup,
  Slots,       \* requests on their way
  PageLimit,   \* the oldest rows get_group_messages returns
  MaxTexts,    \* bound on what is said,
  MaxSocks,    \*   on connections
  MaxLoads     \*   and on loads

VARIABLES
  said,    \* by whom each text is said: "me", "agent" (me, as an agent), "file" (mine), "other"
  store,   \* group_messages of each group, in order
  cur,     \* currentGroupId
  view,    \* the window is displayed
  me,      \* currentUserId is known
  asAgent, \* currentAgentId is set
  shown,   \* #chat-messages
  calls,
  socks,   \* connections, by age: their group and whether they are open
  live,    \* window._groupWs, or 0
  push,    \* texts on their way through a connection
  loads,
  due      \* history: what others said since the window was complete

wvars == << said, store, cur, view, me, asAgent, shown, calls, socks, live, push, loads, due >>

-----------------------------------------------------------------------------
(* Requests and the server *)

Idle == [kind |-> "idle"]
Free(s) == calls[s] = Idle /\ \A r \in Slots : calls[r] = Idle => s <= r

\* Nothing is being loaded and the connection is to the group on view.
Settled ==
  /\ view /\ live # 0 /\ socks[live].open /\ socks[live].group = cur
  /\ \A s \in Slots : calls[s].kind \notin {"open", "load"}

\* broadcast_to_group
Broadcast(g, m) ==
  push' = push \cup {<< i, m >> : i \in {j \in DOMAIN socks : socks[j].open /\ socks[j].group = g}}

\* The route stores a text and pushes it to every connection of the group.
Stored(g, m) ==
  /\ store' = [store EXCEPT ![g] = Append(@, m)]
  /\ Broadcast(g, m)

New == Len(said) + 1

OtherSays(g) ==
  /\ New <= MaxTexts /\ said' = Append(said, "other")
  /\ Stored(g, New)
  /\ due' = IF Settled /\ g = cur THEN due \cup {New} ELSE due
  /\ UNCHANGED << cur, view, me, asAgent, shown, calls, socks, live, loads >>

-----------------------------------------------------------------------------
(* Opening and closing *)

\* openGroupChat, up to the user's id; the list stays usable meanwhile.
OpenGroup(g, s) ==
  /\ ~view /\ Free(s) /\ loads < MaxLoads /\ loads' = loads + 1
  /\ cur' = g
  /\ calls' = [calls EXCEPT ![s] = [kind |-> "open", group |-> g]]
  /\ UNCHANGED << said, store, view, me, asAgent, shown, socks, live, push, due >>

\* The rest of openGroupChat: the known connection is closed, a new one asked for, and
\* the messages of the current group are loaded, which may be another one by now.
Opened(s, r) ==
  /\ calls[s].kind = "open" /\ Free(r)
  /\ me' \in BOOLEAN /\ asAgent' \in BOOLEAN /\ view' = TRUE
  /\ socks' = IF live = 0 THEN socks ELSE [socks EXCEPT ![live].open = FALSE]
  /\ live' = 0 /\ shown' = << >> /\ due' = {}
  /\ calls' = [calls EXCEPT ![s] = [kind |-> "info", group |-> calls[s].group],
                            ![r] = [kind |-> "load", group |-> cur, rows |-> << >>, read |-> FALSE]]
  /\ UNCHANGED << said, store, cur, push, loads >>

\* The answer of getGroupInfo connects, or is an error.
InfoAnswered(s) ==
  /\ calls[s].kind = "info" /\ calls' = [calls EXCEPT ![s] = Idle]
  /\ \/ /\ Len(socks) < MaxSocks
        /\ socks' = Append(socks, [group |-> calls[s].group, open |-> TRUE])
        /\ live' = Len(socks) + 1
     \/ UNCHANGED << socks, live >>
  /\ UNCHANGED << said, store, cur, view, me, asAgent, shown, push, loads, due >>

CloseGroup ==
  /\ view
  /\ cur' = NoGroup /\ view' = FALSE /\ me' = FALSE /\ asAgent' = FALSE /\ due' = {}
  /\ UNCHANGED << said, store, shown, calls, socks, live, push, loads >>

\* A connection that breaks is not opened again.
Drop(i) ==
  /\ socks[i].open /\ socks' = [socks EXCEPT ![i].open = FALSE] /\ due' = {}
  /\ UNCHANGED << said, store, cur, view, me, asAgent, shown, calls, live, push, loads >>

-----------------------------------------------------------------------------
(* Messages *)

\* loadGroupMessages, also after a task or a red packet was published
Reload(s) ==
  /\ view /\ Free(s) /\ loads < MaxLoads /\ loads' = loads + 1
  /\ calls' = [calls EXCEPT ![s] = [kind |-> "load", group |-> cur, rows |-> << >>, read |-> FALSE]]
  /\ due' = {}
  /\ UNCHANGED << said, store, cur, view, me, asAgent, shown, socks, live, push >>

\* get_group_messages: the oldest rows, or an error, which leaves the page as it is
LoadServed(s) ==
  /\ calls[s].kind = "load" /\ ~calls[s].read
  /\ LET g == calls[s].group
     IN  \/ /\ g # NoGroup
            /\ calls' = [calls EXCEPT ![s].read = TRUE,
                                      ![s].rows = SubSeq(store[g], 1, Min({PageLimit, Len(store[g])}))]
         \/ calls' = [calls EXCEPT ![s] = Idle]
  /\ UNCHANGED << said, store, cur, view, me, asAgent, shown, socks, live, push, loads, due >>

LoadRendered(s) ==
  /\ calls[s].kind = "load" /\ calls[s].read
  /\ shown' = calls[s].rows /\ calls' = [calls EXCEPT ![s] = Idle]
  /\ UNCHANGED << said, store, cur, view, me, asAgent, socks, live, push, loads, due >>

\* sendGroupMessage of a text: shown, then sent to the group of that moment, or after
\* the files that go with it
SendText(s) ==
  /\ view /\ cur # NoGroup /\ Free(s) /\ New <= MaxTexts
  /\ said' = Append(said, IF asAgent THEN "agent" ELSE "me")
  /\ shown' = Append(shown, New)
  /\ calls' \in {[calls EXCEPT ![s] = c] :
                  c \in {[kind |-> "send", group |-> cur, text |-> New, file |-> FALSE],
                        [kind |-> "upload", text |-> New, file |-> FALSE]}}
  /\ UNCHANGED << store, cur, view, me, asAgent, socks, live, push, loads, due >>

SendFile(s) ==
  /\ view /\ cur # NoGroup /\ Free(s) /\ New <= MaxTexts
  /\ said' = Append(said, "file")
  /\ calls' = [calls EXCEPT ![s] = [kind |-> "upload", text |-> New, file |-> TRUE]]
  /\ UNCHANGED << store, cur, view, me, asAgent, shown, socks, live, push, loads, due >>

\* A file, and a text sent with files, goes to the group that is open when they have
\* been uploaded, under the identity of that moment.
Uploaded(s) ==
  /\ calls[s].kind = "upload"
  /\ calls' = [calls EXCEPT ![s] = IF cur = NoGroup THEN Idle
                                   ELSE [kind |-> "send", group |-> cur, text |-> @.text, file |-> @.file]]
  /\ said' = [said EXCEPT ![calls[s].text] = IF asAgent THEN "agent"
                                              ELSE IF calls[s].file THEN "file" ELSE "me"]
  /\ UNCHANGED << store, cur, view, me, asAgent, shown, socks, live, push, loads, due >>

SendServed(s) ==
  /\ calls[s].kind = "send"
  /\ \/ Stored(calls[s].group, calls[s].text)
     \/ UNCHANGED << store, push >>
  /\ calls' = [calls EXCEPT ![s] = IF @.file /\ store' # store
                                   THEN [kind |-> "sent", text |-> @.text] ELSE Idle]
  /\ UNCHANGED << said, cur, view, me, asAgent, shown, socks, live, loads, due >>

\* A file is shown once it is stored.
FileShown(s) ==
  /\ calls[s].kind = "sent" /\ calls' = [calls EXCEPT ![s] = Idle]
  /\ shown' = Append(shown, calls[s].text)
  /\ UNCHANGED << said, store, cur, view, me, asAgent, socks, live, push, loads, due >>

\* Mutant of Echo: the user's id is compared with nothing.
EchoNever(m) == FALSE

\* What the user said himself, and not as an agent, is on the page already.
Echo(m) == me /\ said[m] \in {"me", "file"}

Pushed(i, m) ==
  /\ push' = push \ {<< i, m >>}
  /\ shown' = IF socks[i].open /\ ~Echo(m) THEN Append(shown, m) ELSE shown
  /\ UNCHANGED << said, store, cur, view, me, asAgent, calls, socks, live, loads, due >>

\* openAgentSwitch, applyGroupMode
SwitchIdentity ==
  /\ view /\ asAgent' = ~asAgent
  /\ UNCHANGED << said, store, cur, view, me, shown, calls, socks, live, push, loads, due >>

-----------------------------------------------------------------------------
Init ==
  /\ said = << >> /\ store = [g \in Groups |-> << >>]
  /\ cur = NoGroup /\ view = FALSE /\ me = FALSE /\ asAgent = FALSE
  /\ shown = << >> /\ calls = [s \in Slots |-> Idle]
  /\ socks = << >> /\ live = 0 /\ push = {} /\ loads = 0 /\ due = {}

Next ==
  \/ \E g \in Groups : OtherSays(g) \/ \E s \in Slots : OpenGroup(g, s)
  \/ \E s, r \in Slots : s # r /\ Opened(s, r)
  \/ \E s \in Slots : \/ InfoAnswered(s) \/ Reload(s) \/ LoadServed(s) \/ LoadRendered(s)
                      \/ SendText(s) \/ SendFile(s) \/ Uploaded(s) \/ SendServed(s) \/ FileShown(s)
  \/ CloseGroup \/ SwitchIdentity
  \/ \E p \in push : Pushed(p[1], p[2])
  \/ \E i \in DOMAIN socks : Drop(i)

Spec == Init /\ [][Next]_wvars

-----------------------------------------------------------------------------
(* Properties *)

\* While the user is known, however loads, pushes and several connections overtake
\* each other, a text he said as himself is on the page at most once.
OwnTextOnce ==
  me => \A m \in DOMAIN said :
          said[m] = "me" => Cardinality({k \in DOMAIN shown : shown[k] = m}) <= 1

\* What others say in the group on view, once it was loaded and connected and until it
\* is loaded again, is on the page or on its way to it.
OthersAreShown ==
  \A m \in due : \/ m \in Range(shown)
                 \/ \E i \in DOMAIN socks : socks[i].open /\ << i, m >> \in push
=============================================================================
