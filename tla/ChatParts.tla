------------------------------ MODULE ChatParts ------------------------------
(***************************************************************************)
(* The page of a user in the browser: the chat window (ChatClient).        *)
(***************************************************************************)
EXTENDS Integers, Sequences

CONSTANTS
  Contacts, NoAgent, ChatIds, ChatSlots, ChatPage, ChatRows, ChatShown, ChatLeaves, ChatFails   \* ChatClient

\* Ids count from 1, and 0 stands for none; NoAgent is nobody.
ASSUME ChatAssumption ==
  /\ NoAgent \notin Contacts /\ ChatIds \subseteq Nat \ {0} /\ ChatSlots \subseteq Nat
  /\ ChatPage \in Nat

VARIABLES
  peer, texts, queue, linked, win, bubbles, asks   \* ChatClient

chatVars == << peer, texts, queue, linked, win, bubbles, asks >>

Talk == INSTANCE ChatClient WITH
  Agents <- Contacts, Convs <- ChatIds, Slots <- ChatSlots, PageSize <- ChatPage, MaxRows <- ChatRows,
  MaxShown <- ChatShown, Leaves <- ChatLeaves, Fails <- ChatFails,
  rows <- texts, shown <- bubbles, calls <- asks

-----------------------------------------------------------------------------
(* Properties *)

\* The conversation a window writes to is one with the agent it shows; no result that
\* was pushed while it loaded is missing from it, and paging backwards skips none between
\* two rows that are shown; loadingMore says whether an older page is on its way, also
\* when requests fail.
WindowIsTrue == Talk!OwnConversation /\ Talk!NothingMissed /\ Talk!NoGap /\ Talk!ChatTypeOK

\* A window takes up bubbles of its own agent only.
OwnBubbles == Talk!OwnBubbles
=============================================================================
