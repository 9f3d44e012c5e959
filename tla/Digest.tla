-------------------------------- MODULE Digest --------------------------------
(***************************************************************************)
(* The daily digest of what is open in Gazeta, written by the helper model *)
(* (runDailyDigest in cli/src/server.ts, generateDailySummary in           *)
(* cli/src/gazeta.ts): by itself every hour of a day that has none yet, or *)
(* because the user asked for it.                                          *)
(*                                                                         *)
(* A ghost chat's items must not reach the helper model.  Whose item is a  *)
(* ghost's is stored with the item, for its chat or project may be deleted *)
(* while the item stays.                                                   *)
(***************************************************************************)
EXTENDS Naturals, FiniteSets

CONSTANTS GhostChats, PlainChats,
          GhostProject, NoProject,  \* where a chat may be
          NoChat,
          MaxItems, MaxDays, MaxDigests  \* bounds

AllChats == GhostChats \cup PlainChats
Projects == {GhostProject, NoProject}

VARIABLES chats,     \* chat -> the project it is in, or "gone"
          projects,  \* projects that exist
          items,     \* the rows of Gazeta, by number
          day, digestDay, \* today, last_digest_date
          helper,    \* is there a helper model that can be used
          digests,   \* digests being written
          briefed,   \* items shown to the helper model
          doubled,   \* history: a digest began by itself while the day's was being written
          begun
vars == <<chats, projects, items, day, digestDay, helper, digests, briefed, doubled, begun>>

Numbers == 1 .. MaxItems
NoItem == [at |-> "none"]

TypeOK ==
    /\ chats \in [AllChats -> Projects \cup {"gone"}] /\ projects \subseteq Projects
    /\ \A n \in Numbers : items[n].at \in {"none", "pending", "settled"}
    /\ day \in 1 .. MaxDays /\ digestDay \in 0 .. MaxDays /\ helper \in BOOLEAN
    /\ \A d \in digests : d.day \in 1 .. MaxDays
    /\ briefed \subseteq Numbers /\ begun \in 0 .. MaxDigests

\* A chat made in a ghost project is a ghost chat.
Init ==
    /\ chats \in {f \in [AllChats -> Projects] : \A c \in PlainChats : f[c] # GhostProject}
    /\ projects = Projects
    /\ items = [n \in Numbers |-> NoItem]
    /\ day = 1 /\ digestDay = 0 /\ helper = TRUE /\ digests = {} /\ briefed = {} /\ doubled = FALSE /\ begun = 0

-----------------------------------------------------------------------------
(* db.ts *)

\* createGazetaItem: the row refers to the chat's, so the chat must be there.
\* The project is only named.
FlagOf(chat, project) ==
    (chat # NoChat /\ chat \in GhostChats) \/ (project = GhostProject /\ GhostProject \in projects)
NewItem(chat, project) ==
    \E n \in Numbers :
        /\ items[n] = NoItem /\ (n > 1 => items[n - 1] # NoItem)
        /\ items' = [items EXCEPT ![n] = [at |-> "pending", ghost |-> FlagOf(chat, project), chat |-> chat, from |-> chat]]

\* A question or report of a turn or of one of its workers.
TurnPosts(chat) ==
    /\ chats[chat] # "gone" /\ NewItem(chat, chats[chat])
    /\ UNCHANGED <<chats, projects, day, digestDay, helper, digests, briefed, doubled, begun>>
Settled(n) ==
    /\ items[n].at = "pending" /\ items' = [items EXCEPT ![n].at = "settled"]
    /\ UNCHANGED <<chats, projects, day, digestDay, helper, digests, briefed, doubled, begun>>

\* The items of a deleted chat stay, without their chat (ON DELETE SET NULL).
Without(gone) == [n \in Numbers |-> IF items[n] # NoItem /\ items[n].chat \in gone THEN [items[n] EXCEPT !.chat = NoChat] ELSE items[n]]
DeleteChat(chat) ==
    /\ chats[chat] # "gone" /\ chats' = [chats EXCEPT ![chat] = "gone"] /\ items' = Without({chat})
    /\ UNCHANGED <<projects, day, digestDay, helper, digests, briefed, doubled, begun>>
\* The project's chats go with it or become chats without one.
DeleteProject(keep) ==
    LET inside == {c \in AllChats : chats[c] = GhostProject}
    IN /\ GhostProject \in projects /\ projects' = projects \ {GhostProject}
       /\ chats' = [c \in AllChats |-> IF c \notin inside THEN chats[c] ELSE IF keep THEN NoProject ELSE "gone"]
       /\ items' = IF keep THEN items ELSE Without(inside)
       /\ UNCHANGED <<day, digestDay, helper, digests, briefed, doubled, begun>>

-----------------------------------------------------------------------------
(* runDailyDigest, generateDailySummary *)

\* (FlagOfChat: a plausible bug, looked up when the digest is made.)
FlagOfChat(item) == item.chat # NoChat /\ FlagOf(item.chat, NoProject)
FlagOfItem(item) == item.ghost
Open == {n \in Numbers : items[n].at = "pending" /\ ~FlagOfItem(items[n])}

\* (AfterAnswer: a plausible bug, the day is noted with the digest.)
AfterAnswer(now) == digestDay
NotedAtStart(now) == now
StartDigest(force) ==
    /\ begun < MaxDigests /\ begun' = begun + 1
    /\ (force \/ digestDay # day) /\ helper /\ Open # {}
    /\ digestDay' = NotedAtStart(day) /\ briefed' = briefed \cup Open
    /\ digests' = digests \cup {[no |-> begun + 1, day |-> day]}
    /\ doubled' = (doubled \/ (~force /\ \E d \in digests : d.day = day))
    /\ UNCHANGED <<chats, projects, items, day, helper>>

\* The digest becomes an item itself.
DigestWritten(d) ==
    /\ d \in digests /\ digests' = digests \ {d} /\ NewItem(NoChat, NoProject)
    /\ UNCHANGED <<chats, projects, day, digestDay, helper, briefed, doubled, begun>>
\* The request fails, or the app stops: the day has none.
DigestFails(d) ==
    /\ d \in digests /\ digests' = digests \ {d}
    /\ UNCHANGED <<chats, projects, items, day, digestDay, helper, briefed, doubled, begun>>

HelperChanges == helper' = ~helper /\ UNCHANGED <<chats, projects, items, day, digestDay, digests, briefed, doubled, begun>>
NextDay == day < MaxDays /\ day' = day + 1 /\ UNCHANGED <<chats, projects, items, digestDay, helper, digests, briefed, doubled, begun>>

Next ==
    \/ NextDay \/ HelperChanges
    \/ \E c \in AllChats : TurnPosts(c) \/ DeleteChat(c)
    \/ \E n \in Numbers : Settled(n)
    \/ \E keep \in BOOLEAN : DeleteProject(keep)
    \/ \E force \in BOOLEAN : StartDigest(force)
    \/ \E d \in digests : DigestWritten(d) \/ DigestFails(d)

Spec == Init /\ [][Next]_vars

-----------------------------------------------------------------------------
(***************************************************************************)
(* The helper model never reads an item of a ghost chat, whatever was      *)
(* deleted since (gazeta.ts:139-140, db.ts:735).                           *)
(***************************************************************************)
BriefedIsOpen == \A n \in briefed : items[n].from \notin GhostChats

(***************************************************************************)
(* No digest begins by itself while the day's is still being written       *)
(* (server.ts:1905-1918).                                                  *)
(***************************************************************************)
OneAtATime == ~doubled
=============================================================================
