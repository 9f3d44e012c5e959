------------------------------- MODULE WebPages -------------------------------
(***************************************************************************)
(* Downloading a page for web_fetch (cli/src/web/http.ts) and handing it   *)
(* out in parts from a cache that all chats share (cli/src/web/tools.ts).  *)
(*                                                                         *)
(* A page is its host and its address on it.  Its text may change at any   *)
(* time: each download makes a copy of its own.  Whether a chat may open   *)
(* the page is Web's.                                                      *)
(***************************************************************************)
EXTENDS Naturals, FiniteSets, Sequences, SequencesExt

CONSTANTS Chats,        \* chats that read
          Hosts,
          Addresses,    \* pages of a host
          CacheSize,    \* CACHE_SIZE
          TTL,          \* CACHE_TTL_MS, in ticks
          MaxRedirects, \* maxRedirects
          MaxBytes,     \* maxBytes, in chunks
          MaxClock,     \* bound: ticks of the clock
          MaxReads      \* bound: parts asked for

VARIABLES cache,   \* the copies kept, the least recently used first
          clock,
          reads,   \* chat -> the read under way
          last,    \* chat -> the copy its newest part came from
          copies,  \* downloads finished
          count
vars == <<cache, clock, reads, last, copies, count>>

Pages == Hosts \X Addresses
Host(page) == page[1]
NoRead == [at |-> "none"]
NoCopy == [page |-> <<>>]

TypeOK ==
    /\ Len(cache) <= CacheSize
    /\ \A i, j \in DOMAIN cache : i # j => cache[i].page # cache[j].page
    /\ clock \in 0 .. MaxClock /\ copies \in Nat /\ count \in 0 .. MaxReads
    /\ \A c \in Chats : reads[c].at \in {"none", "fetching", "body"} /\ last[c].page \in Pages \cup {<<>>}

Init ==
    /\ cache = <<>> /\ clock = 0 /\ copies = 0 /\ count = 0
    /\ reads = [c \in Chats |-> NoRead] /\ last = [c \in Chats |-> NoCopy]

-----------------------------------------------------------------------------
(* PageCache *)

Without(page) == IF \E i \in DOMAIN cache : cache[i].page = page
                   THEN RemoveAt(cache, CHOOSE i \in DOMAIN cache : cache[i].page = page) ELSE cache
Hit(page) == {e \in Range(cache) : e.page = page /\ clock - e.at <= TTL}
\* get(): a hit becomes the most recently used, an outdated copy goes.
\* (InPlace: a plausible bug, a hit stays where it is.)
InPlace(page) == IF Hit(page) = {} THEN Without(page) ELSE cache
AfterGet(page) == IF Hit(page) = {} THEN Without(page) ELSE Append(Without(page), CHOOSE e \in Hit(page) : TRUE)
\* set(): the least recently used goes if there are too many.  (EvictsFirst: a plausible bug, a copy more stays.)
EvictsFirst(e) == Append(SelectSeq(cache, LAMBDA f : f.page # e.page /\ Len(cache) <= CacheSize), e)
AfterSet(e) ==
    LET all == Append(Without(e.page), e)
    IN SubSeq(all, Len(all) - (IF Len(all) > CacheSize THEN CacheSize ELSE Len(all)) + 1, Len(all))

\* A part of copy e goes to the chat.  The ghost remembers what may part it
\* from the next: the other pages used since, another download of the page.
Handed(chat, e) ==
    [c \in Chats |->
        IF c = chat THEN [page |-> e.page, copy |-> e.copy, host |-> e.host, at |-> e.at, others |-> {}, again |-> FALSE]
        ELSE IF last[c] = NoCopy THEN NoCopy
        ELSE [last[c] EXCEPT !.others = @ \cup ({e.page} \ {last[c].page}),
                             !.again = @ \/ (e.page = last[c].page /\ e.copy # last[c].copy)]]
\* web_fetch, the first part or a later one.
Read(chat, page) ==
    /\ reads[chat] = NoRead /\ count < MaxReads /\ count' = count + 1
    /\ cache' = AfterGet(page)
    /\ IF Hit(page) # {}
         THEN last' = Handed(chat, CHOOSE e \in Hit(page) : TRUE) /\ UNCHANGED reads
         ELSE /\ reads' = [reads EXCEPT ![chat] = [at |-> "fetching", page |-> page, now |-> page, hop |-> 0]]
              /\ UNCHANGED last
    /\ UNCHANGED <<clock, copies>>

-----------------------------------------------------------------------------
(* fetchPublic *)

\* A redirect: followed on the same host only, another host is handed back.
\* (Anywhere: a plausible bug, every redirect is followed.)
Anywhere(read, to) == read.hop < MaxRedirects
Followed(read, to) == Host(to) = Host(read.page) /\ read.hop < MaxRedirects
Redirect(chat, to) ==
    LET r == reads[chat]
    IN /\ r.at = "fetching"
       /\ reads' = [reads EXCEPT ![chat] = IF Followed(r, to) THEN [r EXCEPT !.now = to, !.hop = @ + 1] ELSE NoRead]
       /\ UNCHANGED <<cache, clock, last, copies, count>>

\* An address that may not be reached, an error, the deadline, a status of 400
\* and more, a type that is no text: the tool answers with an error.
Fails(chat) ==
    /\ reads[chat].at # "none"
    /\ reads' = [reads EXCEPT ![chat] = NoRead]
    /\ UNCHANGED <<cache, clock, last, copies, count>>

Answers(chat) ==
    /\ reads[chat].at = "fetching"
    /\ reads' = [reads EXCEPT ![chat] = [at |-> "body", page |-> @.page, now |-> @.now, size |-> 0]]
    /\ UNCHANGED <<cache, clock, last, copies, count>>

\* readCapped, and what the tool makes of the body (that it was cut is only
\* said in the answer).
Kept(chat) ==
    LET r == reads[chat]
        e == [page |-> r.page, copy |-> copies + 1, host |-> Host(r.now), at |-> clock]
    IN /\ copies' = copies + 1
       /\ cache' = AfterSet(e) /\ last' = Handed(chat, e)
       /\ reads' = [reads EXCEPT ![chat] = NoRead]
       /\ UNCHANGED <<clock, count>>
Chunk(chat) ==
    /\ reads[chat].at = "body"
    /\ IF reads[chat].size + 1 >= MaxBytes THEN Kept(chat)
       ELSE /\ reads' = [reads EXCEPT ![chat].size = @ + 1]
            /\ UNCHANGED <<cache, clock, last, copies, count>>
End(chat) == reads[chat].at = "body" /\ Kept(chat)

Tick == clock < MaxClock /\ clock' = clock + 1 /\ UNCHANGED <<cache, reads, last, copies, count>>

Next ==
    \/ Tick
    \/ \E c \in Chats :
        \/ \E p \in Pages : Read(c, p) \/ Redirect(c, p)
        \/ Fails(c) \/ Answers(c) \/ Chunk(c) \/ End(c)

Spec == Init /\ [][Next]_vars

-----------------------------------------------------------------------------
(***************************************************************************)
(* What a chat reads of a page in parts is one text: the next part is of   *)
(* the same download, unless that is older than the cache keeps, as many   *)
(* other pages were read meanwhile as the cache holds, or somebody else    *)
(* downloaded the page again (tools.ts:75-92, 186-218).                    *)
(***************************************************************************)
PartsAgree ==
    \A c \in Chats :
     LET was == last[c]
     IN was # NoCopy /\ reads[c] = NoRead =>
         /\ reads'[c] # NoRead /\ reads'[c].page = was.page =>
             clock - was.at > TTL \/ Cardinality(was.others) >= CacheSize
         /\ last'[c].page = was.page /\ last'[c].copy # was.copy => was.again

(***************************************************************************)
(* The text a chat gets is of the host it asked for: another host is       *)
(* another site to ask about (http.ts:10-12, 155-167).                     *)
(***************************************************************************)
BodyIsOfHost == \A c \in Chats : last[c] # NoCopy => last[c].host = Host(last[c].page)
=============================================================================
