-------------------------------- MODULE Server --------------------------------
(* The chat log, what is sent to the provider and read from it, the registry,  *)
(* the notifier, the digest and the files of the database.  They share no      *)
(* state: a behaviour moves one component, `part`, and the others stay as they *)
(* start.                                                                      *)
EXTENDS History

CONSTANTS
  Lengths, StubChars, KeepTurns, ChunkParts, TextChars, ToolChars, Targets, MaxMessages, MaxJobs,   \* Context
  Texts, MaxRetries, Budgets, MaxSteps,                                       \* Provider
  Slugs, Names, Addrs, Keys, Free, Setup, Folders, MaxEdits,                  \* Models
  Chats, Ghosts, Labels, Delay, Window, MaxItems, MaxClock, MaxSaves,         \* Notices
  GhostChats, PlainChats, GhostProject, NoProject, NoChat, MaxPosts, MaxDays, MaxDigests,  \* Digest
  Latest, Keep, MaxWrites, MaxCommands, MaxFaults                             \* Storage

ASSUME ModelsAssumption ==
  /\ "none" \notin Slugs \cup Addrs \cup Keys \cup Folders /\ MaxEdits \in Nat
  \* Rows as the app wrote them: "runs on my hardware" was said of the address, and what is no row is no row.
  /\ \A s \in Setup :
       /\ s.provider \in [Slugs -> [addr : Addrs \cup {"none"}, on : BOOLEAN, local : BOOLEAN, said : Addrs \cup {"none"}, keyless : BOOLEAN]]
       /\ s.catalog \in [Slugs \X Names -> [src : {"none", "discovered", "manual"}, on : BOOLEAN, rep : {"none", "local", "cloud"},
                                            from : Addrs \cup {"none"}, ov : {"none", "local", "cloud"}]]
       /\ \A p \in Slugs : s.provider[p].local => s.provider[p].said = s.provider[p].addr
       /\ \A m \in Slugs \X Names : s.catalog[m].src = "none" => s.catalog[m].ov = "none"
\* A timer is due in so many ticks.
ASSUME NoticesAssumption == Delay \in Nat /\ MaxClock \in Nat
\* "No chat" is no chat.
ASSUME DigestAssumption == NoChat \notin GhostChats \cup PlainChats /\ MaxDays \in Nat \ {0} /\ MaxDigests \in Nat
\* Image(_, 99) stands for no file.
ASSUME StorageAssumption == Latest \in 0..98 /\ Keep \in Nat /\ MaxWrites \in Nat /\ MaxCommands \in Nat /\ MaxFaults \in Nat
\* An answer is a sequence of pieces.
ASSUME ProviderAssumption ==
  MaxRetries \in Nat /\ Budgets \subseteq Nat /\ MaxSteps \in Nat /\ Texts \subseteq Seq({"ws", "prose", "call", "code"})
ASSUME ContextAssumption ==
  /\ ChunkParts \in Nat \ {0} /\ KeepTurns \in Nat /\ MaxMessages \in Nat /\ MaxJobs \in Nat
  /\ Lengths \subseteq Nat /\ StubChars \in Nat /\ Targets \subseteq Nat /\ TextChars \in Nat /\ ToolChars \in Nat

VARIABLES
  part,  \* the component that moves
  messages, summary, nextId, job, compactions,
  wire, meta, request, reply, pieces, display, stopped,
  provider, catalog, vault, keyCache, refreshes, slot, folder, chat, talk, workers, heard, edits,
  settings, kept, items, timers, recent, told, detailed, clock, saves,
  chats, projects, posts, day, digestDay, helper, digests, briefed, doubled, begun,
  base, wal, groups, server, backups, copies, presnap, tool, writes, commands, faults, saved, replaced, migrated

C == INSTANCE Context WITH jobs <- compactions
P == INSTANCE Provider WITH chat <- wire
M == INSTANCE Models
N == INSTANCE Notices WITH GhostChats <- Ghosts
D == INSTANCE Digest WITH items <- posts, MaxItems <- MaxPosts
S == INSTANCE Storage

contextVars == <<messages, summary, nextId, job, compactions>>
providerVars == <<wire, meta, request, reply, pieces, display, stopped>>
modelVars == <<provider, catalog, vault, keyCache, refreshes, slot, folder, chat, talk, workers, heard, edits>>
noticeVars == <<settings, kept, items, timers, recent, told, detailed, clock, saves>>
digestVars == <<chats, projects, posts, day, digestDay, helper, digests, briefed, doubled, begun>>
storageVars == <<base, wal, groups, server, backups, copies, presnap, tool, writes, commands, faults, saved, replaced, migrated>>
serverAll == <<part, vars, contextVars, providerVars, modelVars, noticeVars, digestVars, storageVars>>

\* Where a component may start in several states, it does so only in the behaviours that move it.
ServerInit ==
  /\ part \in {"history", "context", "provider", "models", "notices", "digest", "storage"}
  /\ Init /\ C!Init /\ P!Init /\ M!Init /\ N!Init /\ D!Init /\ S!Init
  /\ part # "digest" => chats = [c \in D!AllChats |-> NoProject]

ServerNext ==
  /\ UNCHANGED part
  /\ IF part = "history" THEN Next ELSE UNCHANGED vars
  /\ IF part = "context" THEN C!Next ELSE UNCHANGED contextVars
  /\ IF part = "provider" THEN P!Next ELSE UNCHANGED providerVars
  /\ IF part = "models" THEN M!Next ELSE UNCHANGED modelVars
  /\ IF part = "notices" THEN N!Next ELSE UNCHANGED noticeVars
  /\ IF part = "digest" THEN D!Next ELSE UNCHANGED digestVars
  /\ IF part = "storage" THEN S!Next ELSE UNCHANGED storageVars

ServerSpec == ServerInit /\ [][ServerNext]_serverAll

\* Every component keeps to its types.
Types ==
  /\ part = "history" => TypeOK
  /\ part = "context" => C!TypeOK
  /\ part = "provider" => P!TypeOK
  /\ part = "models" => M!TypeOK
  /\ part = "notices" => N!TypeOK
  /\ part = "digest" => D!TypeOK
  /\ part = "storage" => S!TypeOK

\* What is sent to the provider can be sent: calls with their results, no more cut than needed; and what is
\* shown and stored of its answer is the answer (context.ts, openai-compat.ts).
RequestsAreSound ==
  /\ part = "context" => C!RequestIsValid /\ C!TrimIsLeast
  /\ part = "provider" => P!ShownIsKept /\ P!AnswerIsWhole /\ P!ResultsFollowCalls

\* Nothing leaves for good unread or uncopied: a summary goes only with what it covers and stands only for what
\* was read whole; a restore is exact and what it replaces is copied; a repeat is counted (db.ts, context.ts,
\* openai-compat.ts, db-backup.ts).
NothingIsLost ==
  [][/\ part = "history" => SummaryIsKept
     /\ part = "context" => C!HeadWasRead
     /\ part = "provider" => P!RepeatsAreBounded
     /\ part = "storage" => S!RestoreIsExact /\ S!NothingReplacedIsLost' /\ S!BackupsAreWhole']_serverAll

\* What is private stays at home: only a model vouched for hears a ghost chat, the notifier says nothing specific of
\* it, the digest leaves it out; and no refresh undoes an edit of the registry (server.ts, catalog.ts, router.ts,
\* notifier.ts, gazeta.ts).
GhostsAreKept ==
  [][/\ part = "models" => /\ M!OnlyVouchedHear' /\ M!StatementIsOfAddress' /\ M!CacheIsVault'
                           /\ M!GhostStays /\ M!EditsSurvive
     /\ part = "notices" => N!WaitingWasBuzzed' /\ N!SilentWhileKept'
     /\ part = "digest" => D!BriefedIsOpen' /\ D!OneAtATime']_serverAll
=============================================================================
