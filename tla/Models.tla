------------------------------- MODULE Models -------------------------------
(***************************************************************************)
(* Providers, their models and keys (cli/src/providers/catalog.ts,         *)
(* router.ts, key-vault.ts; the routes of server.ts), the choice of a      *)
(* model for a chat, a helper job or a worker (slots.ts, background.ts,    *)
(* agents.ts), and ghost chats (ghost.ts, db.ts): their content goes only  *)
(* to a model known to be local.                                           *)
(*                                                                         *)
(* Abstracted: the order of the catalog (any usable model may be the first *)
(* one), labels, tags other than "free", kinds, limits, and the turn       *)
(* between its model checks.                                               *)
(***************************************************************************)
EXTENDS Naturals

CONSTANTS Slugs, Names,      \* providers, models as a provider names them
          Addrs,             \* base URLs
          Keys,              \* API keys
          Free,              \* the models tagged free
          Setup,             \* bound: the providers and rows a start finds
          Folders,           \* projects
          MaxEdits           \* bound: changes in the settings

VARIABLES provider,    \* table providers
          catalog,     \* table provider_models; from: the address that reported (history)
          vault,       \* table provider_keys
          keyCache,    \* decrypted keys in memory
          refreshes,   \* requests for a model list on their way
          slot,        \* model of the helper slot, of the agents slot, of the chat slot
          folder,      \* projects: "none", "open" or "ghost"
          chat,        \* one conversation
          talk,        \* its turn
          workers,     \* models its workers were started on
          heard,       \* history: who got the content of the chat while it was a ghost
          edits        \* bound

modelVars == <<provider, catalog, vault, keyCache, refreshes, slot, folder, chat, talk, workers, heard, edits>>
settings == <<provider, catalog, vault, refreshes, slot>>
chatState == <<folder, chat, talk, workers, heard>>

Ids == Slugs \X Names
NoModel == <<"none", "none">>
Local == {"none", "local", "cloud"}
NoProvider == [addr |-> "none", on |-> FALSE, local |-> FALSE, said |-> "none", keyless |-> FALSE]
NoRow == [src |-> "none", on |-> FALSE, rep |-> "none", from |-> "none", ov |-> "none"]
NoTalk == [at |-> "none", model |-> NoModel]

TypeOK ==
  /\ provider \in [Slugs -> [addr : Addrs \cup {"none"}, on : BOOLEAN, local : BOOLEAN, said : Addrs \cup {"none"}, keyless : BOOLEAN]]
  /\ catalog \in [Ids -> [src : {"none", "discovered", "manual"}, on : BOOLEAN, rep : Local, from : Addrs \cup {"none"}, ov : Local]]
  /\ vault \in [Slugs -> Keys \cup {"none"}] /\ keyCache \in [Slugs -> Keys \cup {"none"}]
  /\ refreshes \subseteq Slugs \X Addrs
  /\ slot \in [{"helper", "agents", "chat"} -> Ids \cup {NoModel}]
  /\ folder \in [Folders -> {"none", "open", "ghost"}]
  /\ chat \in [at : {"none", "kept", "gone"}, ghost : BOOLEAN, folder : Folders \cup {"none"}, model : Ids \cup {NoModel}]
  /\ talk \in [at : {"none", "starting", "running"}, model : Ids \cup {NoModel}]
  /\ workers \subseteq Ids
  /\ heard \subseteq [addr : Addrs, by : {"user", "report", "statement", "nobody"}, about : Addrs \cup {"none"}]
  /\ edits \in 0..MaxEdits

Init ==
  /\ \E s \in Setup : provider = s.provider /\ catalog = s.catalog
  /\ vault = [p \in Slugs |-> "none"] /\ keyCache = vault /\ refreshes = {}
  /\ slot = [s \in {"helper", "agents", "chat"} |-> NoModel]
  /\ folder = [f \in Folders |-> "none"]
  /\ chat = [at |-> "none", ghost |-> FALSE, folder |-> "none", model |-> NoModel]
  /\ talk = NoTalk /\ workers = {} /\ heard = {} /\ edits = 0

Edit == edits < MaxEdits /\ edits' = edits + 1

-----------------------------------------------------------------------------
(* The catalog and the keys *)

Exists(p) == provider[p].addr # "none"
Known(m) == Exists(m[1]) /\ catalog[m].src # "none"

\* build: the user's word on a model beats the report, the report beats the user's word on the provider.
Locality(m) ==
  CASE catalog[m].ov # "none" -> catalog[m].ov
    [] catalog[m].ov = "none" /\ catalog[m].rep # "none" -> catalog[m].rep
    [] OTHER -> IF provider[m[1]].local THEN "local" ELSE "none"
IsLocal(m) == m # NoModel /\ Known(m) /\ Locality(m) = "local"

Key(p) == IF keyCache[p] # "none" THEN keyCache[p] ELSE vault[p]
\* Every look at a provider's key keeps it in memory.
Looked(ps) == keyCache' = [p \in Slugs |-> IF p \in ps /\ Exists(p) THEN Key(p) ELSE keyCache[p]]

Enabled(m) == Known(m) /\ provider[m[1]].on /\ catalog[m].on
IsAvailable(m) == m # NoModel /\ Enabled(m) /\ (Key(m[1]) # "none" \/ provider[m[1]].keyless)
Candidates == {m \in Ids : Enabled(m)}

\* POST /api/providers; the model list is asked for at once when it can be.
Create(p, a, local, keyless, key) ==
  /\ Edit /\ ~Exists(p)
  /\ provider' = [provider EXCEPT ![p] = [addr |-> a, on |-> TRUE, local |-> local, said |-> IF local THEN a ELSE "none", keyless |-> keyless]]
  /\ vault' = IF key # "none" THEN [vault EXCEPT ![p] = key] ELSE vault
  /\ keyCache' = [keyCache EXCEPT ![p] = IF key # "none" THEN key ELSE @]
  /\ refreshes' = IF key # "none" \/ keyless THEN refreshes \cup {<<p, a>>} ELSE refreshes
  /\ UNCHANGED <<catalog, slot, chatState>>

\* Mutant: a new address keeps the statement made for the old one.
UpdateKeepsStatement(p, a, local, on) ==
  /\ Edit /\ Exists(p)
  /\ provider' = [provider EXCEPT ![p] =
                    [addr |-> a, on |-> on, local |-> IF local = "none" THEN @.local ELSE local = "yes",
                     said |-> IF local = "none" THEN @.said ELSE IF local = "yes" THEN a ELSE "none", keyless |-> @.keyless]]
  /\ UNCHANGED <<catalog, vault, keyCache, refreshes, slot, chatState>>
\* PATCH /api/providers/:id; "runs on my hardware" is about one address.
Update(p, a, local, on) ==
  LET withdrawn == a # provider[p].addr /\ local = "none"
      said == IF withdrawn THEN "no" ELSE local
  IN /\ Edit /\ Exists(p)
     /\ provider' = [provider EXCEPT ![p] =
                       [addr |-> a, on |-> on, local |-> IF said = "none" THEN @.local ELSE said = "yes",
                        said |-> IF said = "none" THEN @.said ELSE IF said = "yes" THEN a ELSE "none", keyless |-> @.keyless]]
     /\ UNCHANGED <<catalog, vault, keyCache, refreshes, slot, chatState>>

\* Mutant: the key in memory outlives its provider.
RemoveKeepsCache(p) ==
  /\ Edit /\ Exists(p)
  /\ provider' = [provider EXCEPT ![p] = NoProvider]
  /\ catalog' = [m \in Ids |-> IF m[1] = p THEN NoRow ELSE catalog[m]]
  /\ vault' = [vault EXCEPT ![p] = "none"]
  /\ UNCHANGED <<keyCache, refreshes, slot, chatState>>
\* DELETE /api/providers/:id: the provider, its models, its key.
Remove(p) ==
  /\ Edit /\ Exists(p)
  /\ provider' = [provider EXCEPT ![p] = NoProvider]
  /\ catalog' = [m \in Ids |-> IF m[1] = p THEN NoRow ELSE catalog[m]]
  /\ vault' = [vault EXCEPT ![p] = "none"] /\ keyCache' = [keyCache EXCEPT ![p] = "none"]
  /\ UNCHANGED <<refreshes, slot, chatState>>

\* PUT and DELETE /api/providers/:id/key; a new key is tried out at once, which brings it to memory.
SaveKey(p, key, verify) ==
  /\ Edit /\ Exists(p)
  /\ vault' = [vault EXCEPT ![p] = key]
  /\ keyCache' = [keyCache EXCEPT ![p] = IF verify THEN key ELSE "none"]
  /\ UNCHANGED <<provider, catalog, refreshes, slot, chatState>>
RemoveKey(p) ==
  /\ Edit /\ Exists(p)
  /\ vault' = [vault EXCEPT ![p] = "none"] /\ keyCache' = [keyCache EXCEPT ![p] = "none"]
  /\ UNCHANGED <<provider, catalog, refreshes, slot, chatState>>

\* refreshModels: the address and the key are read, then the answer is awaited ...
AskModels(p) ==
  /\ Edit /\ Exists(p) /\ (Key(p) # "none" \/ provider[p].keyless)
  /\ refreshes' = refreshes \cup {<<p, provider[p].addr>>} /\ Looked({p})
  /\ UNCHANGED <<provider, catalog, vault, slot, chatState>>

\* Mutant: a model the user edited goes when the provider does not list it.
KeptHandmade(row) == row.src = "manual"
Kept(row) == row.src = "manual" \/ row.ov # "none"
\* ... and applied to whatever the slug is then (applyDiscovered); listed: name -> what is
\* reported of it, models outside Names left out.
GotModels(r, listed) ==
  /\ r \in refreshes /\ refreshes' = refreshes \ {r}
  /\ catalog' = [m \in Ids |->
       IF m[1] # r[1] THEN catalog[m]
       ELSE IF m[2] \in DOMAIN listed THEN
              IF catalog[m].src = "none" THEN [src |-> "discovered", on |-> TRUE, rep |-> listed[m[2]], from |-> r[2], ov |-> "none"]
              ELSE [catalog[m] EXCEPT !.rep = listed[m[2]], !.from = r[2]]
            ELSE IF Kept(catalog[m]) THEN catalog[m] ELSE NoRow]
  /\ UNCHANGED <<provider, vault, keyCache, slot, chatState, edits>>
\* No answer, or an empty list
LostModels(r) == r \in refreshes /\ refreshes' = refreshes \ {r} /\ UNCHANGED <<provider, catalog, vault, keyCache, slot, chatState, edits>>

\* POST, PATCH and DELETE of a model
AddManual(m) ==
  /\ Edit /\ Exists(m[1]) /\ catalog[m].src = "none"
  /\ catalog' = [catalog EXCEPT ![m] = [NoRow EXCEPT !.src = "manual", !.on = TRUE]]
  /\ UNCHANGED <<provider, vault, keyCache, refreshes, slot, chatState>>
UpdateModel(m, on, ov) ==
  /\ Edit /\ catalog[m].src # "none"
  /\ catalog' = [catalog EXCEPT ![m].on = on, ![m].ov = ov]
  /\ UNCHANGED <<provider, vault, keyCache, refreshes, slot, chatState>>
RemoveModel(m) ==
  /\ Edit /\ catalog[m].src # "none" /\ catalog' = [catalog EXCEPT ![m] = NoRow]
  /\ UNCHANGED <<provider, vault, keyCache, refreshes, slot, chatState>>
SetSlot(s, m) == Edit /\ slot' = [slot EXCEPT ![s] = m] /\ UNCHANGED <<provider, catalog, vault, keyCache, refreshes, chatState>>

-----------------------------------------------------------------------------
(* slots.ts, background.ts, agents.ts: which model does a job.  Each yields the set of models it may be, *)
(* empty when there is none.                                                                             *)

FirstFree(ok) == {m \in ok : m \in Free}
\* The helper and the agents slot: the explicit model when it is usable, else a free one.
ResolveSlot(s, ok) == IF slot[s] \in ok THEN {slot[s]} ELSE FirstFree(ok)
\* The chat slot is honoured as it is.
DefaultModel == IF slot["chat"] # NoModel THEN {slot["chat"]}
                ELSE LET ok == {m \in Candidates : IsAvailable(m)} IN IF FirstFree(ok) # {} THEN FirstFree(ok) ELSE ok

BackgroundModel(ghost) == ResolveSlot("helper", {m \in Candidates : IsAvailable(m) /\ (ghost => IsLocal(m))})

\* resolveWorkerModel: named in the call, or the agents slot, or the model of the parent
WorkerModel(ghost, parent) ==
  LET ok == {m \in Candidates : IsAvailable(m) /\ (ghost => IsLocal(m))}
      unnamed == IF ResolveSlot("agents", ok) # {} THEN ResolveSlot("agents", ok) ELSE ok \cap {parent}
  IN ok \cup unnamed

PickLocalChatModel == {m \in Candidates : IsLocal(m) /\ IsAvailable(m)}

-----------------------------------------------------------------------------
(* db.ts, server.ts: ghost chats *)

IsGhost == chat.at = "kept" /\ (chat.ghost \/ (chat.folder # "none" /\ folder[chat.folder] = "ghost"))

\* Mutant: the flag of the project is not stored with the chat.
StoredFlagAsked(asked, f) == asked
StoredFlag(asked, f) == asked \/ (f # "none" /\ folder[f] = "ghost")

CreateProject(f, ghost) ==
  /\ folder[f] = "none" /\ folder' = [folder EXCEPT ![f] = IF ghost THEN "ghost" ELSE "open"]
  /\ UNCHANGED <<settings, keyCache, chat, talk, workers, heard, edits>>

\* DELETE /api/projects/:id; its chats go, or stay without it.  The turns in it are stopped.
DeleteProject(f, keep) ==
  /\ folder[f] # "none" /\ folder' = [folder EXCEPT ![f] = "none"]
  /\ IF chat.folder = f
     THEN /\ chat' = IF keep THEN [chat EXCEPT !.folder = "none"] ELSE [chat EXCEPT !.at = "gone", !.folder = "none"]
          /\ talk' = NoTalk
     ELSE UNCHANGED <<chat, talk>>
  /\ UNCHANGED <<settings, keyCache, workers, heard, edits>>

\* POST /api/conversations; a ghost chat starts on a local model or not at all.
CreateChat(asked, f, m) ==
  /\ chat.at = "none" /\ (f # "none" => folder[f] # "none")
  /\ LET ghost == asked \/ (f # "none" /\ folder[f] = "ghost")
         models == IF ghost /\ m = NoModel THEN PickLocalChatModel ELSE {m}
     IN \E picked \in models :
          /\ ghost => IsLocal(picked)
          /\ chat' = [at |-> "kept", ghost |-> StoredFlag(asked, f), folder |-> f, model |-> picked]
  /\ Looked(IF m = NoModel THEN Slugs ELSE {})
  /\ UNCHANGED <<settings, folder, talk, workers, heard, edits>>

\* PATCH /api/conversations/:id: another model, another project
SetChatModel(m) ==
  /\ chat.at = "kept" /\ (IsGhost => IsLocal(m))
  /\ chat' = [chat EXCEPT !.model = m] /\ UNCHANGED <<settings, keyCache, folder, talk, workers, heard, edits>>
\* updateConversation: into and out of a ghost project nothing moves.
MoveChat(f) ==
  /\ chat.at = "kept" /\ f # chat.folder /\ (f # "none" => folder[f] # "none")
  /\ ~chat.ghost /\ \A g \in {f, chat.folder} \ {"none"} : folder[g] # "ghost"
  /\ chat' = [chat EXCEPT !.folder = f] /\ UNCHANGED <<settings, keyCache, folder, talk, workers, heard, edits>>

-----------------------------------------------------------------------------
(* The content of the chat leaves the process *)

\* Who vouches for the model being local, and for which address.
Vouch(m) ==
  LET row == catalog[m] p == provider[m[1]] IN
  [addr |-> p.addr,
   by |-> CASE row.ov = "local" -> "user"
            [] row.ov = "none" /\ row.rep = "local" -> "report"
            [] row.ov = "none" /\ row.rep = "none" /\ p.local -> "statement"
            [] OTHER -> "nobody",
   about |-> IF row.ov = "none" /\ row.rep = "local" THEN row.from
             ELSE IF row.ov = "none" /\ row.rep = "none" /\ p.local THEN p.said ELSE "none"]
Tell(m, ghost) == heard' = IF ghost THEN heard \cup {Vouch(m)} ELSE heard

\* message, edit, regenerate, retry: refused at once when the model of a ghost chat is not local.
Kickoff ==
  /\ chat.at = "kept" /\ talk.at = "none" /\ (IsGhost => IsLocal(chat.model))
  /\ \E m \in IF IsGhost \/ chat.model # NoModel THEN {chat.model} ELSE IF DefaultModel = {} THEN {NoModel} ELSE DefaultModel :
       talk' = [at |-> "starting", model |-> m]
  /\ Looked(IF chat.model = NoModel THEN Slugs ELSE {})
  /\ UNCHANGED <<settings, folder, chat, workers, heard, edits>>

\* Mutant: only the route looks at the model.
StillLocalRouteOnly(m) == TRUE
StillLocal(m) == IsGhost => IsLocal(m)
\* After the preparation of the turn: the model is looked at again, and the client is made for the address of now.
Begin ==
  /\ talk.at = "starting"
  /\ IF StillLocal(talk.model) /\ IsAvailable(talk.model)
     THEN talk' = [talk EXCEPT !.at = "running"] /\ Tell(talk.model, IsGhost)
     ELSE talk' = NoTalk /\ UNCHANGED heard
  /\ Looked(Slugs)
  /\ UNCHANGED <<settings, folder, chat, workers, edits>>

\* Compaction inside a turn, or by hand: a helper, or else the model of the chat.
Summarise ==
  /\ \/ talk.at = "running"
     \/ chat.at = "kept" /\ talk.at = "none" /\ (IsGhost => IsLocal(chat.model))
  /\ LET own == IF talk.at = "running" THEN {} ELSE {m \in {chat.model} : IsAvailable(m)} IN
     \E m \in IF BackgroundModel(IsGhost) # {} THEN BackgroundModel(IsGhost) ELSE own : Tell(m, IsGhost)
  /\ Looked(Slugs)
  /\ UNCHANGED <<settings, folder, chat, talk, workers, edits>>

\* spawn_agent and execute; resume and execute
Spawn ==
  /\ talk.at = "running"
  /\ \E m \in WorkerModel(IsGhost, talk.model) : workers' = workers \cup {m} /\ Tell(m, IsGhost)
  /\ Looked(Slugs) /\ UNCHANGED <<settings, folder, chat, talk, edits>>
Resume(m) ==
  /\ chat.at = "kept" /\ m \in workers /\ (IsGhost => IsLocal(m)) /\ IsAvailable(m) /\ Tell(m, IsGhost)
  /\ Looked({m[1]}) /\ UNCHANGED <<settings, folder, chat, talk, workers, edits>>

\* The title comes from a helper; without one the first words stay.
Finish ==
  /\ talk.at = "running" /\ talk' = NoTalk
  /\ \/ UNCHANGED heard
     \/ \E m \in BackgroundModel(IsGhost) : Tell(m, IsGhost)
  /\ Looked(Slugs) /\ UNCHANGED <<settings, folder, chat, workers, edits>>

\* Deleting the chat takes its runs with it and stops its turn.
DeleteChat == /\ chat.at = "kept" /\ chat' = [chat EXCEPT !.at = "gone", !.folder = "none"] /\ talk' = NoTalk
              /\ UNCHANGED <<settings, keyCache, folder, workers, heard, edits>>

\* GET /api/providers, GET /api/models
Show == Looked(Slugs) /\ UNCHANGED <<settings, chatState, edits>>

Restart ==
  /\ keyCache' = [p \in Slugs |-> "none"] /\ refreshes' = {} /\ talk' = NoTalk
  /\ UNCHANGED <<provider, catalog, vault, slot, folder, chat, workers, heard, edits>>

Listings == UNION {[ns -> Local] : ns \in SUBSET Names}

Next ==
  \/ \E p \in Slugs, a \in Addrs :
       \/ \E local, keyless \in BOOLEAN, key \in Keys \cup {"none"} : Create(p, a, local, keyless, key)
       \/ \E local \in {"none", "yes", "no"}, on \in BOOLEAN : Update(p, a, local, on)
  \/ \E p \in Slugs : Remove(p) \/ RemoveKey(p) \/ AskModels(p) \/ \E key \in Keys, verify \in BOOLEAN : SaveKey(p, key, verify)
  \/ \E r \in refreshes : LostModels(r) \/ \E listed \in Listings : GotModels(r, listed)
  \/ \E m \in Ids : AddManual(m) \/ RemoveModel(m) \/ Resume(m) \/ \E on \in BOOLEAN, ov \in Local : UpdateModel(m, on, ov)
  \/ \E s \in {"helper", "agents", "chat"}, m \in Ids : SetSlot(s, m)
  \/ \E f \in Folders, b \in BOOLEAN : CreateProject(f, b) \/ DeleteProject(f, b)
  \/ \E asked \in BOOLEAN, f \in Folders \cup {"none"}, m \in Ids \cup {NoModel} : CreateChat(asked, f, m)
  \/ \E m \in Ids : SetChatModel(m)
  \/ \E f \in Folders \cup {"none"} : MoveChat(f)
  \/ Kickoff \/ Begin \/ Summarise \/ Spawn \/ Finish \/ DeleteChat \/ Show \/ Restart

Spec == Init /\ [][Next]_modelVars

-----------------------------------------------------------------------------
\* A ghost chat speaks to nobody a model was not called local for when the request was made: by the user
\* for this model, by the provider's report, or by the user for the provider.
OnlyVouchedHear == \A h \in heard : h.by # "nobody"

\* "Runs on my own hardware" counts for the address it was said of, and for no other.
StatementIsOfAddress == \A h \in heard : h.by = "statement" => h.about = h.addr

\* What a report says of one address is believed of another: after the address of a provider changed, or
\* a list was asked for before and arrived after, its models keep the locality of the old one.
ReportIsOfAddress == \A h \in heard : h.by = "report" => h.about = h.addr

\* A ghost chat is one for good and an ordinary chat never becomes one, whatever happens to its project.
GhostStays == chat.at = "kept" /\ chat'.at = "kept" => (IsGhost' <=> IsGhost)

\* A key in memory is the one that is stored: a replaced or removed key, or the key of a removed provider,
\* goes out with no later request.
CacheIsVault == \A p \in Slugs : keyCache[p] # "none" => keyCache[p] = vault[p]

\* A list of models, however late, takes away nothing the user added or edited.
EditsSurvive ==
  \A r \in refreshes : r \notin refreshes' =>
    \A m \in Ids : m[1] = r[1] /\ (catalog[m].src = "manual" \/ catalog[m].ov # "none") =>
      catalog'[m].src = catalog[m].src /\ catalog'[m].ov = catalog[m].ov
=============================================================================
