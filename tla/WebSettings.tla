------------------------------ MODULE WebSettings ------------------------------
(***************************************************************************)
(* Settings -> Web: which engine answers web_search (cli/src/web/search.ts *)
(* and web-routes.ts), and the form that sets it (SearchSection of         *)
(* WebTab.tsx; the Notifications tab saves and tests the same way).        *)
(*                                                                         *)
(* The engine and its address are a setting, Brave's key is in the vault;  *)
(* the environment may give either.  One form is followed step by step,    *)
(* another tab saves in one step.                                          *)
(***************************************************************************)
EXTENDS Naturals, TLC

CONSTANTS Urls, Keys,     \* addresses of SearXNG, keys of Brave
          NoUrl, NoKey,
          EnvUrl, EnvKey, \* SEARXNG_URL, BRAVE_API_KEY: a value or none
          MaxTouches, MaxRequests, MaxElsewhere  \* bounds

Backends == {"none", "searxng", "brave"}
Values == [backend : Backends, url : Urls \cup {NoUrl}, key : Keys \cup {NoKey}]

VARIABLES setting,  \* web_search of the settings, "unset" when nothing was saved
          vault,    \* the stored key
          form,     \* what the fields hold
          shown,    \* saved: the server's last answer
          request,  \* the form's request under way
          tested,   \* the test result on show
          touches, requests,
          refused,  \* history: a save was refused since the last answer
          elsewhere \* history: what another tab saved
vars == <<setting, vault, form, shown, request, tested, touches, requests, refused, elsewhere>>

Nothing == [at |-> "none"]
Off == [backend |-> "none", with |-> NoKey]

-----------------------------------------------------------------------------
(* search.ts, tools.ts: read on every call of web_search *)

\* loadSearchConfig
Config ==
    IF setting # Nothing THEN setting
    ELSE IF EnvUrl # NoUrl THEN [at |-> "env", backend |-> "searxng", url |-> EnvUrl]
    ELSE [at |-> "env", backend |-> "none", url |-> NoUrl]
BraveKey(stored) == IF stored # NoKey THEN stored ELSE EnvKey
\* createSearcher: what answers with this configuration, Off if it is not complete.
Searcher(config, key) ==
    IF config.backend = "searxng" /\ config.url # NoUrl THEN [backend |-> "searxng", with |-> config.url]
    ELSE IF config.backend = "brave" /\ key # NoKey THEN [backend |-> "brave", with |-> key]
    ELSE Off
Current == Searcher(Config, BraveKey(vault))
\* describe()
Described(config, key) ==
    [backend |-> config.backend, url |-> config.url, present |-> key # NoKey,
     active |-> Searcher(config, BraveKey(key)) # Off]
Fields(answer) == [backend |-> answer.backend, url |-> answer.url, key |-> NoKey]

TypeOK ==
    /\ setting = Nothing \/ setting \in [at : {"saved"}, backend : Backends, url : Urls \cup {NoUrl}]
    /\ vault \in Keys \cup {NoKey} /\ form \in Values
    /\ shown.backend \in Backends /\ {shown.present, shown.active, refused} \subseteq BOOLEAN
    /\ request.at \in {"none", "sent", "answered"} /\ tested.at \in {"none", "shown"}
    /\ touches \in 0 .. MaxTouches /\ requests \in 0 .. MaxRequests /\ elsewhere \in 0 .. MaxElsewhere

\* The form was opened and has its answer.
Init ==
    /\ setting = Nothing /\ vault = NoKey /\ request = Nothing /\ tested = Nothing
    /\ shown = Described(Config, vault) /\ form = Fields(shown)
    /\ touches = 0 /\ requests = 0 /\ elsewhere = 0 /\ refused = FALSE

-----------------------------------------------------------------------------
(* PUT /api/web-search *)

\* Refused before anything is saved: no address for SearXNG.
Invalid(v) == v.backend = "searxng" /\ v.url = NoUrl
NewKey(v, remove) == IF remove THEN NoKey ELSE IF v.key # NoKey THEN v.key ELSE vault
\* Refused after everything was saved: no key for Brave.
Incomplete(v, key) == v.backend = "brave" /\ BraveKey(key) = NoKey
\* (CheckedFirst: what a plausible bug answers, the configuration as it was.)
AsItWas(config, key) == Described(Config, vault)
Answer(config, key) == Described(config, key)

Put(v, remove) ==
    IF Invalid(v) THEN UNCHANGED <<setting, vault>>
    ELSE setting' = [at |-> "saved", backend |-> v.backend, url |-> v.url] /\ vault' = NewKey(v, remove)
Verdict(v, remove) ==
    IF Invalid(v) \/ Incomplete(v, NewKey(v, remove)) THEN [ok |-> FALSE]
    ELSE [ok |-> TRUE, body |-> Answer([at |-> "saved", backend |-> v.backend, url |-> v.url], NewKey(v, remove))]

\* The searcher a test uses: the values sent, for the rest what is saved.
Tried(v) ==
    LET backend == IF v.backend = "none" THEN Config.backend ELSE v.backend
        url == IF v.url = NoUrl THEN Config.url ELSE v.url
        key == IF v.key = NoKey THEN BraveKey(vault) ELSE v.key
    IN Searcher([backend |-> backend, url |-> url], key)

-----------------------------------------------------------------------------
(* SearchSection *)

\* A field is changed; the test result on show goes.  (Untouched: a plausible bug.)
Untouched(result) == result
Touched(result) == Nothing
Edit(v) ==
    /\ touches < MaxTouches /\ touches' = touches + 1 /\ v # form
    /\ form' = v /\ tested' = Touched(tested)
    /\ request' = IF request = Nothing THEN Nothing ELSE [request EXCEPT !.edited = TRUE]
    /\ UNCHANGED <<setting, vault, shown, requests, refused, elsewhere>>

Dirty == form.backend # shown.backend \/ form.url # shown.url \/ form.key # NoKey
Send(kind, remove) ==
    /\ request = Nothing /\ requests < MaxRequests /\ requests' = requests + 1
    /\ request' = [at |-> "sent", kind |-> kind, values |-> form, remove |-> remove, edited |-> FALSE]
    /\ tested' = IF kind = "test" THEN Nothing ELSE tested
    /\ UNCHANGED <<setting, vault, form, shown, touches, refused, elsewhere>>
ClickSave == Dirty /\ Send("save", FALSE)
ClickRemove == form.backend = "brave" /\ shown.present /\ Send("save", TRUE)
ClickTest == form.backend # "none" /\ Send("test", FALSE)

\* The server takes the request.
ServeSave ==
    /\ request.at = "sent" /\ request.kind = "save" /\ Put(request.values, request.remove)
    /\ request' = [at |-> "answered", kind |-> "save", edited |-> request.edited] @@ Verdict(request.values, request.remove)
    /\ UNCHANGED <<form, shown, tested, touches, requests, refused, elsewhere>>
\* The engine answers the test query, or there is none, or it does not answer.
ServeTest ==
    /\ request.at = "sent" /\ request.kind = "test"
    /\ \E ok \in BOOLEAN :
        /\ ok => Tried(request.values) # Off
        /\ request' = [at |-> "answered", kind |-> "test", edited |-> request.edited, ok |-> ok, of |-> request.values]
    /\ UNCHANGED <<setting, vault, form, shown, tested, touches, requests, refused, elsewhere>>

\* apply(): the fields take the answer's values.
SaveLands ==
    /\ request.at = "answered" /\ request.kind = "save" /\ request' = Nothing
    /\ IF request.ok THEN shown' = request.body /\ form' = Fields(request.body) /\ refused' = FALSE
       ELSE refused' = TRUE /\ UNCHANGED <<shown, form>>
    /\ UNCHANGED <<setting, vault, tested, touches, requests, elsewhere>>
TestLands ==
    /\ request.at = "answered" /\ request.kind = "test" /\ request' = Nothing
    /\ tested' = [at |-> "shown", ok |-> request.ok, of |-> request.of, edited |-> request.edited]
    /\ UNCHANGED <<setting, vault, form, shown, touches, requests, refused, elsewhere>>
\* The answer is lost: the form does not know whether it was saved.
RequestFails ==
    /\ request # Nothing /\ request' = Nothing /\ refused' = (refused \/ request.kind = "save")
    /\ UNCHANGED <<setting, vault, form, shown, tested, touches, requests, elsewhere>>

SavedElsewhere(v, remove) ==
    /\ elsewhere < MaxElsewhere /\ elsewhere' = elsewhere + 1 /\ Put(v, remove)
    /\ UNCHANGED <<form, shown, request, tested, touches, requests, refused>>

Next ==
    \/ ClickSave \/ ClickRemove \/ ClickTest \/ ServeSave \/ ServeTest \/ SaveLands \/ TestLands \/ RequestFails
    \/ \E v \in Values : Edit(v)
    \/ \E v \in Values, remove \in BOOLEAN : SavedElsewhere(v, remove)

Spec == Init /\ [][Next]_vars

-----------------------------------------------------------------------------
Idle == request = Nothing

(***************************************************************************)
(* The badge says whether web_search works, unless a save was refused, its *)
(* answer was lost, or another tab saved (web-routes.ts:23-36).            *)
(***************************************************************************)
BadgeIsTrue == Idle /\ ~refused /\ elsewhere = 0 => shown.active = (Current # Off)

(***************************************************************************)
(* "Works" is said of what the fields hold, unless they were changed while *)
(* the test ran or saved since (WebTab.tsx:37).                            *)
(***************************************************************************)
WorksIsOfFields ==
    tested # Nothing /\ ~tested.edited /\ form # Fields(shown) => tested.of = form

\* A save that is refused changes nothing: it does (web-routes.ts:40-64).
RefusedChangesNothing ==
    [][request # Nothing /\ request' # Nothing /\ request.at = "sent" /\ request'.at = "answered" /\ request'.kind = "save" /\ ~request'.ok
        => setting' = setting /\ vault' = vault]_vars
\* A test result is of the fields on show: a test that was under way while they changed is shown too.
WorksIsOfTheFields == tested # Nothing /\ form # Fields(shown) => tested.of = form
=============================================================================
