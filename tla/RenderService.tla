--------------------------- MODULE RenderService ---------------------------
(***************************************************************************)
(* One PDF at a time: POST /render of the PDF service, and the backend that *)
(* calls it (PdfServiceClient.render).                                     *)
(*                                                                         *)
(* The service converts on a fixed set of LibreOffice slots with no queue: *)
(* a request that finds none free is told so, and the client asks once     *)
(* more after a pause.  Templates are named by their blob and the hash of  *)
(* their content, and the last ones used are kept by hash; the batches of  *)
(* the queue (module BulkJob) use the same cache and slots of their own.   *)
(* A client that gives up does not stop the service, and the service may   *)
(* stop at any time.                                                       *)
(***************************************************************************)
EXTENDS Integers, SequencesExt

CONSTANTS
    Requests,    \* documents the backend asks for
    Batches,     \* batches of the queue that load their template meanwhile
    Slots,       \* RENDER_SLOTS
    Blobs,       \* paths in the templates container
    Contents,    \* what a blob may hold; its hash is itself
    Broken,      \* contents that are no valid template
    CacheSize,   \* maxEntries
    MaxChanges,  \* bound: blobs that are written or deleted meanwhile
    MaxFaults,   \* bound: failures of any kind
    Null

RenderServiceAssumption ==
    /\ Broken \subseteq Contents /\ Null \notin Contents \cup Slots
    /\ CacheSize \in Nat \ {0} /\ {MaxChanges, MaxFaults} \subseteq Nat
    /\ Batches \cap (Requests \X {1, 2}) = {}

VARIABLES
    stored,    \* the content of each blob
    idle,      \* the slots of the pool
    cache,     \* the hashes of the templates kept, the last used at the end
    handler,   \* what the service does for each call
    client,    \* what the backend does for each request
    changes, faults

vars == <<stored, idle, cache, handler, client, changes, faults>>

-----------------------------------------------------------------------------
(* Types *)

\* A request makes two calls at most.
Calls == Requests \X {1, 2}

Tasks == Calls \cup Batches

Refs == [blob : Blobs, sha : Contents]

JobErrors == {"PDF_TEMPLATE_UNAVAILABLE", "PDF_STORAGE_UNAVAILABLE", "PDF_TEMPLATE_INVALID",
              "TEMPLATE_RENDER_FAILED", "PDF_CONVERSION_TIMEOUT", "PDF_CONVERSION_FAILED"}

\* The public code of each failure of the service.
PublicCode ==
    [PDF_TEMPLATE_UNAVAILABLE |-> "TEMPLATE_UNAVAILABLE",
     PDF_STORAGE_UNAVAILABLE  |-> "TEMPLATE_UNAVAILABLE",
     PDF_TEMPLATE_INVALID     |-> "TEMPLATE_INVALID",
     TEMPLATE_RENDER_FAILED   |-> "TEMPLATE_RENDER_FAILED",
     PDF_CONVERSION_TIMEOUT   |-> "CONVERSION_TIMEOUT",
     PDF_CONVERSION_FAILED    |-> "CONVERSION_FAILED"]

\* The API's code for what the service answered.
OwnCode ==
    [TEMPLATE_UNAVAILABLE   |-> "PDF_TEMPLATE_UNAVAILABLE",
     TEMPLATE_INVALID       |-> "PDF_TEMPLATE_INVALID",
     TEMPLATE_RENDER_FAILED |-> "TEMPLATE_RENDER_FAILED",
     CONVERSION_TIMEOUT     |-> "PDF_CONVERSION_TIMEOUT"]

ErrorCode(code) ==
    IF code \in DOMAIN OwnCode THEN OwnCode[code] ELSE "PDF_CONVERSION_FAILED"

\* had is the content a call works with, or what it was refused for.
Off == [at |-> "off", ref |-> Null, slot |-> Null, had |-> Null, code |-> Null]

AtWork == {"loading", "fetched", "converting"}

TypeOK ==
    /\ stored \in [Blobs -> Contents \cup {Null}]
    /\ idle \subseteq Slots
    /\ cache \in Seq(Contents) /\ IsInjective(cache)
    /\ handler \in [Tasks -> [at : {"off", "arrived", "replied", "gone"} \cup AtWork,
                              ref : Refs \cup {Null}, slot : Slots \cup {Null},
                              had : Contents \cup {Null},
                              code : {Null, "ok", "BUSY"} \cup Range(PublicCode)]]
    /\ client \in [Requests -> [at : {"off", "waiting", "sleeping", "pdf", "error"},
                                attempt : 1 .. 2, ref : Refs \cup {Null},
                                got : {Null} \cup Contents \cup JobErrors]]
    /\ changes \in 0 .. MaxChanges /\ faults \in 0 .. MaxFaults

-----------------------------------------------------------------------------
(* Helpers *)

Fault == faults < MaxFaults /\ faults' = faults + 1

\* The handler ends: it answers and, if it took a slot, gives it back.
Reply(t, code) ==
    /\ handler' = [handler EXCEPT ![t].at = "replied", ![t].code = code, ![t].slot = Null]
    /\ idle' = idle \cup ({handler[t].slot} \ {Null})

Fail(t, error) == Reply(t, PublicCode[error])

\* The template is at hand: a batch goes on elsewhere, and a call fills it in
\* (renderDocx), which a file that is no template does not survive.
Loaded(t, content) ==
    IF t \in Batches THEN handler' = [handler EXCEPT ![t] = Off] /\ UNCHANGED idle
    ELSE IF content \in Broken THEN Fail(t, "PDF_TEMPLATE_INVALID")
    ELSE /\ handler' = [handler EXCEPT ![t].at = "converting", ![t].had = content]
         /\ UNCHANGED idle

\* What was downloaded is what the reference names.
Matches(t) == handler[t].had = handler[t].ref.sha

\* A Map keeps insertion order, so a hit moves its entry to the end.
Used(sha) == Append(RemoveAt(cache, CHOOSE i \in DOMAIN cache : cache[i] = sha), sha)

\* One entry too many drops the first; another download may have kept it already.
Kept(sha) ==
    IF sha \in Range(cache) THEN cache
    ELSE LET longer == Append(cache, sha)
         IN  IF Len(longer) > CacheSize THEN Tail(longer) ELSE longer

-----------------------------------------------------------------------------
(* The backend *)

\* The reference it read of the active template, or of a draft's preview.
Ask(r, ref) ==
    /\ client[r].at = "off"
    /\ stored[ref.blob] = ref.sha
    /\ client' = [client EXCEPT ![r] = [at |-> "waiting", attempt |-> 1, ref |-> ref, got |-> Null]]
    /\ handler' = [handler EXCEPT ![<<r, 1>>] = [Off EXCEPT !.at = "arrived", !.ref = ref]]
    /\ UNCHANGED <<stored, idle, cache, changes, faults>>

\* Only a service without a free slot is asked again, once.
TriesAgain(r) == client[r].attempt = 1 /\ handler[<<r, 1>>].code = "BUSY"

Receive(r) ==
    LET reply == handler[<<r, client[r].attempt>>]
    IN  /\ client[r].at = "waiting" /\ reply.at = "replied"
        /\ client' = [client EXCEPT ![r] =
              IF reply.code = "ok" THEN [@ EXCEPT !.at = "pdf", !.got = reply.had]
              ELSE IF TriesAgain(r) THEN [@ EXCEPT !.at = "sleeping"]
              ELSE [@ EXCEPT !.at = "error", !.got = ErrorCode(reply.code)]]
        /\ UNCHANGED <<stored, idle, cache, handler, changes, faults>>

\* After the Retry-After.
AskAgain(r) ==
    /\ client[r].at = "sleeping"
    /\ client' = [client EXCEPT ![r].at = "waiting", ![r].attempt = 2]
    /\ handler' = [handler EXCEPT ![<<r, 2>>] =
                      [Off EXCEPT !.at = "arrived", !.ref = client[r].ref]]
    /\ UNCHANGED <<stored, idle, cache, changes, faults>>

\* The answer takes longer than RENDER_TIMEOUT_MS, or never comes.
GiveUp(r) ==
    /\ client[r].at = "waiting"
    /\ \/ /\ handler[<<r, client[r].attempt>>].at # "gone" /\ Fault
          /\ client' = [client EXCEPT ![r].at = "error", ![r].got = "PDF_CONVERSION_TIMEOUT"]
       \/ /\ handler[<<r, client[r].attempt>>].at = "gone" /\ UNCHANGED faults
          /\ client' = [client EXCEPT ![r].at = "error", ![r].got = "PDF_CONVERSION_FAILED"]
    /\ UNCHANGED <<stored, idle, cache, handler, changes>>

-----------------------------------------------------------------------------
(* The service *)

\* A slot, or none: there is no queue.
Take(t) ==
    /\ t \in Calls /\ handler[t].at = "arrived"
    /\ IF idle = {} THEN Reply(t, "BUSY")
       ELSE \E s \in idle : /\ idle' = idle \ {s}
                            /\ handler' = [handler EXCEPT ![t].at = "loading", ![t].slot = s]
    /\ UNCHANGED <<stored, cache, client, changes, faults>>

\* A batch that a slot of the worker starts with.
LoadForBatch(t, ref) ==
    /\ t \in Batches /\ handler[t].at \in {"off", "replied"}
    /\ stored[ref.blob] = ref.sha
    /\ handler' = [handler EXCEPT ![t] = [Off EXCEPT !.at = "loading", !.ref = ref]]
    /\ UNCHANGED <<stored, idle, cache, client, changes, faults>>

\* getTemplate: kept, or downloaded, which takes a while.
LoadTemplate(t) ==
    /\ handler[t].at = "loading"
    /\ IF handler[t].ref.sha \in Range(cache)
       THEN cache' = Used(handler[t].ref.sha) /\ Loaded(t, handler[t].ref.sha)
       ELSE /\ handler' = [handler EXCEPT ![t].at = "fetched",
                                          ![t].had = stored[handler[t].ref.blob]]
            /\ UNCHANGED <<cache, idle>>
    /\ UNCHANGED <<stored, client, changes, faults>>

\* What was downloaded is checked, and kept by its hash.
KeepTemplate(t) ==
    /\ handler[t].at = "fetched"
    /\ IF Matches(t) THEN cache' = Kept(handler[t].ref.sha) /\ Loaded(t, handler[t].had)
                     ELSE Fail(t, "PDF_TEMPLATE_UNAVAILABLE") /\ UNCHANGED cache
    /\ UNCHANGED <<stored, client, changes, faults>>

\* Storage fails.
LoadFails(t) ==
    /\ handler[t].at = "loading" /\ handler[t].ref.sha \notin Range(cache) /\ Fault
    /\ Fail(t, "PDF_STORAGE_UNAVAILABLE")
    /\ UNCHANGED <<stored, cache, client, changes>>

\* LibreOffice answers a complete PDF in time.
Convert(t) ==
    /\ handler[t].at = "converting"
    /\ Reply(t, "ok")
    /\ UNCHANGED <<stored, cache, client, changes, faults>>

\* The data does not fit, LibreOffice is killed at its timeout, or leaves no
\* complete file.
ConvertFails(t) ==
    /\ handler[t].at = "converting" /\ Fault
    /\ \E error \in {"TEMPLATE_RENDER_FAILED", "PDF_CONVERSION_TIMEOUT", "PDF_CONVERSION_FAILED"} :
          Fail(t, error)
    /\ UNCHANGED <<stored, cache, client, changes>>

\* The process ends with all it was doing and starts again.
ServiceStops ==
    /\ Fault
    /\ handler' = [t \in Tasks |->
                      IF handler[t].at \in {"arrived"} \cup AtWork
                      THEN [handler[t] EXCEPT !.at = IF t \in Calls THEN "gone" ELSE "off",
                                              !.slot = Null]
                      ELSE handler[t]]
    /\ idle' = Slots /\ cache' = <<>>
    /\ UNCHANGED <<stored, client, changes>>

\* A blob is written again (a draft's preview) or deleted (a sweep).
Change(b, content) ==
    /\ changes < MaxChanges /\ stored[b] # content
    /\ stored' = [stored EXCEPT ![b] = content]
    /\ changes' = changes + 1
    /\ UNCHANGED <<idle, cache, handler, client, faults>>

-----------------------------------------------------------------------------
Init ==
    /\ stored \in [Blobs -> Contents]
    /\ idle = Slots /\ cache = <<>>
    /\ handler = [t \in Tasks |-> Off]
    /\ client = [r \in Requests |-> [at |-> "off", attempt |-> 1, ref |-> Null, got |-> Null]]
    /\ changes = 0 /\ faults = 0

Next ==
    \/ \E r \in Requests :
          \/ \E ref \in Refs : Ask(r, ref)
          \/ Receive(r) \/ AskAgain(r) \/ GiveUp(r)
    \/ \E t \in Tasks :
          \/ Take(t) \/ LoadTemplate(t) \/ KeepTemplate(t) \/ LoadFails(t)
          \/ Convert(t) \/ ConvertFails(t)
    \/ \E t \in Batches, ref \in Refs : LoadForBatch(t, ref)
    \/ ServiceStops
    \/ \E b \in Blobs, content \in Contents \cup {Null} : Change(b, content)

Spec == Init /\ [][Next]_vars

-----------------------------------------------------------------------------
(* Properties *)

\* Every slot is in the pool or with the one call that works on it: none is
\* lost, whatever ends a call, and no two conversions share a profile.
SlotsConserved ==
    /\ \A s \in Slots : s \notin idle <=> \E t \in Calls : handler[t].slot = s
    /\ \A t, u \in Calls : handler[t].slot = handler[u].slot /\ t # u => handler[t].slot = Null
    /\ \A t \in Calls : handler[t].slot # Null <=> handler[t].at \in AtWork

\* A PDF is of the template that was asked for, by its hash, whatever the blob
\* held when it was downloaded and whatever the cache dropped meanwhile.
PdfOfItsTemplate ==
    \A r \in Requests : client[r].at = "pdf" => client[r].got = client[r].ref.sha

\* One conversion per request: the second call is of one that had no slot.
ConvertedOnce ==
    \A r \in Requests :
        handler[<<r, 2>>].at # "off" => handler[<<r, 1>>].at = "replied" /\ handler[<<r, 1>>].code = "BUSY"

\* When nothing is written, deleted or failing meanwhile, a request only ends
\* without its PDF for want of a slot, twice, or because its template is no
\* template; and the cache keeps to its size.
ServiceIsTrue ==
    /\ SlotsConserved /\ PdfOfItsTemplate /\ ConvertedOnce
    /\ Len(cache) <= CacheSize
    /\ changes = 0 /\ faults = 0 =>
          \A r \in Requests : client[r].at = "error" =>
              \/ /\ client[r].got = "PDF_CONVERSION_FAILED"
                 /\ client[r].attempt = 2 /\ handler[<<r, 2>>].code = "BUSY"
              \/ /\ client[r].got = "PDF_TEMPLATE_INVALID"
                 /\ client[r].ref.sha \in Broken
=============================================================================
